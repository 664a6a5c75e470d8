------------------------- MODULE PatternMatcherProofs -------------------------
(***************************************************************************)
(* Proofs about PatternMatcher for every alphabet and every rule file: the *)
(* failure links lead to longest endings, the scan remembers the longest   *)
(* ending of the flow, and every byte reports the signatures that end at   *)
(* it, as often as the file has them.                                      *)
(***************************************************************************)
EXTENDS PatternMatcher, DataLemmas, FiniteSetTheorems

(* How often a value is in a list.                                         *)
LEMMA PlacesAreFinite ==
  ASSUME NEW V, NEW list \in Seq(V), NEW s
  PROVE  /\ IsFiniteSet({i \in DOMAIN list : list[i] = s})
         /\ Count(s, list) \in Nat
<1> DEFINE P == {i \in DOMAIN list : list[i] = s}
<1>1. Len(list) \in Nat /\ DOMAIN list = 1 .. Len(list)
  BY LenProperties
<1>2. P \in SUBSET (1 .. Len(list))
  BY <1>1
<1>3. IsFiniteSet(1 .. Len(list))
  BY <1>1, FS_Interval
<1>4. IsFiniteSet(P)
  BY <1>2, <1>3, FS_Subset
<1> QED
  BY <1>4, FS_CardinalityType DEF Count

LEMMA CountOfNone == \A s : Count(s, <<>>) = 0
<1> SUFFICES ASSUME NEW s PROVE Count(s, <<>>) = 0
  OBVIOUS
<1>1. {i \in DOMAIN <<>> : <<>>[i] = s} = {}
  OBVIOUS
<1> QED
  BY <1>1, FS_EmptySet DEF Count

LEMMA CountOfOne == \A r, s : Count(s, <<r>>) = IF r = s THEN 1 ELSE 0
<1> SUFFICES ASSUME NEW r, NEW s PROVE Count(s, <<r>>) = IF r = s THEN 1 ELSE 0
  OBVIOUS
<1>1. {i \in DOMAIN <<r>> : <<r>>[i] = s} = IF r = s THEN {1} ELSE {}
  OBVIOUS
<1> QED
  BY <1>1, FS_EmptySet, FS_Singleton DEF Count

LEMMA CountOfConcat ==
  ASSUME NEW V, NEW p \in Seq(V), NEW q \in Seq(V), NEW s
  PROVE  Count(s, p \o q) = Count(s, p) + Count(s, q)
<1> DEFINE A == {i \in DOMAIN p : p[i] = s}
           B == {i \in DOMAIN q : q[i] = s}
           C == {i \in DOMAIN (p \o q) : (p \o q)[i] = s}
           D == {i \in C : i > Len(p)}
           shift == [i \in B |-> Len(p) + i]
<1>1. /\ Len(p) \in Nat /\ Len(q) \in Nat
      /\ DOMAIN p = 1 .. Len(p) /\ DOMAIN q = 1 .. Len(q)
  BY LenProperties
<1>2. /\ DOMAIN (p \o q) = 1 .. Len(p) + Len(q)
      /\ \A i \in 1 .. Len(p) + Len(q) :
           (p \o q)[i] = IF i <= Len(p) THEN p[i] ELSE q[i - Len(p)]
  <2>1. p \o q \in Seq(V) /\ Len(p \o q) = Len(p) + Len(q)
    BY ConcatProperties
  <2>2. DOMAIN (p \o q) = 1 .. Len(p) + Len(q)
    BY <2>1, LenProperties
  <2> QED
    BY <2>2, ConcatProperties
<1>3. C = A \cup D /\ A \cap D = {}
  BY <1>1, <1>2
<1>4. shift \in Bijection(B, D)
  <2>1. \A i \in B : i \in 1 .. Len(q) /\ q[i] = s
    BY <1>1
  <2>2. \A i \in D : i \in 1 .. Len(p) + Len(q) /\ i > Len(p) /\ q[i - Len(p)] = s
    BY <1>1, <1>2
  <2>3. \A i \in B : Len(p) + i \in D
    <3> SUFFICES ASSUME NEW i \in B PROVE Len(p) + i \in D
      OBVIOUS
    <3>1. /\ Len(p) + i \in 1 .. Len(p) + Len(q) /\ ~(Len(p) + i <= Len(p))
          /\ Len(p) + i - Len(p) = i
      BY <1>1, <2>1
    <3> QED
      BY <1>2, <2>1, <3>1
  <2>4. \A i \in D : i - Len(p) \in B /\ Len(p) + (i - Len(p)) = i
    BY <1>1, <2>2
  <2>5. \A i, j \in B : Len(p) + i = Len(p) + j => i = j
    BY <1>1, <2>1
  <2> HIDE DEF B, D
  <2>6. shift \in Injection(B, D)
    BY <2>3, <2>5 DEF Injection, IsInjective
  <2>7. shift \in Surjection(B, D)
    BY <2>3, <2>4 DEF Surjection
  <2> QED
    BY <2>6, <2>7 DEF Bijection
<1>5. /\ IsFiniteSet(A) /\ Count(s, p) = Cardinality(A) /\ Cardinality(A) \in Nat
      /\ IsFiniteSet(B) /\ Count(s, q) = Cardinality(B)
  BY PlacesAreFinite DEF Count
<1> HIDE DEF A, B, D, shift
<1>6. IsFiniteSet(D) /\ Cardinality(D) = Cardinality(B) /\ Cardinality(D) \in Nat
  BY <1>4, <1>5, FS_Bijection, FS_CardinalityType DEF ExistsBijection
<1>7. Cardinality(A \cup D) = Cardinality(A) + Cardinality(D) - Cardinality(A \cap D)
  BY <1>5, <1>6, FS_Union
<1>8. Cardinality(A \cap D) = 0
  BY <1>3, FS_EmptySet
<1>9. Count(s, p \o q) = Cardinality(C)
  BY DEF Count
<1> HIDE DEF C
<1> QED
  BY <1>3, <1>5, <1>6, <1>7, <1>8, <1>9

LEMMA CountIsZero ==
  ASSUME NEW V, NEW list \in Seq(V), NEW s
  PROVE  Count(s, list) = 0 <=> s \notin Range(list)
<1>1. Count(s, list) = 0 <=> {i \in DOMAIN list : list[i] = s} = {}
  BY PlacesAreFinite, FS_EmptySet DEF Count
<1> QED
  BY <1>1 DEF Range

(* Lists without duplicates that share no element.                         *)
LEMMA ConcatInjective ==
  ASSUME NEW V, NEW p \in Seq(V), NEW q \in Seq(V), IsInjective(p), IsInjective(q),
         Range(p) \cap Range(q) = {}
  PROVE  IsInjective(p \o q)
<1>1. /\ Len(p) \in Nat /\ Len(q) \in Nat
      /\ DOMAIN p = 1 .. Len(p) /\ DOMAIN q = 1 .. Len(q)
  BY LenProperties
<1>2. /\ DOMAIN (p \o q) = 1 .. Len(p) + Len(q)
      /\ \A i \in 1 .. Len(p) + Len(q) :
           (p \o q)[i] = IF i <= Len(p) THEN p[i] ELSE q[i - Len(p)]
  <2>1. p \o q \in Seq(V) /\ Len(p \o q) = Len(p) + Len(q)
    BY ConcatProperties
  <2>2. DOMAIN (p \o q) = 1 .. Len(p) + Len(q)
    BY <2>1, LenProperties
  <2> QED
    BY <2>2, ConcatProperties
<1>3. \A i \in 1 .. Len(p), j \in 1 .. Len(q) : p[i] # q[j]
  BY <1>1 DEF Range
<1>4. ASSUME NEW i \in 1 .. Len(p) + Len(q), NEW j \in 1 .. Len(p) + Len(q),
             (p \o q)[i] = (p \o q)[j]
      PROVE  i = j
  <2>1. CASE i <= Len(p) /\ j <= Len(p)
    <3>1. i \in 1 .. Len(p) /\ j \in 1 .. Len(p) /\ p[i] = p[j]
      BY <1>1, <1>2, <1>4, <2>1
    <3> QED
      BY <1>1, <3>1 DEF IsInjective
  <2>2. CASE ~(i <= Len(p)) /\ ~(j <= Len(p))
    <3>1. i - Len(p) \in 1 .. Len(q) /\ j - Len(p) \in 1 .. Len(q)
      BY <1>1, <2>2
    <3>2. q[i - Len(p)] = q[j - Len(p)]
      BY <1>2, <1>4, <2>2
    <3>3. i - Len(p) = j - Len(p)
      BY <1>1, <3>1, <3>2 DEF IsInjective
    <3> QED
      BY <1>1, <3>3
  <2>3. CASE i <= Len(p) /\ ~(j <= Len(p))
    <3>1. i \in 1 .. Len(p) /\ j - Len(p) \in 1 .. Len(q) /\ p[i] = q[j - Len(p)]
      BY <1>1, <1>2, <1>4, <2>3
    <3> QED
      BY <1>3, <3>1
  <2>4. CASE ~(i <= Len(p)) /\ j <= Len(p)
    <3>1. j \in 1 .. Len(p) /\ i - Len(p) \in 1 .. Len(q) /\ p[j] = q[i - Len(p)]
      BY <1>1, <1>2, <1>4, <2>4
    <3> QED
      BY <1>3, <3>1
  <2> QED
    BY <2>1, <2>2, <2>3, <2>4
<1> QED
  BY <1>2, <1>4 DEF IsInjective
-----------------------------------------------------------------------------
(* A node with one byte more.                                              *)
LEMMA ChildLength ==
  ASSUME NEW n \in Seq(Byte), NEW b \in Byte
  PROVE  /\ Append(n, b) \in Seq(Byte) /\ Append(n, b) # Root
         /\ Len(n) \in Nat /\ Len(Append(n, b)) = Len(n) + 1
         /\ Append(n, b)[Len(n) + 1] = b
         /\ Append(n, b)[Len(Append(n, b))] = b
BY AppendProperties, LenProperties DEF Root

(* The loop over the children of a node finds each of them once.           *)
LEMMA ChildrenFacts ==
  ASSUME trie \subseteq Seq(Byte), NEW n \in Seq(Byte)
  PROVE  /\ ChildrenOf(n) \in Seq(trie)
         /\ Range(ChildrenOf(n)) = {c \in trie : \E b \in Byte : c = Append(n, b)}
         /\ IsInjective(ChildrenOf(n))
<1> DEFINE S == 0 .. NumBytes
           V == Seq(trie)
           One(i) == IF Append(n, i - 1) \in trie THEN <<Append(n, i - 1)>> ELSE <<>>
           H(f) == [i \in S |-> IF i = 0 THEN <<>> ELSE f[i - 1] \o One(i)]
           G == [f \in [S -> V] |-> H(f)]
           size == [i \in S |-> i]
           upTo == CHOOSE g : g = H(g)
<1>1. NumBytes \in Nat \ {0} /\ Byte = 0 .. NumBytes - 1
  BY MatcherAssumption DEF Byte
<1>2. <<>> \in V /\ \A i \in S : One(i) \in V
  BY EmptySeq, <1>1
<1>3. ASSUME NEW p \in V, NEW i \in S PROVE p \o One(i) \in V
  BY <1>2, ConcatProperties
<1> HIDE DEF One
<1>4. \A f \in [S -> V] : H(f) \in [S -> V]
  BY <1>1, <1>2, <1>3
<1>5. size \in [S -> Nat]
  BY <1>1
<1>6. \A f, g \in [S -> V], i \in S :
        (\A j \in S : size[j] < size[i] => f[j] = g[j]) => H(f)[i] = H(g)[i]
  BY <1>1
<1> HIDE DEF V
<1>7. Recursive(G, S, V, size)
  BY <1>4, <1>5, <1>6 DEF Recursive
<1>8. PICK f0 \in [S -> V] : TRUE
  <2>1. [i \in S |-> <<>>] \in [S -> V]
    BY <1>2
  <2> QED
    BY <2>1
<1>9. \E f \in [S -> V] : f = G[f]
  <2> HIDE DEF G, size, S
  <2> QED
    BY <1>7, <1>8, RecursionFits
<1>10. PICK f \in [S -> V] : f = H(f)
  BY <1>9
<1>11. ChildrenOf(n) = upTo[NumBytes]
  BY DEF ChildrenOf, One
<1>12. upTo = H(upTo)
  BY <1>10
<1> HIDE DEF upTo
<1>13. /\ upTo[0] = <<>>
       /\ \A i \in 1 .. NumBytes : upTo[i] = upTo[i - 1] \o One(i)
  <2>1. \A i \in S : upTo[i] = IF i = 0 THEN <<>> ELSE upTo[i - 1] \o One(i)
    BY <1>12
  <2>2. 0 \in S /\ \A i \in 1 .. NumBytes : i \in S /\ i # 0
    BY <1>1
  <2> HIDE DEF S
  <2> QED
    BY <2>1, <2>2
<1> DEFINE Found(i) == {c \in trie : \E b \in 0 .. i - 1 : c = Append(n, b)}
           Right(i) == /\ upTo[i] \in V
                       /\ Range(upTo[i]) = Found(i)
                       /\ IsInjective(upTo[i])
           P == {i \in Nat : i \in S => Right(i)}
<1>14. Right(0)
  <2>1. Range(<<>>) = {} /\ IsInjective(<<>>)
    BY DEF Range, IsInjective
  <2>2. Found(0) = {}
    OBVIOUS
  <2> QED
    BY <1>2, <1>13, <2>1, <2>2
<1>15. ASSUME NEW i \in Nat, i \in P, i + 1 \in S PROVE Right(i + 1)
  <2>1. i \in S /\ i + 1 \in 1 .. NumBytes /\ (i + 1) - 1 = i /\ i \in Byte
    BY <1>1, <1>15
  <2>2. upTo[i] \in V /\ Range(upTo[i]) = Found(i) /\ IsInjective(upTo[i])
    BY <1>15, <2>1
  <2>3. upTo[i + 1] = upTo[i] \o One(i + 1)
    BY <1>13, <2>1
  <2> DEFINE c == Append(n, i)
  <2>4. One(i + 1) = IF c \in trie THEN <<c>> ELSE <<>>
    BY <2>1 DEF One
  <2>5. ASSUME NEW b \in 0 .. i - 1 PROVE Append(n, b) # c
    <3>1. b \in Byte /\ b # i
      BY <1>1, <2>1
    <3> QED
      BY <2>1, <3>1, ChildLength
  <2> HIDE DEF c
  <2>6. Range(One(i + 1)) = {c} \cap trie /\ IsInjective(One(i + 1))
    BY <2>4 DEF Range, IsInjective
  <2>7. c \notin Found(i)
    BY <2>5
  <2>8. Found(i + 1) = Found(i) \cup ({c} \cap trie)
    BY <2>1 DEF c
  <2>9. upTo[i] \in Seq(trie) /\ One(i + 1) \in Seq(trie) /\ upTo[i + 1] \in V
    BY <1>2, <1>3, <2>1, <2>2, <2>3 DEF V
  <2> HIDE DEF Found
  <2>10. Range(upTo[i + 1]) = Found(i + 1)
    <3>1. Range(upTo[i] \o One(i + 1)) = Range(upTo[i]) \cup Range(One(i + 1))
      BY <2>9, RangeConcatenation
    <3> QED
      BY <2>2, <2>3, <2>6, <2>8, <3>1
  <2>11. IsInjective(upTo[i + 1])
    BY <2>2, <2>3, <2>6, <2>7, <2>9, ConcatInjective
  <2> QED
    BY <2>9, <2>10, <2>11
<1>16. 0 \in P /\ \A i \in Nat : i \in P => i + 1 \in P
  BY <1>14, <1>15
<1> HIDE DEF P
<1>17. Nat \subseteq P
  BY <1>16, NumberInduction
<1>18. Right(NumBytes)
  <2>1. NumBytes \in Nat /\ NumBytes \in S
    BY <1>1
  <2> QED
    BY <1>17, <2>1 DEF P
<1> QED
  BY <1>1, <1>11, <1>18 DEF V
-----------------------------------------------------------------------------
(* The nodes form a trie.                                                  *)
IsTrie ==
  /\ trie \subseteq Seq(Byte)
  /\ Root \in trie
  /\ PrefixClosed(trie, Byte)

(* Every failure link leads closer to the root, which has none ...         *)
LinksShorten ==
  /\ fail \in [trie -> trie]
  /\ \A n \in trie \ {Root} : Len(fail[n]) < Len(n)

(* ... and so the loops that follow the links end at a node with a child.  *)
LEMMA FollowUnfolds ==
  ASSUME IsTrie, LinksShorten, NEW b \in Byte
  PROVE  \A n \in trie :
           Follow(n, b) = IF HasChild(n, b) THEN Child(n, b) ELSE Follow(fail[n], b)
<1> DEFINE H(f) == [n \in trie |-> IF HasChild(n, b) THEN Child(n, b) ELSE f[fail[n]]]
           G == [f \in [trie -> trie] |-> H(f)]
           size == [n \in trie |-> Len(n)]
           follow == CHOOSE g : g = H(g)
<1>1. \A n \in trie : Child(n, b) \in trie /\ fail[n] \in trie
  BY DEF Child, IsTrie, LinksShorten
<1>2. \A f \in [trie -> trie] : H(f) \in [trie -> trie]
  BY <1>1
<1>3. size \in [trie -> Nat]
  BY LenProperties DEF IsTrie
<1>4. \A n \in trie : ~HasChild(n, b) => size[fail[n]] < size[n]
  BY <1>1 DEF HasChild, LinksShorten
<1> HIDE DEF size
<1>5. \A f, g \in [trie -> trie], n \in trie :
        (\A m \in trie : size[m] < size[n] => f[m] = g[m]) => H(f)[n] = H(g)[n]
  BY <1>1, <1>4
<1>6. Recursive(G, trie, trie, size)
  BY <1>2, <1>3, <1>5 DEF Recursive
<1>7. \E f \in [trie -> trie] : f = G[f]
  <2> HIDE DEF G
  <2>1. fail \in [trie -> trie]
    BY DEF LinksShorten
  <2> QED
    BY <1>6, <2>1, RecursionFits
<1>8. PICK f \in [trie -> trie] : f = H(f)
  BY <1>7
<1>9. follow = H(follow)
  BY <1>8
<1>10. \A n : Follow(n, b) = follow[n]
  BY DEF Follow
<1> HIDE DEF follow
<1>11. \A n \in trie : follow[n] = IF HasChild(n, b) THEN Child(n, b) ELSE follow[fail[n]]
  BY <1>9
<1> QED
  BY <1>10, <1>11

(* The links that are right up to some length.                             *)
LinkedTo(length) ==
  \A m \in trie \ {Root} : Len(m) <= length => fail[m] = LongestEnding(Tail(m), trie)

(* A node itself, and a byte that no node begins with.                     *)
LEMMA LongestOfNode ==
  ASSUME IsTrie, NEW n \in trie
  PROVE  LongestEnding(n, trie) = n
<1>1. trie \subseteq Seq(Byte) /\ Root \in trie /\ n \in Seq(Byte)
  BY DEF IsTrie
<1>2. IsLongest(n, trie, n)
  <2>1. EndsWith(n, n)
    BY <1>1, EndsWithItself
  <2> QED
    BY <2>1 DEF IsLongest, EndsWith
<1> QED
  BY <1>1, <1>2, LongestEndingUnique

(* Along links that are right, a byte leads from a node to the longest     *)
(* ending of both that is a node.                                          *)
LEMMA FollowFindsLongest ==
  ASSUME IsTrie, LinksShorten, NEW length \in Nat, LinkedTo(length), NEW b \in Byte
  PROVE  \A n \in trie :
           Len(n) <= length => Follow(n, b) = LongestEnding(Append(n, b), trie)
<1> DEFINE Right(n) == Follow(n, b) = LongestEnding(Append(n, b), trie)
           T == {Len(n) : n \in {m \in trie : Len(m) <= length /\ ~Right(m)}}
<1> SUFFICES ASSUME T # {} PROVE FALSE
  OBVIOUS
<1>1. trie \subseteq Seq(Byte) /\ Root \in trie /\ PrefixClosed(trie, Byte)
  BY DEF IsTrie
<1>2. \A m \in trie : Len(m) \in Nat
  BY <1>1, LenProperties
<1>3. T \subseteq Nat
  BY <1>2
<1>4. PICK k \in T : \A m \in T : k <= m
  BY <1>3, LeastNumber
<1>5. PICK n \in trie : Len(n) = k /\ Len(n) <= length /\ ~Right(n)
  OBVIOUS
<1>6. \A m \in trie : Len(m) < Len(n) => Right(m)
  <2> SUFFICES ASSUME NEW m \in trie, Len(m) < Len(n), ~Right(m) PROVE FALSE
    OBVIOUS
  <2>1. Len(m) <= length /\ Len(m) \in Nat /\ Len(n) \in Nat
    BY <1>2, <1>5
  <2>2. Len(m) \in T
    BY <2>1
  <2>3. k <= Len(m)
    BY <1>4, <2>2
  <2> QED
    BY <1>5, <2>1, <2>3
<1>7. n \in Seq(Byte) /\ Append(n, b) \in Seq(Byte)
  BY <1>1, ChildLength
<1> HIDE DEF T
<1>8. CASE Append(n, b) \in trie
  <2>1. Follow(n, b) = Append(n, b)
    BY <1>8, FollowUnfolds DEF HasChild, Child
  <2> QED
    BY <1>5, <1>8, <2>1, LongestOfNode
<1>9. CASE n = Root /\ Append(n, b) \notin trie
  <2>1. Follow(n, b) = Root
    BY <1>9, FollowUnfolds DEF HasChild, Child
  <2>2. Tail(Append(n, b)) = Root
    BY <1>9, EmptySeq, HeadTailAppend DEF Root
  <2>3. LongestEnding(Append(n, b), trie) = LongestEnding(Root, trie)
    BY <1>1, <1>7, <1>9, <2>2, LongestEndingOfTail
  <2> QED
    BY <1>1, <1>5, <2>1, <2>3, LongestOfNode
<1>10. CASE n # Root /\ Append(n, b) \notin trie
  <2>1. Follow(n, b) = Follow(fail[n], b)
    BY <1>10, FollowUnfolds DEF HasChild
  <2>2. fail[n] = LongestEnding(Tail(n), trie)
    BY <1>5, <1>10 DEF LinkedTo
  <2>3. fail[n] \in trie /\ Len(fail[n]) < Len(n)
    BY <1>10 DEF LinksShorten
  <2>4. Follow(fail[n], b) = LongestEnding(Append(fail[n], b), trie)
    BY <1>6, <2>3
  <2>5. Tail(n) \in Seq(Byte) /\ Tail(Append(n, b)) = Append(Tail(n), b)
    BY <1>7, <1>10, HeadTailProperties, HeadTailAppend DEF Root
  <2>6. LongestEnding(Append(n, b), trie) = LongestEnding(Append(Tail(n), b), trie)
    BY <1>1, <1>7, <1>10, <2>5, LongestEndingOfTail
  <2>7. LongestEnding(Append(Tail(n), b), trie)
          = LongestEnding(Append(LongestEnding(Tail(n), trie), b), trie)
    BY <1>1, <2>5, LongestEndingOfAppend
  <2> QED
    BY <1>5, <2>1, <2>2, <2>4, <2>6, <2>7
<1> QED
  BY <1>8, <1>9, <1>10
-----------------------------------------------------------------------------
(* The inductive invariant.  In the breadth-first search a node has been   *)
(* reached when none of the nodes on the way to it is in the queue.        *)
Ahead(n, q) == \A k \in 1 .. Len(n) - 1 : SubSeq(n, 1, k) \notin Range(q)

Reached ==
  IF phase = "load" THEN {} ELSE {n \in trie \ {Root} : Ahead(n, queue)}

TrieInv ==
  /\ phase \in {"load", "build", "scan"}
  /\ loaded \in Seq(Seq(Byte))
  /\ Root \notin Range(loaded)
  /\ trie = Beginnings(Range(loaded))

(* The queue has its nodes in the order of their lengths, each once.       *)
QueueInv ==
  /\ queue \in Seq(trie)
  /\ Range(queue) \subseteq Reached
  /\ IsInjective(queue)
  /\ \A i, j \in 1 .. Len(queue) :
       i <= j => Len(queue[i]) <= Len(queue[j]) /\ Len(queue[j]) <= Len(queue[1]) + 1
  /\ phase # "build" => queue = <<>>

(* The nodes that were reached have their links, the others none.          *)
LinksInv ==
  /\ fail \in [trie -> trie]
  /\ \A n \in trie : fail[n] = IF n \in Reached THEN LongestEnding(Tail(n), trie) ELSE Root

(* They have all signatures that end with them, the others their own.      *)
MatchedInv ==
  /\ matched \in [trie -> Seq(Seq(Byte))]
  /\ \A n \in trie, s \in Seq(Byte) :
       Count(s, matched[n]) =
         IF n = s \/ (n \in Reached /\ EndsWith(n, s)) THEN Count(s, loaded) ELSE 0

ScanInv ==
  /\ text \in Seq(Byte)
  /\ phase # "scan" => text = <<>>
  /\ node = LongestEnding(text, trie)

MatcherInv == TrieInv /\ QueueInv /\ LinksInv /\ MatchedInv /\ ScanInv

LEMMA TrieFacts ==
  ASSUME TrieInv
  PROVE  /\ IsTrie
         /\ Range(loaded) \subseteq trie
         /\ \A n \in trie : \A k \in 0 .. Len(n) : SubSeq(n, 1, k) \in trie
<1>1. Range(loaded) \subseteq Seq(Byte)
  BY RangeOfSeq DEF TrieInv
<1> QED
  BY <1>1, BeginningsFacts, BeginningsOfBeginnings DEF TrieInv, IsTrie

LEMMA LinkFacts ==
  ASSUME TrieInv, LinksInv
  PROVE  LinksShorten
<1> SUFFICES ASSUME NEW n \in trie \ {Root} PROVE Len(fail[n]) < Len(n)
  BY DEF LinksShorten, LinksInv
<1>1. trie \subseteq Seq(Byte) /\ Root \in trie
  BY TrieFacts DEF IsTrie
<1>2. n # <<>> /\ n \in Seq(Byte)
  BY <1>1 DEF Root
<1>3. Tail(n) \in Seq(Byte) /\ Len(Tail(n)) = Len(n) - 1 /\ Len(n) \in Nat /\ Len(n) # 0
  BY <1>2, HeadTailProperties, LenProperties, EmptySeq
<1>4. CASE n \in Reached
  <2>1. fail[n] = LongestEnding(Tail(n), trie)
    BY <1>4 DEF LinksInv
  <2>2. Len(fail[n]) <= Len(Tail(n)) /\ Len(fail[n]) \in Nat
    BY <1>1, <1>3, <2>1, LongestEndingFacts, LenProperties DEF IsLongest, EndsWith
  <2> QED
    BY <1>3, <2>2
<1>5. CASE n \notin Reached
  <2>1. Len(fail[n]) = 0
    BY <1>5, EmptySeq DEF LinksInv, Root
  <2> QED
    BY <1>3, <2>1
<1> QED
  BY <1>4, <1>5

(* What a node remembers of a text is enough to tell which signatures end  *)
(* there.                                                                  *)
LEMMA ReachedReport ==
  ASSUME TrieInv, MatchedInv, NEW t \in Seq(Byte), NEW n, n = LongestEnding(t, trie),
         n \in Reached \cup {Root}, NEW s \in Seq(Byte)
  PROVE  Count(s, matched[n]) = IF EndsWith(t, s) THEN Count(s, loaded) ELSE 0
<1>1. trie \subseteq Seq(Byte) /\ Root \in trie /\ Range(loaded) \subseteq trie
  BY TrieFacts DEF IsTrie
<1>2. n \in trie /\ n \in Seq(Byte)
  BY <1>1, LongestEndingFacts DEF IsLongest
<1>3. CASE Count(s, loaded) = 0
  BY <1>2, <1>3 DEF MatchedInv
<1>4. CASE Count(s, loaded) # 0
  <2>1. s \in Range(loaded)
    BY <1>4, CountIsZero DEF TrieInv
  <2>2. s \in trie /\ s # Root
    BY <1>1, <2>1 DEF TrieInv
  <2>3. EndsWith(t, s) <=> EndsWith(n, s)
    BY <1>1, <2>2, SameEndings
  <2>4. EndsWith(n, s) <=> n = s \/ (n \in Reached /\ EndsWith(n, s))
    <3>1. n = s => EndsWith(n, s)
      BY <1>2, EndsWithItself
    <3>2. ASSUME n = Root, EndsWith(n, s) PROVE n = s
      <4>1. Len(s) \in Nat /\ Len(s) <= 0
        BY <3>2, LenProperties, EmptySeq DEF EndsWith, Root
      <4> QED
        BY <3>2, <4>1, EmptySeq DEF Root
    <3> QED
      BY <3>1, <3>2
  <2> QED
    BY <1>2, <2>3, <2>4 DEF MatchedInv
<1> QED
  BY <1>3, <1>4
-----------------------------------------------------------------------------
(* The head of the queue is one of its shortest nodes.                     *)
LEMMA QueueHead ==
  ASSUME TrieInv, QueueInv, queue # <<>>
  PROVE  /\ Head(queue) \in Reached /\ phase = "build"
         /\ Head(queue) \in trie /\ Head(queue) \in Seq(Byte) /\ Head(queue) # Root
         /\ Tail(queue) \in Seq(trie) /\ IsInjective(Tail(queue))
         /\ Range(Tail(queue)) = Range(queue) \ {Head(queue)}
         /\ Head(queue) \in Range(queue)
         /\ \A q \in Range(queue) :
              Len(Head(queue)) <= Len(q) /\ Len(q) <= Len(Head(queue)) + 1
<1> DEFINE rest == Tail(queue)
<1>1. queue \in Seq(trie) /\ phase = "build"
  BY DEF QueueInv
<1>2. Len(queue) \in Nat /\ Len(queue) # 0 /\ DOMAIN queue = 1 .. Len(queue)
  BY <1>1, LenProperties, EmptySeq
<1>3. Head(queue) = queue[1]
  BY <1>1, <1>2
<1>4. /\ rest \in Seq(trie) /\ Len(rest) = Len(queue) - 1
      /\ \A i \in 1 .. Len(queue) - 1 : rest[i] = queue[i + 1]
  BY <1>1, HeadTailProperties
<1>5. DOMAIN rest = 1 .. Len(queue) - 1
  BY <1>4, LenProperties
<1> HIDE DEF rest
<1>6. \A i, j \in 1 .. Len(queue) : queue[i] = queue[j] => i = j
  BY <1>2 DEF QueueInv, IsInjective
<1>7. ASSUME NEW i \in 1 .. Len(queue) - 1, NEW j \in 1 .. Len(queue) - 1, rest[i] = rest[j]
      PROVE  i = j
  <2>1. i + 1 \in 1 .. Len(queue) /\ j + 1 \in 1 .. Len(queue) /\ queue[i + 1] = queue[j + 1]
    BY <1>2, <1>4, <1>7
  <2>2. i + 1 = j + 1
    BY <1>6, <2>1
  <2> QED
    BY <1>2, <2>2
<1>8. IsInjective(rest)
  BY <1>5, <1>7 DEF IsInjective
<1>9. Range(rest) = Range(queue) \ {queue[1]}
  <2>1. ASSUME NEW i \in 1 .. Len(queue) - 1
        PROVE  rest[i] \in Range(queue) \ {queue[1]}
    <3>1. i + 1 \in 1 .. Len(queue) /\ i + 1 # 1 /\ 1 \in 1 .. Len(queue)
      BY <1>2
    <3> QED
      BY <1>2, <1>4, <1>6, <3>1 DEF Range
  <2>2. ASSUME NEW i \in 1 .. Len(queue), queue[i] # queue[1] PROVE queue[i] \in Range(rest)
    <3>1. i - 1 \in 1 .. Len(queue) - 1 /\ (i - 1) + 1 = i
      BY <1>2, <2>2
    <3>2. rest[i - 1] = queue[i]
      BY <1>4, <3>1
    <3> QED
      BY <1>5, <3>1, <3>2 DEF Range
  <2> QED
    BY <1>2, <1>5, <2>1, <2>2 DEF Range
<1>10. Head(queue) \in Range(queue)
  BY <1>2, <1>3 DEF Range
<1>11. \A q \in Range(queue) : Len(queue[1]) <= Len(q) /\ Len(q) <= Len(queue[1]) + 1
  <2> SUFFICES ASSUME NEW i \in 1 .. Len(queue)
               PROVE  Len(queue[1]) <= Len(queue[i]) /\ Len(queue[i]) <= Len(queue[1]) + 1
    BY <1>2 DEF Range
  <2>1. 1 \in 1 .. Len(queue) /\ 1 <= i
    BY <1>2
  <2> QED
    BY <2>1 DEF QueueInv
<1>12. Head(queue) \in Reached /\ Head(queue) \in trie \ {Root}
  BY <1>1, <1>10 DEF QueueInv, Reached
<1>13. trie \subseteq Seq(Byte)
  BY TrieFacts DEF IsTrie
<1> QED
  BY <1>1, <1>3, <1>4, <1>8, <1>9, <1>10, <1>11, <1>12, <1>13 DEF rest

(* When its children take its place in the queue, they and no others are   *)
(* reached.                                                                *)
LEMMA ReachedGrows ==
  ASSUME TrieInv, QueueInv, queue # <<>>, NEW children,
         children = {c \in trie : \E b \in Byte : c = Append(Head(queue), b)},
         NEW rest, Range(rest) = (Range(queue) \ {Head(queue)}) \cup children
  PROVE  /\ {n \in trie \ {Root} : Ahead(n, rest)} = Reached \cup children
         /\ children \cap Reached = {}
<1> DEFINE current == Head(queue)
<1>1. /\ current \in Reached /\ phase = "build"
      /\ current \in trie /\ current \in Seq(Byte) /\ current # Root
      /\ current \in Range(queue)
  BY QueueHead
<1>2. /\ trie \subseteq Seq(Byte)
      /\ \A n \in trie : \A k \in 0 .. Len(n) : SubSeq(n, 1, k) \in trie
  BY TrieFacts DEF IsTrie
<1>3. \A n \in trie : Len(n) \in Nat
  BY <1>2, LenProperties
<1>4. Len(current) \in Nat /\ Len(current) # 0
  BY <1>1, LenProperties, EmptySeq DEF Root
<1> HIDE DEF current
<1>5. children = {c \in trie : \E b \in Byte : c = Append(current, b)}
  BY DEF current
<1>6. Range(rest) = (Range(queue) \ {current}) \cup children
  BY DEF current
<1>7. Reached = {n \in trie \ {Root} : Ahead(n, queue)}
  BY <1>1 DEF Reached
<1>8. ASSUME NEW n \in trie, NEW k \in 1 .. Len(n)
      PROVE  /\ Len(SubSeq(n, 1, k)) = k /\ SubSeq(n, 1, k - 1) \in Seq(Byte)
             /\ n[k] \in Byte /\ SubSeq(n, 1, k) = Append(SubSeq(n, 1, k - 1), n[k])
  <2>1. n \in Seq(Byte) /\ 1 \in 1 .. Len(n) /\ k \in 0 .. Len(n) /\ k - 1 \in 0 .. Len(n)
    BY <1>2, <1>3
  <2>2. n[k] \in Byte /\ SubSeq(n, 1, k - 1) \in Seq(Byte) /\ Len(SubSeq(n, 1, k)) = k
    BY <2>1, FirstBytes, ElementOfSeq
  <2>3. SubSeq(n, 1, k) = SubSeq(n, 1, k - 1) \o <<n[k]>>
    BY <2>1, SubSeqRecursiveSecond
  <2>4. SubSeq(n, 1, k - 1) \o <<n[k]>> = Append(SubSeq(n, 1, k - 1), n[k])
    BY <2>2, AppendIsConcat
  <2> QED
    BY <2>2, <2>3, <2>4
<1>9. ASSUME NEW c \in children
      PROVE  /\ c \in trie /\ Len(c) = Len(current) + 1 /\ c # Root
             /\ SubSeq(c, 1, Len(current)) = current
             /\ \A k \in 1 .. Len(current) : SubSeq(c, 1, k) = SubSeq(current, 1, k)
  <2>1. PICK b \in Byte : c = Append(current, b)
    BY <1>5
  <2>2. c \in trie /\ c \in Seq(Byte) /\ Len(c) = Len(current) + 1 /\ c # Root
    BY <1>1, <1>2, <1>5, <2>1, ChildLength
  <2>3. Len(c) \in 1 .. Len(c) /\ Len(c) - 1 = Len(current) /\ Len(current) \in 0 .. Len(c)
    BY <1>4, <2>2
  <2>4. SubSeq(c, 1, Len(c)) = c
    BY <2>2, SubSeqFull
  <2>5. c = Append(SubSeq(c, 1, Len(current)), c[Len(c)]) /\ c[Len(c)] \in Byte
        /\ SubSeq(c, 1, Len(current)) \in Seq(Byte)
    BY <1>8, <2>2, <2>3, <2>4
  <2>6. SubSeq(c, 1, Len(current)) = current
    BY <1>1, <2>1, <2>5, AppendInjective
  <2>7. ASSUME NEW k \in 1 .. Len(current) PROVE SubSeq(c, 1, k) = SubSeq(current, 1, k)
    <3>1. k \in 0 .. Len(current)
      OBVIOUS
    <3> QED
      BY <2>2, <2>3, <2>6, <3>1, FirstOfFirstBytes
  <2> QED
    BY <2>2, <2>6, <2>7
<1>10. ASSUME NEW n \in Reached PROVE Ahead(n, rest)
  <2> SUFFICES ASSUME NEW k \in 1 .. Len(n) - 1, SubSeq(n, 1, k) \in Range(rest) PROVE FALSE
    BY DEF Ahead
  <2>1. n \in trie /\ Ahead(n, queue)
    BY <1>7
  <2>2. k \in 1 .. Len(n)
    BY <1>3, <2>1
  <2>3. SubSeq(n, 1, k) \in children
    BY <1>6, <2>1 DEF Ahead
  <2>4. k = Len(current) + 1
    BY <1>8, <1>9, <2>1, <2>2, <2>3
  <2>5. SubSeq(n, 1, k - 1) = current
    <3>1. PICK b \in Byte : SubSeq(n, 1, k) = Append(current, b)
      BY <1>5, <2>3
    <3> DEFINE p == SubSeq(n, 1, k - 1)
    <3>2. p \in Seq(Byte) /\ n[k] \in Byte /\ SubSeq(n, 1, k) = Append(p, n[k])
      BY <1>8, <2>1, <2>2
    <3> HIDE DEF p
    <3>3. Append(p, n[k]) = Append(current, b)
      BY <3>1, <3>2
    <3>4. p = current
      BY <1>1, <3>2, <3>3, AppendInjective
    <3> QED
      BY <3>4 DEF p
  <2>6. k - 1 \in 1 .. Len(n) - 1
    BY <1>3, <1>4, <2>1, <2>4
  <2> QED
    BY <1>1, <2>1, <2>5, <2>6 DEF Ahead
<1>11. ASSUME NEW c \in children PROVE Ahead(c, rest)
  <2> SUFFICES ASSUME NEW k \in 1 .. Len(c) - 1, SubSeq(c, 1, k) \in Range(rest) PROVE FALSE
    BY DEF Ahead
  <2>1. k \in 1 .. Len(current) /\ SubSeq(c, 1, k) = SubSeq(current, 1, k)
    BY <1>4, <1>9
  <2>2. Len(SubSeq(current, 1, k)) = k /\ k # Len(current) + 1
    BY <1>1, <1>4, <1>8, <2>1
  <2>3. SubSeq(current, 1, k) \notin children
    BY <1>9, <2>2
  <2>4. SubSeq(current, 1, k) \in Range(queue) /\ SubSeq(current, 1, k) # current
    BY <1>6, <2>1, <2>3
  <2>5. k # Len(current)
    BY <1>1, <2>4, SubSeqFull
  <2>6. k \in 1 .. Len(current) - 1
    BY <1>4, <2>1, <2>5
  <2> QED
    BY <1>1, <1>7, <2>4, <2>6 DEF Ahead
<1>12. ASSUME NEW n \in trie \ {Root}, Ahead(n, rest), n \notin Reached PROVE n \in children
  <2>1. PICK k \in 1 .. Len(n) - 1 : SubSeq(n, 1, k) \in Range(queue)
    BY <1>7, <1>12 DEF Ahead
  <2>2. SubSeq(n, 1, k) = current
    BY <1>6, <1>12, <2>1 DEF Ahead
  <2>3. k + 1 \in 1 .. Len(n) /\ (k + 1) - 1 = k /\ k + 1 \in 0 .. Len(n)
    BY <1>3, <2>1
  <2>4. SubSeq(n, 1, k + 1) = Append(current, n[k + 1]) /\ n[k + 1] \in Byte
    BY <1>8, <2>2, <2>3
  <2>5. SubSeq(n, 1, k + 1) \in children
    BY <1>2, <1>5, <2>3, <2>4
  <2>6. k + 1 \notin 1 .. Len(n) - 1
    BY <1>6, <1>12, <2>5 DEF Ahead
  <2>7. k + 1 = Len(n)
    BY <1>3, <2>3, <2>6
  <2>8. SubSeq(n, 1, Len(n)) = n
    BY <1>2, SubSeqFull
  <2> QED
    BY <2>5, <2>7, <2>8
<1>13. ASSUME NEW c \in children PROVE c \notin Reached
  <2>1. Len(current) \in 1 .. Len(c) - 1
    BY <1>4, <1>9
  <2> QED
    BY <1>1, <1>7, <1>9, <2>1 DEF Ahead
<1> QED
  BY <1>7, <1>9, <1>10, <1>11, <1>12, <1>13
-----------------------------------------------------------------------------
(* The steps of the search.                                                *)

(* The children of the head of the queue, and the queue after its turn.    *)
ChildrenOfHead == Range(ChildrenOf(Head(queue)))
NextQueue == Tail(queue) \o ChildrenOf(Head(queue))

LEMMA QueueStep ==
  ASSUME TrieInv, QueueInv, queue # <<>>
  PROVE  /\ ChildrenOfHead = {c \in trie : \E b \in Byte : c = Append(Head(queue), b)}
         /\ Range(NextQueue) = (Range(queue) \ {Head(queue)}) \cup ChildrenOfHead
         /\ {n \in trie \ {Root} : Ahead(n, NextQueue)} = Reached \cup ChildrenOfHead
         /\ ChildrenOfHead \cap Reached = {}
         /\ NextQueue \in Seq(trie) /\ IsInjective(NextQueue)
         /\ \A i, j \in 1 .. Len(NextQueue) :
              i <= j => /\ Len(NextQueue[i]) <= Len(NextQueue[j])
                        /\ Len(NextQueue[j]) <= Len(NextQueue[1]) + 1
<1> DEFINE current == Head(queue)
           others == Tail(queue)
           list == ChildrenOf(current)
           children == ChildrenOfHead
           rest == NextQueue
<1>1. /\ current \in trie /\ current \in Seq(Byte) /\ current \in Range(queue)
      /\ others \in Seq(trie) /\ IsInjective(others)
      /\ Range(others) = Range(queue) \ {current}
      /\ \A q \in Range(queue) : Len(current) <= Len(q) /\ Len(q) <= Len(current) + 1
  BY QueueHead
<1>2. trie \subseteq Seq(Byte)
  BY TrieFacts DEF IsTrie
<1>3. /\ list \in Seq(trie) /\ IsInjective(list) /\ children = Range(list)
      /\ children = {c \in trie : \E b \in Byte : c = Append(current, b)}
      /\ rest = others \o list
  BY <1>1, <1>2, ChildrenFacts DEF ChildrenOfHead, NextQueue
<1>4. queue \in Seq(trie) /\ Len(others) = Len(queue) - 1
      /\ \A i \in 1 .. Len(queue) - 1 : others[i] = queue[i + 1]
  BY HeadTailProperties DEF QueueInv
<1> HIDE DEF others, list, rest, children
<1>5. rest \in Seq(trie) /\ Range(rest) = Range(others) \cup children
  <2>1. others \in Seq(trie) /\ list \in Seq(trie)
    BY <1>1, <1>3
  <2>2. others \o list \in Seq(trie) /\ Range(others \o list) = Range(others) \cup Range(list)
    BY <2>1, ConcatProperties, RangeConcatenation
  <2> QED
    BY <1>3, <2>2
<1>6. Range(rest) = (Range(queue) \ {current}) \cup children
  BY <1>1, <1>5
<1>7. /\ {n \in trie \ {Root} : Ahead(n, rest)} = Reached \cup children
      /\ children \cap Reached = {}
  <2>1. children = {c \in trie : \E b \in Byte : c = Append(Head(queue), b)}
    BY <1>3
  <2>2. Range(rest) = (Range(queue) \ {Head(queue)}) \cup children
    BY <1>6
  <2> HIDE DEF current
  <2> QED
    BY <2>1, <2>2, ReachedGrows
<1> HIDE DEF current
<1>8. IsInjective(rest)
  <2>1. Range(others) \subseteq Reached
    BY <1>1 DEF QueueInv
  <2>2. Range(others) \cap Range(list) = {}
    BY <1>3, <1>7, <2>1
  <2> QED
    BY <1>1, <1>3, <2>2, ConcatInjective
<1>9. \A c \in children : Len(c) = Len(current) + 1
  BY <1>1, <1>3, ChildLength
<1>10. Len(current) \in Nat /\ Len(others) \in Nat /\ Len(list) \in Nat /\ Len(queue) \in Nat
  BY <1>1, <1>3, <1>4, LenProperties
<1>11. DOMAIN others = 1 .. Len(others) /\ DOMAIN list = 1 .. Len(list)
  BY <1>1, <1>3, LenProperties
<1>12. /\ Len(rest) = Len(others) + Len(list)
       /\ \A i \in 1 .. Len(others) + Len(list) :
            rest[i] = IF i <= Len(others) THEN others[i] ELSE list[i - Len(others)]
  BY <1>1, <1>3, ConcatProperties
<1>13. \A i \in 1 .. Len(others) : rest[i] = queue[i + 1] /\ rest[i] \in Range(queue)
  <2> SUFFICES ASSUME NEW i \in 1 .. Len(others)
               PROVE  rest[i] = queue[i + 1] /\ rest[i] \in Range(queue)
    OBVIOUS
  <2>1. i \in 1 .. Len(others) + Len(list) /\ i <= Len(others) /\ i \in 1 .. Len(queue) - 1
    BY <1>4, <1>10
  <2>2. rest[i] = others[i] /\ others[i] = queue[i + 1]
    BY <1>4, <1>12, <2>1
  <2>3. others[i] \in Range(others)
    BY <1>11 DEF Range
  <2> QED
    BY <1>1, <2>2, <2>3
<1>14. ASSUME NEW i \in 1 .. Len(rest), i > Len(others) PROVE rest[i] \in children
  <2>1. /\ i \in 1 .. Len(others) + Len(list) /\ ~(i <= Len(others))
        /\ i - Len(others) \in 1 .. Len(list)
    BY <1>10, <1>12, <1>14
  <2>2. rest[i] = list[i - Len(others)]
    BY <1>12, <2>1
  <2> QED
    BY <1>3, <1>11, <2>1, <2>2 DEF Range
<1>15. ASSUME NEW i \in 1 .. Len(rest)
       PROVE  /\ Len(current) <= Len(rest[i]) /\ Len(rest[i]) <= Len(current) + 1
              /\ i > Len(others) => Len(rest[i]) = Len(current) + 1
              /\ Len(rest[i]) \in Nat
  <2>1. rest[i] \in Seq(Byte)
    BY <1>2, <1>5, ElementOfSeq
  <2>2. Len(rest[i]) \in Nat
    BY <2>1, LenProperties
  <2>3. CASE i <= Len(others)
    <3>1. i \in 1 .. Len(others)
      BY <1>10, <2>3
    <3>2. rest[i] \in Range(queue)
      BY <1>13, <3>1
    <3> QED
      BY <1>1, <1>10, <2>2, <2>3, <3>2
  <2>4. CASE i > Len(others)
    <3>1. Len(rest[i]) = Len(current) + 1
      BY <1>9, <1>14, <2>4
    <3> QED
      BY <1>10, <2>2, <3>1
  <2> QED
    BY <1>10, <1>12, <2>3, <2>4
<1>16. ASSUME NEW i \in 1 .. Len(rest), NEW j \in 1 .. Len(rest), i <= j
       PROVE  Len(rest[i]) <= Len(rest[j]) /\ Len(rest[j]) <= Len(rest[1]) + 1
  <2>1. 1 \in 1 .. Len(rest) /\ Len(rest) \in Nat
    BY <1>10, <1>12
  <2>2. /\ Len(current) <= Len(rest[1]) /\ Len(rest[1]) \in Nat
        /\ Len(rest[j]) <= Len(current) + 1 /\ Len(rest[j]) \in Nat
        /\ Len(rest[i]) <= Len(current) + 1 /\ Len(rest[i]) \in Nat
        /\ j > Len(others) => Len(rest[j]) = Len(current) + 1
    BY <1>15, <2>1
  <2>3. Len(rest[j]) <= Len(rest[1]) + 1
    BY <1>10, <2>2
  <2>4. CASE j <= Len(others)
    <3>1. i \in 1 .. Len(others) /\ j \in 1 .. Len(others)
      BY <1>10, <1>16, <2>1, <2>4
    <3>2. i + 1 \in 1 .. Len(queue) /\ j + 1 \in 1 .. Len(queue) /\ i + 1 <= j + 1
      BY <1>4, <1>10, <1>16, <3>1
    <3>3. Len(queue[i + 1]) <= Len(queue[j + 1])
      BY <3>2 DEF QueueInv
    <3> QED
      BY <1>13, <2>3, <3>1, <3>3
  <2>5. CASE j > Len(others)
    BY <1>10, <2>2, <2>3, <2>5
  <2> QED
    BY <1>10, <2>1, <2>4, <2>5
<1> QED
  BY <1>3, <1>5, <1>6, <1>7, <1>8, <1>16 DEF current, rest, children

(* What Link does, node by node.                                           *)
LEMMA LinkStep ==
  ASSUME MatcherInv, Link
  PROVE  MatcherInv'
<1> DEFINE current == Head(queue)
           children == ChildrenOfHead
           rest == NextQueue
<1>1. /\ phase = "build" /\ queue # <<>> /\ queue' = rest
      /\ fail' = [n \in trie |-> IF n \in children THEN Follow(fail[current], n[Len(n)])
                                                    ELSE fail[n]]
      /\ matched' = [n \in trie |-> IF n \in children THEN matched[n] \o matched[fail'[n]]
                                                       ELSE matched[n]]
      /\ phase' = phase /\ trie' = trie /\ node' = node /\ loaded' = loaded /\ text' = text
  BY DEF Link, ChildrenOfHead, NextQueue
<1>2. /\ children = {c \in trie : \E b \in Byte : c = Append(current, b)}
      /\ {n \in trie \ {Root} : Ahead(n, rest)} = Reached \cup children
      /\ Range(rest) = (Range(queue) \ {current}) \cup children
      /\ children \cap Reached = {}
      /\ rest \in Seq(trie) /\ IsInjective(rest)
      /\ \A i, j \in 1 .. Len(rest) :
           i <= j => Len(rest[i]) <= Len(rest[j]) /\ Len(rest[j]) <= Len(rest[1]) + 1
  BY <1>1, QueueStep DEF MatcherInv
<1>3. /\ current \in trie /\ current \in Seq(Byte) /\ current # Root /\ current \in Reached
      /\ \A q \in Range(queue) : Len(current) <= Len(q)
  BY <1>1, QueueHead DEF MatcherInv
<1> HIDE DEF current, children, rest
<1>4. Reached' = Reached \cup children
  <2>1. Reached' = {n \in trie' \ {Root} : Ahead(n, queue')}
    BY <1>1 DEF Reached, Ahead
  <2> QED
    BY <1>1, <1>2, <2>1
<1>5. /\ trie \subseteq Seq(Byte) /\ Root \in trie /\ PrefixClosed(trie, Byte)
      /\ IsTrie /\ LinksShorten
      /\ \A n \in trie : \A k \in 0 .. Len(n) : SubSeq(n, 1, k) \in trie
  BY TrieFacts, LinkFacts DEF MatcherInv, IsTrie
<1>6. \A n \in trie : Len(n) \in Nat
  BY <1>5, LenProperties
(* What is no longer than the head was reached.                            *)
<1>7. ASSUME NEW n \in trie \ {Root}, Len(n) <= Len(current) PROVE n \in Reached
  <2> SUFFICES ASSUME NEW k \in 1 .. Len(n) - 1, SubSeq(n, 1, k) \in Range(queue) PROVE FALSE
    BY <1>1 DEF Reached, Ahead
  <2>1. k \in 0 .. Len(n) /\ k < Len(n) /\ Len(n) \in Nat /\ Len(current) \in Nat
    BY <1>3, <1>6
  <2>2. Len(SubSeq(n, 1, k)) = k
    BY <1>5, <2>1, FirstBytes
  <2>3. Len(current) <= k
    BY <1>3, <2>2
  <2> QED
    BY <1>7, <2>1, <2>3
<1>8. LinkedTo(Len(current))
  BY <1>7 DEF LinkedTo, MatcherInv, LinksInv
<1>9. ASSUME NEW c \in children
      PROVE  /\ c \in trie /\ c \notin Reached /\ c # Root /\ Len(c) = Len(current) + 1
             /\ Tail(c) \in Seq(Byte)
             /\ fail'[c] = LongestEnding(Tail(c), trie)
             /\ fail'[c] \in trie /\ Len(fail'[c]) <= Len(current)
             /\ fail'[c] \notin children
             /\ fail'[c] \in Reached \cup {Root}
  <2>1. PICK b \in Byte : c = Append(current, b)
    BY <1>2
  <2>2. /\ c \in trie /\ c \in Seq(Byte) /\ Len(c) = Len(current) + 1 /\ c # Root
        /\ c[Len(c)] = b /\ Len(current) \in Nat
    BY <1>2, <1>3, <2>1, ChildLength
  <2>3. fail'[c] = Follow(fail[current], b)
    BY <1>1, <2>2
  <2>4. fail[current] = LongestEnding(Tail(current), trie)
    BY <1>3 DEF MatcherInv, LinksInv
  <2>5. fail[current] \in trie /\ Len(fail[current]) <= Len(current)
    BY <1>3, <1>5, <1>6 DEF LinksShorten
  <2>6. Follow(fail[current], b) = LongestEnding(Append(fail[current], b), trie)
    BY <1>5, <1>8, <2>2, <2>5, FollowFindsLongest
  <2>7. Tail(current) \in Seq(Byte) /\ Tail(c) = Append(Tail(current), b)
    BY <1>3, <2>1, HeadTailProperties, HeadTailAppend DEF Root
  <2>8. LongestEnding(Append(Tail(current), b), trie)
          = LongestEnding(Append(LongestEnding(Tail(current), trie), b), trie)
    BY <1>5, <2>7, LongestEndingOfAppend
  <2>9. fail'[c] = LongestEnding(Tail(c), trie)
    BY <2>3, <2>4, <2>6, <2>7, <2>8
  <2>10. Tail(c) \in Seq(Byte) /\ Len(Tail(c)) = Len(current)
    <3>1. Len(Tail(c)) = Len(c) - 1 /\ Tail(c) \in Seq(Byte)
      BY <2>2, HeadTailProperties DEF Root
    <3> QED
      BY <2>2, <3>1
  <2>11. fail'[c] \in trie /\ Len(fail'[c]) <= Len(current)
    BY <1>5, <2>9, <2>10, LongestEndingFacts DEF IsLongest, EndsWith
  <2>12. \A d \in children : Len(d) = Len(current) + 1
    BY <1>2, <1>3, ChildLength
  <2>13. fail'[c] \notin children
    BY <2>2, <2>11, <2>12
  <2>14. fail'[c] \in Reached \cup {Root}
    BY <1>7, <2>11
  <2> QED
    BY <1>2, <2>2, <2>9, <2>10, <2>11, <2>13, <2>14
<1>10. \A n \in trie : n \notin children => fail'[n] = fail[n] /\ matched'[n] = matched[n]
  BY <1>1
<1>11. TrieInv'
  BY <1>1 DEF MatcherInv, TrieInv
<1>12. QueueInv'
  <2>1. Range(queue') \subseteq Reached'
    BY <1>1, <1>2, <1>4 DEF MatcherInv, QueueInv
  <2>2. queue' \in Seq(trie') /\ IsInjective(queue') /\ phase' = "build"
    BY <1>1, <1>2
  <2>3. \A i, j \in 1 .. Len(queue') :
          i <= j => Len(queue'[i]) <= Len(queue'[j]) /\ Len(queue'[j]) <= Len(queue'[1]) + 1
    BY <1>1, <1>2
  <2> QED
    BY <2>1, <2>2, <2>3 DEF QueueInv, IsInjective, Range
<1>13. LinksInv'
  <2>1. fail' \in [trie -> trie]
    <3>1. \A n \in trie : fail'[n] \in trie
      BY <1>9, <1>10 DEF MatcherInv, LinksInv
    <3> QED
      BY <1>1, <3>1
  <2>2. \A n \in trie : fail'[n] = IF n \in Reached' THEN LongestEnding(Tail(n), trie) ELSE Root
    BY <1>4, <1>9, <1>10 DEF MatcherInv, LinksInv
  <2> QED
    BY <1>1, <2>1, <2>2 DEF LinksInv
<1>14. MatchedInv'
  <2>1. ASSUME NEW c \in children
        PROVE  /\ matched'[c] = matched[c] \o matched[fail'[c]]
               /\ matched[c] \in Seq(Seq(Byte)) /\ matched[fail'[c]] \in Seq(Seq(Byte))
    BY <1>1, <1>9 DEF MatcherInv, MatchedInv
  <2>2. matched' \in [trie -> Seq(Seq(Byte))]
    <3>1. \A n \in trie : matched'[n] \in Seq(Seq(Byte))
      BY <1>10, <2>1, ConcatProperties DEF MatcherInv, MatchedInv
    <3> QED
      BY <1>1, <3>1
  <2>3. ASSUME NEW n \in trie, NEW s \in Seq(Byte), n \notin children
        PROVE  Count(s, matched'[n]) =
                 IF n = s \/ (n \in Reached' /\ EndsWith(n, s)) THEN Count(s, loaded) ELSE 0
    BY <1>4, <1>10, <2>3 DEF MatcherInv, MatchedInv
  <2>4. ASSUME NEW c \in children, NEW s \in Seq(Byte)
        PROVE  Count(s, matched'[c]) = IF EndsWith(c, s) THEN Count(s, loaded) ELSE 0
    <3>1. Count(s, matched'[c]) = Count(s, matched[c]) + Count(s, matched[fail'[c]])
      <4> DEFINE p == matched[c]
                 q == matched[fail'[c]]
      <4>1. p \in Seq(Seq(Byte)) /\ q \in Seq(Seq(Byte)) /\ matched'[c] = p \o q
        BY <2>1
      <4> HIDE DEF p, q
      <4>2. Count(s, matched'[c]) = Count(s, p) + Count(s, q)
        BY <4>1, CountOfConcat
      <4> QED
        BY <4>2 DEF p, q
    <3>2. Count(s, matched[c]) = IF c = s THEN Count(s, loaded) ELSE 0
      BY <1>9 DEF MatcherInv, MatchedInv
    <3>3. Count(s, matched[fail'[c]]) = IF EndsWith(Tail(c), s) THEN Count(s, loaded) ELSE 0
      BY <1>9, ReachedReport DEF MatcherInv
    <3>4. Count(s, loaded) \in Nat
      BY PlacesAreFinite DEF MatcherInv, TrieInv
    <3>5. c \in Seq(Byte) /\ c # <<>>
      BY <1>5, <1>9 DEF Root
    <3>6. CASE c = s
      <4>1. EndsWith(c, s)
        BY <3>5, <3>6, EndsWithItself
      <4>2. ~EndsWith(Tail(c), s)
        <5>1. Len(Tail(c)) = Len(s) - 1 /\ Len(s) \in Nat
          BY <3>5, <3>6, HeadTailProperties, LenProperties
        <5>2. ~(Len(s) <= Len(Tail(c)))
          BY <5>1
        <5> QED
          BY <5>2, Zenon DEF EndsWith
      <4> QED
        BY <3>1, <3>2, <3>3, <3>4, <3>6, <4>1, <4>2
    <3>7. CASE c # s
      <4>1. EndsWith(c, s) <=> EndsWith(Tail(c), s)
        BY <3>5, <3>7, EndsWithTail
      <4> QED
        BY <3>1, <3>2, <3>3, <3>4, <3>7, <4>1
    <3> QED
      BY <3>6, <3>7
  <2>5. \A n \in trie, s \in Seq(Byte) :
          Count(s, matched'[n]) =
            IF n = s \/ (n \in Reached' /\ EndsWith(n, s)) THEN Count(s, loaded) ELSE 0
    <3> SUFFICES ASSUME NEW c \in children, NEW s \in Seq(Byte)
                 PROVE  /\ c \in Reached'
                        /\ c = s => EndsWith(c, s)
      BY <2>3, <2>4
    <3>1. c \in Seq(Byte)
      BY <1>5, <1>9
    <3> QED
      BY <1>4, <3>1, EndsWithItself
  <2>6. \A n, s : Count(s, matched[n])' = Count(s, matched'[n]) /\ Count(s, loaded)' = Count(s, loaded)
    BY <1>1 DEF Count
  <2> QED
    BY <1>1, <2>2, <2>5, <2>6 DEF MatchedInv
<1>15. ScanInv'
  BY <1>1 DEF MatcherInv, ScanInv
<1> QED
  BY <1>11, <1>12, <1>13, <1>14, <1>15 DEF MatcherInv
-----------------------------------------------------------------------------
(* The other steps.                                                        *)
LEMMA EmptyQueue == IsInjective(<<>>) /\ Range(<<>>) = {} /\ \A S : <<>> \in Seq(S)
BY DEF IsInjective, Range

LEMMA RememberNothing ==
  ASSUME NEW N, N \subseteq Seq(Byte), Root \in N
  PROVE  LongestEnding(<<>>, N) = Root
<1>1. Root \in Seq(Byte) /\ EndsWith(Root, Root)
  BY EmptySeq, EndsWithItself DEF Root
<1>2. IsLongest(Root, N, Root)
  BY <1>1 DEF IsLongest, EndsWith
<1>3. LongestEnding(Root, N) = Root
  BY <1>1, <1>2, LongestEndingUnique
<1> QED
  BY <1>3 DEF Root

LEMMA MatcherStart == Init => MatcherInv
<1> SUFFICES ASSUME Init PROVE MatcherInv
  OBVIOUS
<1>1. Root \in Seq(Byte) /\ <<>> \in Seq(Byte) /\ loaded = <<>> /\ queue = <<>> /\ trie = {Root}
  BY EmptySeq DEF Root, Init
<1>2. TrieInv
  BY <1>1, EmptyQueue DEF Init, TrieInv, Beginnings
<1>3. Reached = {}
  BY DEF Init, Reached
<1>4. QueueInv
  BY <1>1, EmptyQueue DEF QueueInv
<1>5. LinksInv
  BY <1>1, <1>3 DEF Init, LinksInv
<1>6. MatchedInv
  <2>1. \A s : Count(s, loaded) = 0 /\ Count(s, matched[Root]) = 0
    BY <1>1, CountOfNone DEF Init
  <2>2. matched \in [trie -> Seq(Seq(Byte))]
    BY <1>1, EmptyQueue DEF Init
  <2> QED
    BY <1>1, <2>1, <2>2 DEF MatchedInv
<1>7. ScanInv
  <2>1. LongestEnding(<<>>, trie) = Root
    BY <1>1, RememberNothing
  <2> QED
    BY <1>1, <2>1 DEF Init, ScanInv
<1> QED
  BY <1>2, <1>4, <1>5, <1>6, <1>7 DEF MatcherInv

(* A signature of the file becomes a path of the trie.                     *)
LEMMA AddPatternStep ==
  ASSUME MatcherInv, phase = "load", NEW s \in Seq(Byte), s # <<>>, AddPattern(s),
         loaded' = Append(loaded, s), UNCHANGED <<phase, queue, node, text>>
  PROVE  MatcherInv'
<1>1. /\ loaded \in Seq(Seq(Byte)) /\ trie = Beginnings(Range(loaded))
      /\ queue = <<>> /\ text = <<>> /\ Root \notin Range(loaded)
  BY DEF MatcherInv, TrieInv, QueueInv, ScanInv
<1>2. loaded' \in Seq(Seq(Byte)) /\ loaded' = loaded \o <<s>> /\ <<s>> \in Seq(Seq(Byte))
  BY <1>1, AppendProperties, AppendIsConcat
<1>3. Range(loaded') = Range(loaded) \cup {s}
  <2>1. Range(loaded \o <<s>>) = Range(loaded) \cup Range(<<s>>)
    BY <1>1, <1>2, RangeConcatenation
  <2>2. Range(<<s>>) = {s}
    BY DEF Range
  <2> QED
    BY <1>2, <2>1, <2>2
<1>4. trie' = Beginnings(Range(loaded'))
  BY <1>1, <1>3 DEF AddPattern, Beginnings
<1>5. TrieInv'
  BY <1>1, <1>2, <1>3, <1>4 DEF MatcherInv, TrieInv, Root
<1>6. trie' \subseteq Seq(Byte) /\ Root \in trie' /\ s \in trie'
  <2>1. Range(loaded') \subseteq Seq(Byte)
    BY <1>2, RangeOfSeq
  <2> QED
    BY <1>3, <1>4, <2>1, BeginningsFacts
<1>7. Reached = {} /\ Reached' = {}
  BY DEF Reached
<1>8. QueueInv'
  <2>1. queue' = <<>> /\ Range(queue') = {} /\ IsInjective(queue') /\ queue' \in Seq(trie')
    BY <1>1, EmptyQueue
  <2> QED
    BY <2>1 DEF QueueInv, IsInjective, Range
<1>9. LinksInv'
  <2>1. fail' = [n \in trie' |-> Root]
    BY DEF AddPattern
  <2> QED
    BY <1>6, <1>7, <2>1 DEF LinksInv
<1>10. MatchedInv'
  <2> DEFINE old(n) == IF n \in trie THEN matched[n] ELSE <<>>
             new(n) == IF n = s THEN <<s>> ELSE <<>>
  <2>1. \A n \in trie' : matched'[n] = old(n) \o new(n)
    BY DEF AddPattern
  <2>2. \A n \in trie' : old(n) \in Seq(Seq(Byte)) /\ new(n) \in Seq(Seq(Byte))
    BY <1>2, EmptyQueue DEF MatcherInv, MatchedInv
  <2>3. ASSUME NEW n \in trie', NEW x \in Seq(Byte)
        PROVE  Count(x, old(n)) = IF n = x THEN Count(x, loaded) ELSE 0
    <3>1. CASE n \in trie
      BY <1>7, <3>1 DEF MatcherInv, MatchedInv
    <3>2. CASE n \notin trie
      <4>1. n \notin Range(loaded)
        BY <3>2, TrieFacts DEF MatcherInv
      <4>2. Count(n, loaded) = 0
        BY <1>1, <4>1, CountIsZero
      <4> QED
        BY <3>2, <4>2, CountOfNone
    <3> QED
      BY <3>1, <3>2
  <2>4. ASSUME NEW n \in trie', NEW x \in Seq(Byte)
        PROVE  Count(x, new(n)) = IF n = s /\ x = s THEN 1 ELSE 0
    BY CountOfNone, CountOfOne
  <2> HIDE DEF old, new
  <2>5. \A x : Count(x, loaded') = Count(x, loaded) + (IF x = s THEN 1 ELSE 0)
    <3> SUFFICES ASSUME NEW x
                 PROVE  Count(x, loaded') = Count(x, loaded) + (IF x = s THEN 1 ELSE 0)
      OBVIOUS
    <3>1. Count(x, loaded \o <<s>>) = Count(x, loaded) + Count(x, <<s>>)
      BY <1>1, <1>2, CountOfConcat
    <3>2. Count(x, <<s>>) = IF s = x THEN 1 ELSE 0
      BY CountOfOne
    <3> QED
      BY <1>2, <3>1, <3>2
  <2>6. \A x : Count(x, loaded) \in Nat
    BY <1>1, PlacesAreFinite
  <2>7. ASSUME NEW n \in trie', NEW x \in Seq(Byte)
        PROVE  Count(x, matched'[n]) = IF n = x THEN Count(x, loaded') ELSE 0
    <3>1. Count(x, matched'[n]) = Count(x, old(n)) + Count(x, new(n))
      BY <2>1, <2>2, CountOfConcat
    <3> QED
      BY <2>3, <2>4, <2>5, <2>6, <3>1
  <2>8. matched' \in [trie' -> Seq(Seq(Byte))]
    <3>1. \A n \in trie' : matched'[n] \in Seq(Seq(Byte))
      BY <2>1, <2>2, ConcatProperties
    <3> QED
      BY <3>1 DEF AddPattern
  <2>9. \A n, x : Count(x, matched[n])' = Count(x, matched'[n]) /\ Count(x, loaded)' = Count(x, loaded')
    BY DEF Count
  <2> QED
    BY <1>7, <2>7, <2>8, <2>9 DEF MatchedInv
<1>11. ScanInv'
  <2>1. LongestEnding(<<>>, trie') = Root
    BY <1>6, RememberNothing
  <2>2. LongestEnding(<<>>, trie) = Root
    BY TrieFacts, RememberNothing DEF MatcherInv, IsTrie
  <2> QED
    BY <1>1, <2>1, <2>2 DEF MatcherInv, ScanInv
<1> QED
  BY <1>5, <1>8, <1>9, <1>10, <1>11 DEF MatcherInv

(* A step that leaves the machine alone, and with it which nodes were      *)
(* reached.                                                                *)
LEMMA MachineStutter ==
  ASSUME MatcherInv, UNCHANGED <<machine, queue, loaded>>, Reached' = Reached,
         phase' \in {"load", "build", "scan"}, phase' # "build" => queue = <<>>
  PROVE  TrieInv' /\ QueueInv' /\ LinksInv' /\ MatchedInv'
<1>1. /\ trie' = trie /\ fail' = fail /\ matched' = matched
      /\ queue' = queue /\ loaded' = loaded
  BY DEF machine
<1>2. TrieInv'
  BY <1>1 DEF MatcherInv, TrieInv
<1>3. QueueInv'
  BY <1>1 DEF MatcherInv, QueueInv
<1>4. LinksInv'
  BY <1>1 DEF MatcherInv, LinksInv
<1>5. MatchedInv'
  BY <1>1 DEF MatcherInv, MatchedInv
<1> QED
  BY <1>2, <1>3, <1>4, <1>5

(* The search begins with the children of the root, whose links are right  *)
(* as they are.                                                            *)
LEMMA StartBuildStep ==
  ASSUME MatcherInv, StartBuild
  PROVE  MatcherInv'
<1> DEFINE list == ChildrenOf(Root)
           children == Range(list)
<1>1. /\ phase = "load" /\ phase' = "build" /\ queue' = list
      /\ trie' = trie /\ fail' = fail /\ matched' = matched
      /\ node' = node /\ loaded' = loaded /\ text' = text
  BY DEF StartBuild, machine
<1>2. /\ trie \subseteq Seq(Byte) /\ Root \in trie /\ Root \in Seq(Byte) /\ Len(Root) = 0
      /\ \A n \in trie : \A k \in 0 .. Len(n) : SubSeq(n, 1, k) \in trie
  BY TrieFacts, EmptySeq DEF MatcherInv, IsTrie, Root
<1>3. /\ list \in Seq(trie) /\ IsInjective(list)
      /\ children = {c \in trie : \E b \in Byte : c = Append(Root, b)}
  BY <1>2, ChildrenFacts
<1> HIDE DEF list
<1>4. \A c \in children : c \in trie /\ c # Root /\ Len(c) = 1
  BY <1>2, <1>3, ChildLength
<1>5. ASSUME NEW n \in trie \ {Root}, n \notin children
      PROVE  SubSeq(n, 1, 1) \in children /\ 1 \in 1 .. Len(n) - 1
  <2>1. n \in Seq(Byte) /\ Len(n) \in Nat /\ Len(n) # 0
    BY <1>2, LenProperties, EmptySeq DEF Root
  <2>2. 1 \in 1 .. Len(n) /\ 1 \in 0 .. Len(n) /\ 1 - 1 = 0
    BY <2>1
  <2>3. SubSeq(n, 1, 1) = SubSeq(n, 1, 1 - 1) \o <<n[1]>> /\ n[1] \in Byte
    BY <2>1, <2>2, SubSeqRecursiveSecond, ElementOfSeq
  <2>4. SubSeq(n, 1, 1 - 1) = Root
    BY <2>2, SubSeqEmpty DEF Root
  <2>5. Root \o <<n[1]>> = Append(Root, n[1])
    BY <1>2, <2>3, AppendIsConcat
  <2>6. SubSeq(n, 1, 1) \in children
    BY <1>2, <1>3, <2>2, <2>3, <2>4, <2>5
  <2>7. Len(n) # 1
    BY <1>5, <2>1, <2>6, SubSeqFull
  <2>8. 1 \in 1 .. Len(n) - 1
    <3> DEFINE len == Len(n)
    <3>1. len \in Nat /\ len # 0 /\ len # 1
      BY <2>1, <2>7
    <3> HIDE DEF len
    <3>2. 1 \in 1 .. len - 1
      BY <3>1
    <3> QED
      BY <3>2 DEF len
  <2> QED
    BY <2>6, <2>8
<1> HIDE DEF children
<1>6. Reached = {} /\ Reached' = children
  <2>1. Reached' = {n \in trie \ {Root} : Ahead(n, list)}
    BY <1>1 DEF Reached, Ahead
  <2>2. ASSUME NEW c \in children PROVE Ahead(c, list)
    <3>1. Len(c) = 1
      BY <1>4
    <3>2. \A k \in 1 .. 1 - 1 : SubSeq(c, 1, k) \notin Range(list)
      OBVIOUS
    <3> QED
      BY <3>1, <3>2 DEF Ahead
  <2>3. \A n \in trie \ {Root} : n \notin children => ~Ahead(n, list)
    BY <1>5 DEF Ahead, children
  <2> QED
    BY <1>1, <1>4, <2>1, <2>2, <2>3 DEF Reached
<1>7. TrieInv'
  BY <1>1 DEF MatcherInv, TrieInv
<1>8. QueueInv'
  <2>1. \A i \in 1 .. Len(list) : Len(list[i]) = 1
    <3>1. DOMAIN list = 1 .. Len(list)
      BY <1>3, LenProperties
    <3> QED
      BY <1>4, <3>1 DEF children, Range
  <2>2. Len(list) \in Nat
    BY <1>3, LenProperties
  <2>3. \A i \in 1 .. Len(list) : 1 \in 1 .. Len(list)
    BY <2>2
  <2>4. \A i, j \in 1 .. Len(list) :
          i <= j => Len(list[i]) <= Len(list[j]) /\ Len(list[j]) <= Len(list[1]) + 1
    BY <2>1, <2>3
  <2>5. /\ queue' \in Seq(trie') /\ IsInjective(queue') /\ Range(queue') \subseteq Reached'
        /\ phase' = "build"
    BY <1>1, <1>3, <1>6 DEF children
  <2>6. \A i, j \in 1 .. Len(queue') :
          i <= j => Len(queue'[i]) <= Len(queue'[j]) /\ Len(queue'[j]) <= Len(queue'[1]) + 1
    BY <1>1, <2>4
  <2> QED
    BY <2>5, <2>6 DEF QueueInv, IsInjective, Range
<1>9. LinksInv'
  <2>1. ASSUME NEW c \in children PROVE LongestEnding(Tail(c), trie) = Root
    <3>1. c \in Seq(Byte) /\ c # <<>> /\ Len(c) = 1
      BY <1>2, <1>4 DEF Root
    <3>2. Tail(c) \in Seq(Byte) /\ Len(Tail(c)) = 0
      BY <3>1, HeadTailProperties
    <3>3. Tail(c) = <<>>
      BY <3>2, EmptySeq
    <3> QED
      BY <1>2, <3>3, RememberNothing
  <2> QED
    BY <1>1, <1>6, <2>1 DEF MatcherInv, LinksInv
<1>10. MatchedInv'
  <2>1. ASSUME NEW c \in children, NEW s \in Seq(Byte), EndsWith(c, s), c # s
        PROVE  Count(s, loaded) = 0
    <3>1. c \in Seq(Byte) /\ Len(c) = 1 /\ Len(s) \in Nat
      BY <1>2, <1>4, LenProperties
    <3>2. Len(s) <= 1
      BY <2>1, <3>1 DEF EndsWith
    <3>3. EndsWith(c, c)
      BY <3>1, EndsWithItself
    <3>4. Len(s) # 1
      BY <2>1, <3>1, <3>3, EndingOfEnding
    <3>5. s = Root
      BY <3>1, <3>2, <3>4, EmptySeq DEF Root
    <3> QED
      BY <3>5, CountIsZero DEF MatcherInv, TrieInv
  <2>2. \A n \in trie, s \in Seq(Byte) :
          Count(s, matched[n]) = IF n = s THEN Count(s, loaded) ELSE 0
    BY <1>6 DEF MatcherInv, MatchedInv
  <2>3. \A n \in trie, s \in Seq(Byte) :
          Count(s, matched[n]) =
            IF n = s \/ (n \in Reached' /\ EndsWith(n, s)) THEN Count(s, loaded) ELSE 0
    BY <1>6, <2>1, <2>2
  <2> QED
    BY <1>1, <2>3 DEF MatcherInv, MatchedInv
<1>11. ScanInv'
  BY <1>1 DEF MatcherInv, ScanInv
<1> QED
  BY <1>7, <1>8, <1>9, <1>10, <1>11 DEF MatcherInv

(* When the queue is empty all nodes were reached.                         *)
LEMMA ScanReached ==
  ASSUME TrieInv, QueueInv, phase # "load", queue = <<>>
  PROVE  Reached = trie \ {Root}
BY EmptyQueue DEF Reached, Ahead

LEMMA BuiltStep ==
  ASSUME MatcherInv, Built
  PROVE  MatcherInv'
<1>1. UNCHANGED <<machine, queue, loaded>> /\ phase = "build" /\ phase' = "scan" /\ queue = <<>>
      /\ node' = node /\ text' = text
  BY DEF Built
<1>2. Reached' = Reached
  BY <1>1 DEF Reached, Ahead, machine
<1>3. TrieInv' /\ QueueInv' /\ LinksInv' /\ MatchedInv'
  BY <1>1, <1>2, MachineStutter
<1>4. ScanInv'
  BY <1>1 DEF MatcherInv, ScanInv, machine
<1> QED
  BY <1>3, <1>4 DEF MatcherInv

(* Once the automaton is built, a byte leads from every node to the        *)
(* longest ending of both.                                                 *)
LEMMA SearchFindsLongest ==
  ASSUME MatcherInv, phase = "scan", NEW n \in trie, NEW b \in Byte
  PROVE  Follow(n, b) = LongestEnding(Append(n, b), trie)
<1>1. queue = <<>> /\ Reached = trie \ {Root}
  BY ScanReached DEF MatcherInv, QueueInv
<1>2. IsTrie /\ LinksShorten
  BY TrieFacts, LinkFacts DEF MatcherInv
<1>3. Len(n) \in Nat
  BY <1>2, LenProperties DEF IsTrie
<1>4. LinkedTo(Len(n))
  BY <1>1 DEF LinkedTo, MatcherInv, LinksInv
<1> QED
  BY <1>2, <1>3, <1>4, FollowFindsLongest

LEMMA ScanByteStep ==
  ASSUME MatcherInv, NEW b \in Byte, ScanByte(b)
  PROVE  MatcherInv'
<1>1. /\ UNCHANGED <<machine, queue, loaded>> /\ phase = "scan" /\ phase' = "scan"
      /\ node' = Follow(node, b) /\ text' = Append(text, b)
  BY DEF ScanByte
<1>2. Reached' = Reached /\ queue = <<>>
  BY <1>1 DEF Reached, Ahead, machine, MatcherInv, QueueInv
<1>3. TrieInv' /\ QueueInv' /\ LinksInv' /\ MatchedInv'
  BY <1>1, <1>2, MachineStutter
<1>4. /\ trie \subseteq Seq(Byte) /\ Root \in trie /\ PrefixClosed(trie, Byte)
  BY TrieFacts DEF MatcherInv, IsTrie
<1>5. text \in Seq(Byte) /\ node = LongestEnding(text, trie)
  BY DEF MatcherInv, ScanInv
<1>6. node \in trie
  BY <1>4, <1>5, LongestEndingFacts DEF IsLongest
<1>7. node' = LongestEnding(Append(node, b), trie)
  BY <1>1, <1>6, SearchFindsLongest
<1>8. node' = LongestEnding(text', trie)
  BY <1>1, <1>4, <1>5, <1>7, LongestEndingOfAppend
<1>9. text' \in Seq(Byte)
  BY <1>1, <1>5, AppendProperties
<1>10. ScanInv'
  BY <1>1, <1>8, <1>9 DEF ScanInv, machine
<1> QED
  BY <1>3, <1>10 DEF MatcherInv

LEMMA NextFlowStep ==
  ASSUME MatcherInv, NextFlow
  PROVE  MatcherInv'
<1>1. /\ UNCHANGED <<machine, queue, loaded>> /\ phase = "scan" /\ phase' = "scan"
      /\ node' = Root /\ text' = <<>>
  BY DEF NextFlow
<1>2. Reached' = Reached /\ queue = <<>>
  BY <1>1 DEF Reached, Ahead, machine, MatcherInv, QueueInv
<1>3. TrieInv' /\ QueueInv' /\ LinksInv' /\ MatchedInv'
  BY <1>1, <1>2, MachineStutter
<1>4. LongestEnding(<<>>, trie) = Root
  BY TrieFacts, RememberNothing DEF MatcherInv, IsTrie
<1>5. ScanInv'
  BY <1>1, <1>4, EmptyQueue DEF ScanInv, machine
<1> QED
  BY <1>3, <1>5 DEF MatcherInv

LEMMA MatcherInvariant == Spec => []MatcherInv
<1>1. ASSUME MatcherInv, [Next]_vars PROVE MatcherInv'
  <2>1. ASSUME NEW line \in Line, ReadLine(line) PROVE MatcherInv'
    <3>1. CASE IsRule(line)
      <4>1. line.content \in Seq(Byte) /\ line.content # <<>>
        BY <3>1, MatcherAssumption DEF IsRule
      <4>2. /\ phase = "load" /\ AddPattern(line.content)
            /\ loaded' = Append(loaded, line.content)
            /\ UNCHANGED <<phase, queue, node, text>>
        BY <2>1, <3>1 DEF ReadLine
      <4> QED
        BY <1>1, <4>1, <4>2, AddPatternStep
    <3>2. CASE ~IsRule(line)
      <4>1. UNCHANGED vars
        BY <2>1, <3>2 DEF ReadLine, vars, machine
      <4> QED
        BY <1>1, <4>1 DEF vars, MatcherInv, TrieInv, QueueInv, LinksInv, MatchedInv, ScanInv,
           Reached, Ahead
    <3> QED
      BY <3>1, <3>2
  <2>2. CASE UNCHANGED vars
    BY <1>1, <2>2 DEF vars, MatcherInv, TrieInv, QueueInv, LinksInv, MatchedInv, ScanInv,
       Reached, Ahead
  <2> QED
    BY <1>1, <2>1, <2>2, StartBuildStep, LinkStep, BuiltStep, ScanByteStep, NextFlowStep DEF Next
<1> QED
  BY <1>1, MatcherStart, PTL DEF Spec
-----------------------------------------------------------------------------
(* Where a failed match goes on, nothing is given up that a signature of   *)
(* the file could begin with.                                              *)
THEOREM LinksAreLongest == Spec => []LinksToLongestEnding
<1>1. MatcherInv => LinksToLongestEnding
  <2> SUFFICES ASSUME MatcherInv, NEW n \in Linked
               PROVE  fail[n] = LongestEnding(Tail(n), trie)
    BY DEF LinksToLongestEnding
  <2>1. n \in Reached
    <3>1. CASE phase = "scan"
      BY <3>1, ScanReached DEF Linked, MatcherInv, QueueInv
    <3>2. CASE phase # "scan"
      BY <3>2 DEF Linked, MatcherInv, QueueInv
    <3> QED
      BY <3>1, <3>2
  <2>2. n \in trie
    BY <2>1 DEF Reached
  <2> QED
    BY <2>1, <2>2 DEF MatcherInv, LinksInv
<1> QED
  BY <1>1, MatcherInvariant, PTL

(* In however many payloads the bytes of a flow come, the scan remembers   *)
(* as much of the last ones as begins a signature.                         *)
THEOREM ScanRemembers == Spec => []RemembersLongestEnding
<1>1. MatcherInv => RemembersLongestEnding
  BY DEF MatcherInv, ScanInv, RemembersLongestEnding
<1> QED
  BY <1>1, MatcherInvariant, PTL

(* After every byte exactly the signatures that end there are reported,    *)
(* each as often as the file has it.                                       *)
THEOREM ReportsAreExact == Spec => []AlertsExact
<1>1. MatcherInv => AlertsExact
  <2> SUFFICES ASSUME MatcherInv, phase = "scan",
                      NEW s \in Range(loaded) \cup Range(matched[node])
               PROVE  Count(s, matched[node]) = IF EndsWith(text, s) THEN Count(s, loaded) ELSE 0
    BY DEF AlertsExact
  <2>1. queue = <<>> /\ Reached = trie \ {Root}
    BY ScanReached DEF MatcherInv, QueueInv
  <2>2. trie \subseteq Seq(Byte) /\ Root \in trie
    BY TrieFacts DEF MatcherInv, IsTrie
  <2>3. text \in Seq(Byte) /\ node = LongestEnding(text, trie)
    BY DEF MatcherInv, ScanInv
  <2>4. node \in trie
    BY <2>2, <2>3, LongestEndingFacts DEF IsLongest
  <2>5. s \in Seq(Byte)
    <3>1. loaded \in Seq(Seq(Byte)) /\ matched[node] \in Seq(Seq(Byte))
      BY <2>4 DEF MatcherInv, TrieInv, MatchedInv
    <3> QED
      BY <3>1, RangeOfSeq
  <2>6. node \in Reached \cup {Root}
    BY <2>1, <2>4
  <2> QED
    BY <2>3, <2>5, <2>6, ReachedReport DEF MatcherInv
<1> QED
  BY <1>1, MatcherInvariant, PTL

(* Once the machine is built, search does at every node, and so for every  *)
(* flow, what FlowWorker takes it to do: ScanByte moves to the most of the *)
(* flow's last bytes that begins a signature, and Hit asks whether a       *)
(* signature ends there.                                                   *)
SearchesAsInFlowWorker ==
  phase = "scan" =>
    \A n \in trie :
      /\ \A b \in Byte :
           Follow(n, b) = LongestEnding(Append(n, b), Beginnings(Range(loaded)))
      /\ matched[n] # <<>> <=> \E s \in Range(loaded) : EndsWith(n, s)

THEOREM SearchIsScanByte == Spec => []SearchesAsInFlowWorker
<1>1. MatcherInv => SearchesAsInFlowWorker
  <2> SUFFICES ASSUME MatcherInv, phase = "scan", NEW n \in trie
               PROVE  /\ \A b \in Byte :
                           Follow(n, b) = LongestEnding(Append(n, b), trie)
                      /\ matched[n] # <<>> <=> \E s \in Range(loaded) : EndsWith(n, s)
    BY DEF SearchesAsInFlowWorker, MatcherInv, TrieInv
  <2>1. TrieInv /\ MatchedInv /\ Reached = trie \ {Root}
    BY ScanReached DEF MatcherInv, QueueInv
  <2>2. IsTrie /\ n \in Seq(Byte)
    BY <2>1, TrieFacts DEF IsTrie
  <2>3. n = LongestEnding(n, trie) /\ n \in Reached \cup {Root}
    BY <2>1, <2>2, LongestOfNode
  <2>4. loaded \in Seq(Seq(Byte)) /\ matched[n] \in Seq(Seq(Byte))
    BY <2>1 DEF TrieInv, MatchedInv
  <2>5. ASSUME NEW s \in Seq(Byte)
        PROVE  s \in Range(matched[n]) <=> EndsWith(n, s) /\ s \in Range(loaded)
    <3>1. Count(s, matched[n]) = IF EndsWith(n, s) THEN Count(s, loaded) ELSE 0
      BY <2>1, <2>2, <2>3, ReachedReport
    <3>2. Count(s, matched[n]) # 0 <=> s \in Range(matched[n])
      BY <2>4, CountIsZero
    <3>3. Count(s, loaded) # 0 <=> s \in Range(loaded)
      BY <2>4, CountIsZero
    <3> QED
      BY <3>1, <3>2, <3>3
  <2>6. matched[n] # <<>> <=> \E s \in Seq(Byte) : s \in Range(matched[n])
    <3> DEFINE reports == matched[n]
    <3>1. reports \in Seq(Seq(Byte))
      BY <2>4
    <3> HIDE DEF reports
    <3>2. Len(reports) \in Nat /\ DOMAIN reports = 1 .. Len(reports)
      BY <3>1, LenProperties
    <3>3. ASSUME reports # <<>> PROVE \E s \in Seq(Byte) : s \in Range(reports)
      <4>1. 1 \in 1 .. Len(reports)
        BY <3>1, <3>2, <3>3, EmptySeq
      <4>2. reports[1] \in Range(reports) /\ reports[1] \in Seq(Byte)
        BY <3>1, <3>2, <4>1, ElementOfSeq DEF Range
      <4> QED
        BY <4>2
    <3>4. ASSUME reports = <<>> PROVE Range(reports) = {}
      BY <3>4, EmptyQueue
    <3> QED
      BY <3>3, <3>4 DEF reports
  <2>7. \A s \in Range(loaded) : s \in Seq(Byte)
    BY <2>4, RangeOfSeq
  <2>8. \A b \in Byte : Follow(n, b) = LongestEnding(Append(n, b), trie)
    BY SearchFindsLongest
  <2> QED
    BY <2>5, <2>6, <2>7, <2>8
<1> QED
  BY <1>1, MatcherInvariant, PTL
=============================================================================
