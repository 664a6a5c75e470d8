-------------------------- MODULE IpDefragmenterProofs --------------------------
(***************************************************************************)
(* IpDefragmenter for any fragments, sizes, table and timeout: its memory  *)
(* is bounded, it implements Reassembly, what it hands over is what a      *)
(* sender sent, and it hands that over as soon as all of it arrived.       *)
(***************************************************************************)
EXTENDS DefragAudit, FiniteSetTheorems, TLAPS

LEMMA MinOfTwo ==
  ASSUME NEW a \in Int, NEW b \in Int
  PROVE  Min({a, b}) = IF a <= b THEN a ELSE b
BY DEF Min

(* What is proved of a buffer; data and received are sets of places.       *)
BufferOK(b) ==
  /\ b = [data |-> b.data, received |-> b.received, totalLength |-> b.totalLength,
          gotLastFragment |-> b.gotLastFragment, age |-> b.age]
  /\ \E size \in 0 .. MaxDatagramSize :
       /\ DOMAIN b.data = 0 .. size - 1
       /\ b.totalLength \in 0 .. size
  /\ b.data = [i \in DOMAIN b.data |-> b.data[i]]
  /\ b.received \subseteq DOMAIN b.data
  /\ \A i \in DOMAIN b.data \ b.received : b.data[i] = Zero
  /\ b.gotLastFragment = (b.totalLength # 0)
  /\ b.age \in 0 .. FragmentTimeout + 1

LEMMA EmptyBufferOK == BufferOK(EmptyBuffer)
<1> DEFINE e == EmptyBuffer
<1>1. /\ e.data = [i \in {} |-> 0] /\ e.received = {} /\ e.totalLength = 0
      /\ e.gotLastFragment = FALSE /\ e.age = 0
      /\ e = [data |-> e.data, received |-> e.received, totalLength |-> e.totalLength,
              gotLastFragment |-> e.gotLastFragment, age |-> e.age]
  BY DEF EmptyBuffer, NoDatagram
<1> HIDE DEF e
<1>2. DOMAIN e.data = 0 .. 0 - 1 /\ e.totalLength \in 0 .. 0 /\ 0 \in 0 .. MaxDatagramSize
  BY <1>1, DefragAssumption
<1>3. e.age \in 0 .. FragmentTimeout + 1
  BY <1>1, DefragAssumption
<1>4. BufferOK(e)
  BY <1>1, <1>2, <1>3 DEF BufferOK
<1> QED
  BY <1>4 DEF e

LEMMA FragmentTypes ==
  ASSUME NEW f \in Fragment, ~Refused(f)
  PROVE  /\ Start(f) \in Nat /\ End(f) \in 1 .. MaxDatagramSize
         /\ Start(f) < End(f)
         /\ Span(f) = Start(f) .. End(f) - 1
         /\ f.more \in BOOLEAN
<1>1. f.offset \in Nat /\ f.length \in Nat /\ f.more \in BOOLEAN /\ Unit \in Nat
  BY DefragAssumption
<1>2. Start(f) \in Nat
  BY <1>1 DEF Start
<1>3. End(f) = Start(f) + f.length /\ f.length # 0 /\ ~(End(f) > MaxDatagramSize)
  BY DEF End, Refused
<1> QED
  BY <1>1, <1>2, <1>3, DefragAssumption DEF Span

(* Storing a fragment keeps the buffer well formed, and adds its bytes.    *)
LEMMA StoredOK ==
  ASSUME NEW f \in Fragment, ~Refused(f), NEW b, BufferOK(b)
  PROVE  /\ BufferOK(Stored(b, f))
         /\ DOMAIN Stored(b, f).data # {}
<1> DEFINE s == Stored(b, f)
<1>1. PICK size \in 0 .. MaxDatagramSize : DOMAIN b.data = 0 .. size - 1 /\ b.totalLength \in 0 .. size
  BY DEF BufferOK
<1>2. DOMAIN Written(b, f) = 0 .. (IF size >= End(f) THEN size ELSE End(f)) - 1
  BY <1>1, FragmentTypes DEF Written, Over, BytesOf
<1>3. \A i \in DOMAIN Written(b, f) :
        Written(b, f)[i] = IF i \in Span(f) THEN <<f.source, i>>
                           ELSE IF i \in DOMAIN b.data THEN b.data[i] ELSE Zero
  BY <1>1, <1>2, FragmentTypes DEF Written, Over, BytesOf
<1>4. Written(b, f) = [i \in DOMAIN Written(b, f) |-> Written(b, f)[i]]
  BY DEF Written, Over
<1>5. /\ s.data = Written(b, f)
      /\ s.received = b.received \cup Span(f)
      /\ s.totalLength = IF f.more THEN b.totalLength ELSE End(f)
      /\ s.gotLastFragment = (b.gotLastFragment \/ ~f.more)
      /\ s.age = b.age
      /\ s = [data |-> s.data, received |-> s.received, totalLength |-> s.totalLength,
              gotLastFragment |-> s.gotLastFragment, age |-> s.age]
  BY DEF Stored
<1> HIDE DEF s
<1>6. s.received \subseteq DOMAIN s.data
  BY <1>1, <1>2, <1>5, FragmentTypes DEF BufferOK
<1>7. \A i \in DOMAIN s.data \ s.received : s.data[i] = Zero
  BY <1>3, <1>5 DEF BufferOK
<1>8. s.gotLastFragment = (s.totalLength # 0)
  <2>1. CASE f.more
    BY <1>5, <2>1 DEF BufferOK
  <2>2. CASE ~f.more
    <3>1. s.totalLength # 0
      BY <1>5, <2>2, FragmentTypes
    <3>2. s.gotLastFragment = TRUE
      BY <1>5, <2>2
    <3> QED
      BY <3>1, <3>2
  <2> QED
    BY <2>1, <2>2
<1>9. s.age \in 0 .. FragmentTimeout + 1
  BY <1>5 DEF BufferOK
<1>10. \E n \in 0 .. MaxDatagramSize : DOMAIN s.data = 0 .. n - 1 /\ s.totalLength \in 0 .. n
  <2> DEFINE n == IF size >= End(f) THEN size ELSE End(f)
  <2>1. n \in 0 .. MaxDatagramSize /\ s.totalLength \in 0 .. n
    BY <1>1, <1>5, FragmentTypes
  <2>2. DOMAIN s.data = 0 .. n - 1
    BY <1>2, <1>5
  <2> QED
    BY <2>1, <2>2
<1>11. DOMAIN s.data # {}
  BY <1>1, <1>2, <1>5, FragmentTypes
<1>12. BufferOK(s)
  BY <1>4, <1>5, <1>6, <1>7, <1>8, <1>9, <1>10 DEF BufferOK
<1> QED
  BY <1>11, <1>12 DEF s
-----------------------------------------------------------------------------
DefragInv ==
  /\ buffers = [k \in DOMAIN buffers |-> buffers[k]]
  /\ DOMAIN buffers \subseteq FragmentKey
  /\ IsFiniteSet(DOMAIN buffers)
  /\ Cardinality(DOMAIN buffers) <= MaxConcurrentDatagrams
  /\ \A k \in DOMAIN buffers : BufferOK(buffers[k]) /\ DOMAIN buffers[k].data # {}

LEMMA InvIsTypeOK == DefragInv => DefragTypeOK
<1> SUFFICES ASSUME DefragInv, NEW k \in DOMAIN buffers
             PROVE  BufferTypeOK(buffers[k])
  BY DEF DefragInv, DefragTypeOK
<1> DEFINE b == buffers[k]
<1>1. BufferOK(b) /\ DOMAIN b.data # {}
  BY DEF DefragInv
<1> HIDE DEF b
<1>2. PICK size \in 0 .. MaxDatagramSize : DOMAIN b.data = 0 .. size - 1 /\ b.totalLength \in 0 .. size
  BY <1>1 DEF BufferOK
<1>3. size \in 1 .. MaxDatagramSize
  BY <1>1, <1>2
<1>4. Cardinality(DOMAIN b.data) = size
  BY <1>2, <1>3, FS_Interval
<1>5. BufferTypeOK(b)
  BY <1>1, <1>2, <1>3, <1>4 DEF BufferOK, BufferTypeOK
<1> QED
  BY <1>5 DEF b

LEMMA DefragInitially == DefragInit => DefragInv
BY FS_EmptySet, DefragAssumption DEF DefragInit, DefragInv

(* Forgetting datagrams keeps the invariant.                               *)
LEMMA EraseKeeps ==
  ASSUME DefragInv, NEW K, buffers' = Erase(K)
  PROVE  DefragInv'
<1>1. DOMAIN buffers' = DOMAIN buffers \ K
  BY DEF Erase, Restrict
<1>2. \A k \in DOMAIN buffers' : buffers'[k] = buffers[k]
  BY DEF Erase, Restrict
<1>3. buffers' = [k \in DOMAIN buffers' |-> buffers'[k]]
  BY DEF Erase, Restrict
<1>4. IsFiniteSet(DOMAIN buffers') /\ Cardinality(DOMAIN buffers') <= Cardinality(DOMAIN buffers)
  BY <1>1, FS_Subset DEF DefragInv
<1>5. Cardinality(DOMAIN buffers') <= MaxConcurrentDatagrams
  BY <1>1, <1>4, FS_CardinalityType, DefragAssumption DEF DefragInv
<1> QED
  BY <1>1, <1>2, <1>3, <1>4, <1>5 DEF DefragInv

(* So does putting a datagram into the table, if it was there or there is  *)
(* room.                                                                   *)
LEMMA PutKeeps ==
  ASSUME DefragInv, NEW k \in FragmentKey, NEW b, BufferOK(b), DOMAIN b.data # {},
         k \in DOMAIN buffers \/ Cardinality(DOMAIN buffers) < MaxConcurrentDatagrams,
         buffers' = Over([j \in {k} |-> b], buffers)
  PROVE  DefragInv'
<1>1. DOMAIN buffers' = DOMAIN buffers \cup {k}
  BY DEF Over
<1>2. \A j \in DOMAIN buffers' : buffers'[j] = IF j = k THEN b ELSE buffers[j]
  BY DEF Over
<1>3. buffers' = [j \in DOMAIN buffers' |-> buffers'[j]]
  BY DEF Over
<1>4. IsFiniteSet(DOMAIN buffers') /\ Cardinality(DOMAIN buffers') <= MaxConcurrentDatagrams
  <2>1. CASE k \in DOMAIN buffers
    <3>1. DOMAIN buffers' = DOMAIN buffers
      BY <1>1, <2>1
    <3> QED
      BY <3>1 DEF DefragInv
  <2>2. CASE k \notin DOMAIN buffers
    <3>1. IsFiniteSet(DOMAIN buffers') /\ Cardinality(DOMAIN buffers') = Cardinality(DOMAIN buffers) + 1
      BY <1>1, <2>2, FS_AddElement DEF DefragInv
    <3> QED
      BY <2>2, <3>1, FS_CardinalityType, DefragAssumption DEF DefragInv
  <2> QED
    BY <2>1, <2>2
<1> QED
  BY <1>1, <1>2, <1>3, <1>4 DEF DefragInv

(* The buffer that a fragment meets.                                       *)
LEMMA MetBuffer == DefragInv => \A k : BufferOK(Buffer(k))
BY EmptyBufferOK DEF DefragInv, Buffer

LEMMA KeyOfFragment == \A f \in Fragment : f.key \in FragmentKey
BY DEF FragmentKey

LEMMA DefragStep == DefragInv /\ [DefragNext]_defragVars => DefragInv'
<1> SUFFICES ASSUME DefragInv, [DefragNext]_defragVars PROVE DefragInv'
  OBVIOUS
<1>1. CASE UNCHANGED buffers
  BY <1>1 DEF DefragInv
<1>2. ASSUME NEW f \in Fragment, ProcessFragment(f), ~Refused(f)
      PROVE  DefragInv'
  <2> DEFINE b == Stored(Buffer(f.key), f)
  <2>1. BufferOK(b) /\ DOMAIN b.data # {}
    BY <1>2, StoredOK, MetBuffer
  <2>2. CASE Complete(b)
    BY <1>2, <2>2, EraseKeeps DEF ProcessFragment
  <2>3. CASE ~Complete(b)
    <3>1. buffers' = Over([k \in {f.key} |-> b], buffers)
      BY <1>2, <2>3 DEF ProcessFragment
    <3>2. f.key \in DOMAIN buffers \/ Cardinality(DOMAIN buffers) < MaxConcurrentDatagrams
      BY <1>2, FS_CardinalityType, DefragAssumption DEF Refused, DefragInv
    <3> HIDE DEF b
    <3> QED
      BY <2>1, <3>1, <3>2, PutKeeps, KeyOfFragment
  <2> QED
    BY <2>2, <2>3
<1>3. CASE EvictStaleFragments
  BY <1>3, EraseKeeps DEF EvictStaleFragments
<1>4. CASE Tick
  <2>1. /\ DOMAIN buffers' = DOMAIN buffers
        /\ buffers' = [k \in DOMAIN buffers' |-> buffers'[k]]
        /\ \A k \in DOMAIN buffers :
             buffers'[k] = [buffers[k] EXCEPT !.age = Min({@ + 1, FragmentTimeout + 1})]
    BY <1>4 DEF Tick
  <2>2. ASSUME NEW k \in DOMAIN buffers
        PROVE  BufferOK(buffers'[k]) /\ DOMAIN buffers'[k].data # {}
    <3> DEFINE b == buffers[k]
    <3> DEFINE c == buffers'[k]
    <3>1. BufferOK(b) /\ DOMAIN b.data # {}
      BY DEF DefragInv
    <3>2. c = [b EXCEPT !.age = Min({b.age + 1, FragmentTimeout + 1})]
      BY <2>1
    <3>3. Min({b.age + 1, FragmentTimeout + 1}) \in 0 .. FragmentTimeout + 1
      BY <3>1, MinOfTwo, DefragAssumption DEF BufferOK
    <3> HIDE DEF b, c
    <3>4. c = [data |-> b.data, received |-> b.received, totalLength |-> b.totalLength,
               gotLastFragment |-> b.gotLastFragment,
               age |-> Min({b.age + 1, FragmentTimeout + 1})]
      BY <3>1, <3>2 DEF BufferOK
    <3>5. /\ c.data = b.data /\ c.received = b.received /\ c.totalLength = b.totalLength
          /\ c.gotLastFragment = b.gotLastFragment
          /\ c.age = Min({b.age + 1, FragmentTimeout + 1})
          /\ c = [data |-> c.data, received |-> c.received, totalLength |-> c.totalLength,
                  gotLastFragment |-> c.gotLastFragment, age |-> c.age]
      BY <3>4
    <3>6. BufferOK(c) /\ DOMAIN c.data # {}
      BY <3>1, <3>3, <3>5 DEF BufferOK
    <3> QED
      BY <3>6 DEF c
  <2> QED
    BY <2>1, <2>2 DEF DefragInv
<1> QED
  BY <1>1, <1>2, <1>3, <1>4 DEF DefragNext, defragVars, ProcessFragment

LEMMA DefragInvariant == DefragSpec => []DefragInv
BY DefragInitially, DefragStep, PTL DEF DefragSpec

(* The table is bounded and its buffers are in order.                      *)
THEOREM DefragTypeCorrect == DefragSpec => []DefragTypeOK
BY DefragInvariant, InvIsTypeOK, PTL
-----------------------------------------------------------------------------
(* What is handed over has bytes.                                          *)
LEMMA CompleteNotEmpty ==
  ASSUME NEW b, BufferOK(b), Complete(b)
  PROVE  Trimmed(b) # NoDatagram /\ 0 .. b.totalLength - 1 \subseteq b.received
<1>1. b.totalLength \in Nat /\ b.totalLength # 0
  <2>1. b.totalLength \in Nat
    BY DEF BufferOK
  <2>2. b.totalLength # 0
    BY Zenon DEF BufferOK, Complete
  <2> QED
    BY <2>1, <2>2
<1>2. 0 \in DOMAIN Trimmed(b)
  BY <1>1 DEF Trimmed, Restrict
<1> QED
  BY <1>2 DEF NoDatagram, Complete
-----------------------------------------------------------------------------
(* The refinement.  What is known of a datagram is what is marked.         *)
View(b) == [bytes |-> Restrict(b.data, b.received), end |-> b.totalLength]

Views == [k \in DOMAIN buffers |-> View(buffers[k])]

LEMMA SameOperators ==
  /\ \A f, S : R!Restrict(f, S) = Restrict(f, S)
  /\ \A f, g : R!Over(f, g) = Over(f, g)
BY DEF R!Restrict, Restrict, R!Over, Over

LEMMA ViewOfEmpty == View(EmptyBuffer) = [bytes |-> R!NoDatagram, end |-> 0]
<1>1. Restrict(EmptyBuffer.data, EmptyBuffer.received) = R!NoDatagram
  BY DEF EmptyBuffer, Restrict, R!NoDatagram
<1> QED
  BY <1>1 DEF View, EmptyBuffer

(* A stored fragment is seen as Reassembly sees it.                        *)
LEMMA ViewOfStored ==
  ASSUME NEW f \in Fragment, ~Refused(f), NEW b, BufferOK(b)
  PROVE  View(Stored(b, f)) = R!With(View(b), BytesOf(f), ~f.more)
<1> DEFINE s == Stored(b, f)
<1>1. /\ DOMAIN BytesOf(f) = Span(f)
      /\ \A i \in Span(f) : BytesOf(f)[i] = <<f.source, i>>
  BY DEF BytesOf
<1>2. (CHOOSE i \in DOMAIN BytesOf(f) : i + 1 \notin DOMAIN BytesOf(f)) + 1 = End(f)
  <2> DEFINE D == DOMAIN BytesOf(f)
  <2>1. \A i \in D : (i + 1 \notin D) <=> (i = End(f) - 1)
    BY <1>1, FragmentTypes
  <2>2. End(f) - 1 \in D /\ End(f) \in Nat
    BY <1>1, FragmentTypes
  <2> HIDE DEF D
  <2> DEFINE last == CHOOSE i \in D : i + 1 \notin D
  <2>3. last \in D /\ last + 1 \notin D
    BY <2>1, <2>2
  <2> HIDE DEF last
  <2>4. last + 1 = End(f)
    BY <2>1, <2>2, <2>3
  <2> QED
    BY <2>4 DEF D, last
<1>3. /\ s.data = Over(BytesOf(f), Over(b.data, [i \in 0 .. End(f) - 1 |-> Zero]))
      /\ s.received = b.received \cup Span(f)
      /\ s.totalLength = IF f.more THEN b.totalLength ELSE End(f)
  BY DEF Stored, Written
<1> HIDE DEF s
<1>4. Restrict(s.data, s.received) = Over(BytesOf(f), Restrict(b.data, b.received))
  <2> DEFINE left == Restrict(s.data, s.received)
  <2> DEFINE right == Over(BytesOf(f), Restrict(b.data, b.received))
  <2>1. /\ DOMAIN left = b.received \cup Span(f)
        /\ DOMAIN right = b.received \cup Span(f)
    BY <1>1, <1>3 DEF Restrict, Over
  <2>2. ASSUME NEW i \in b.received \cup Span(f)
        PROVE  left[i] = right[i]
    <3>1. left[i] = IF i \in Span(f) THEN <<f.source, i>> ELSE b.data[i]
      BY <1>1, <1>3 DEF Restrict, Over, BufferOK
    <3>2. right[i] = IF i \in Span(f) THEN <<f.source, i>> ELSE b.data[i]
      BY <1>1 DEF Restrict, Over
    <3> QED
      BY <3>1, <3>2
  <2>3. /\ left = [i \in DOMAIN left |-> left[i]]
        /\ right = [i \in DOMAIN right |-> right[i]]
    BY DEF Restrict, Over
  <2> HIDE DEF left, right
  <2>4. left = right
    BY <2>1, <2>2, <2>3
  <2> QED
    BY <2>4 DEF left, right
<1>5. R!With(View(b), BytesOf(f), ~f.more) =
        [bytes |-> Over(BytesOf(f), Restrict(b.data, b.received)),
         end |-> IF ~f.more THEN End(f) ELSE b.totalLength]
  BY <1>2, SameOperators, Zenon DEF View, R!With
<1>6. View(s) = R!With(View(b), BytesOf(f), ~f.more)
  BY <1>3, <1>4, <1>5, FragmentTypes DEF View
<1> QED
  BY <1>6 DEF s

LEMMA ViewOfComplete ==
  ASSUME NEW b, BufferOK(b)
  PROVE  /\ R!Whole(View(b)) <=> Complete(b)
         /\ Complete(b) => Trimmed(b) = Restrict(View(b).bytes, 0 .. View(b).end - 1)
<1>1. DOMAIN View(b).bytes = b.received /\ View(b).end = b.totalLength
  BY DEF View, Restrict
<1>2. R!Whole(View(b)) <=> Complete(b)
  BY <1>1 DEF R!Whole, Complete, BufferOK
<1>3. ASSUME Complete(b)
      PROVE  Trimmed(b) = Restrict(View(b).bytes, 0 .. View(b).end - 1)
  BY <1>1, <1>3, CompleteNotEmpty DEF Trimmed, View, Restrict
<1> QED
  BY <1>2, <1>3

LEMMA NothingForgotten == {} \in SUBSET DOMAIN buffers
OBVIOUS

(* The steps that only forget.                                             *)
LEMMA ForgettingIsLosing ==
  ASSUME NEW L \in SUBSET DOMAIN buffers, Views' = Restrict(Views, DOMAIN Views \ L),
         out' = NoDatagram
  PROVE  R!Lose
<1>1. R!Forget(L) = Restrict(Views, DOMAIN Views \ L)
  BY SameOperators DEF R!Forget, Views, View
<1>2. L \in SUBSET DOMAIN Views
  BY DEF Views
<1> QED
  BY <1>1, <1>2 DEF R!Lose, R!NoDatagram, NoDatagram, Views, View

(* Every step of the buffers is one that Reassembly allows.                *)
LEMMA DefragStepRefines ==
  ASSUME DefragInv, [DefragNext]_defragVars
  PROVE  [R!Next]_(R!vars)
<1>1. CASE UNCHANGED defragVars
  BY <1>1 DEF defragVars, R!vars
<1>2. ASSUME NEW f \in Fragment, ProcessFragment(f)
      PROVE  R!Next
  <2> DEFINE b == Stored(Buffer(f.key), f)
  <2>1. CASE Refused(f)
    <3>1. buffers' = buffers /\ out' = NoDatagram
      BY <1>2, <2>1 DEF ProcessFragment
    <3>2. Views' = Restrict(Views, DOMAIN Views \ {})
      BY <3>1 DEF Views, Restrict
    <3>3. R!Lose
      BY <3>1, <3>2, NothingForgotten, ForgettingIsLosing
    <3> QED
      BY <3>3 DEF R!Next
  <2>2. CASE ~Refused(f)
    <3>1. BufferOK(b)
      BY <1>2, <2>2, StoredOK, MetBuffer
    <3>2. R!Known(f.key) = View(Buffer(f.key))
      BY ViewOfEmpty DEF R!Known, Buffer, View
    <3>3. R!With(R!Known(f.key), BytesOf(f), ~f.more) = View(b)
      BY <2>2, <3>2, ViewOfStored, MetBuffer
    <3>4. R!Receive(f.key, BytesOf(f), ~f.more)
      <4>1. CASE Complete(b)
        <5>1. out' = Trimmed(b) /\ buffers' = Erase({f.key})
          BY <1>2, <2>2, <4>1 DEF ProcessFragment
        <5> HIDE DEF b
        <5>2. R!Whole(View(b)) /\ out' = Restrict(View(b).bytes, 0 .. View(b).end - 1)
          BY <3>1, <4>1, <5>1, ViewOfComplete
        <5>3. Views' = R!Forget({f.key})
          <6>1. R!Forget({f.key}) = Restrict(Views, DOMAIN Views \ {f.key})
            BY SameOperators DEF R!Forget, Views, View
          <6>2. Views' = Restrict(Views, DOMAIN Views \ {f.key})
            BY <5>1 DEF Views, Erase, Restrict
          <6> QED
            BY <6>1, <6>2
        <5> QED
          BY <3>3, <5>2, <5>3, SameOperators DEF R!Receive, Views, View
      <4>2. CASE ~Complete(b)
        <5>1. out' = NoDatagram /\ buffers' = Over([k \in {f.key} |-> b], buffers)
          BY <1>2, <2>2, <4>2 DEF ProcessFragment
        <5> HIDE DEF b
        <5>2. ~R!Whole(View(b))
          BY <3>1, <4>2, ViewOfComplete
        <5>3. Views' = Over([k \in {f.key} |-> View(b)], Views)
          BY <5>1 DEF Views, Over
        <5> QED
          BY <3>3, <5>1, <5>2, <5>3, SameOperators DEF R!Receive, R!NoDatagram, NoDatagram, Views, View
      <4> QED
        BY <4>1, <4>2
    <3>5. BytesOf(f) # NoDatagram
      <4>1. Start(f) \in DOMAIN BytesOf(f)
        BY <2>2, FragmentTypes DEF BytesOf
      <4> QED
        BY <4>1 DEF NoDatagram
    <3> QED
      BY <3>4, <3>5, KeyOfFragment DEF R!Next
  <2> QED
    BY <2>1, <2>2
<1>3. CASE EvictStaleFragments
  <2>1. buffers' = Erase(Stale) /\ out' = NoDatagram
    BY <1>3 DEF EvictStaleFragments
  <2>2. R!Lose
    <3>1. Stale \in SUBSET DOMAIN buffers
      BY DEF Stale
    <3>2. Views' = Restrict(Views, DOMAIN Views \ Stale)
      BY <2>1 DEF Views, Erase, Restrict
    <3> QED
      BY <2>1, <3>1, <3>2, ForgettingIsLosing
  <2> QED
    BY <2>2 DEF R!Next
<1>4. CASE Tick
  <2>1. /\ DOMAIN buffers' = DOMAIN buffers
        /\ \A k \in DOMAIN buffers :
             buffers'[k] = [buffers[k] EXCEPT !.age = Min({@ + 1, FragmentTimeout + 1})]
    BY <1>4 DEF Tick
  <2>2. ASSUME NEW k \in DOMAIN buffers
        PROVE  View(buffers'[k]) = View(buffers[k])
    <3> DEFINE b == buffers[k]
    <3> DEFINE m == Min({b.age + 1, FragmentTimeout + 1})
    <3>1. b = [data |-> b.data, received |-> b.received, totalLength |-> b.totalLength,
               gotLastFragment |-> b.gotLastFragment, age |-> b.age]
      BY DEF DefragInv, BufferOK
    <3>2. buffers'[k] = [b EXCEPT !.age = m]
      BY <2>1
    <3> HIDE DEF b, m
    <3>3. /\ buffers'[k].data = b.data /\ buffers'[k].received = b.received
          /\ buffers'[k].totalLength = b.totalLength
      BY <3>1, <3>2
    <3>4. View(buffers'[k]) = View(b)
      BY <3>3 DEF View
    <3> QED
      BY <3>4 DEF b
  <2>3. Views' = Restrict(Views, DOMAIN Views \ {})
    BY <2>1, <2>2 DEF Views, Restrict
  <2>4. R!Lose
    BY <1>4, <2>3, NothingForgotten, ForgettingIsLosing DEF Tick
  <2> QED
    BY <2>4 DEF R!Next
<1> QED
  BY <1>1, <1>2, <1>3, <1>4 DEF DefragNext

(* IpDefragmenter implements Reassembly.                                   *)
THEOREM Refinement == DefragSpec => Reassembles
<1>1. DefragInit => R!Init
  BY DEF DefragInit, R!Init, R!NoDatagram, NoDatagram
<1> QED
  BY <1>1, DefragInvariant, DefragStepRefines, PTL DEF DefragSpec, Reassembles, R!Spec
-----------------------------------------------------------------------------
(* The audit.  What a buffer holds if all of it came from one sender: the  *)
(* sender's bytes, and its length from when the last of them is in.        *)
From(s, b) ==
  /\ \A i \in b.received : b.data[i] = <<s, i>> /\ i < Length[s]
  /\ b.totalLength = IF Length[s] - 1 \in b.received THEN Length[s] ELSE 0

(* The history agrees with the table, in which every datagram is begun and *)
(* none is whole.                                                          *)
Recalled ==
  /\ \A k \in FragmentKey : arrived[k] = Buffer(k).received /\ elapsed[k] = Buffer(k).age
  /\ \A k \in DOMAIN buffers : buffers[k].received # {} /\ ~Complete(buffers[k])

AuditInv ==
  /\ DefragInv
  /\ sources = [k \in FragmentKey |-> sources[k]]
  /\ arrived = [k \in FragmentKey |-> arrived[k]]
  /\ elapsed = [k \in FragmentKey |-> elapsed[k]]
  /\ \A k \in FragmentKey : k \notin DOMAIN buffers => sources[k] = {}
  /\ \A k \in DOMAIN buffers, s \in DOMAIN Length : sources[k] \subseteq {s} => From(s, buffers[k])
  /\ Recalled
  /\ DeliveredAsSent

LEMMA EmptyBufferFields ==
  EmptyBuffer.received = {} /\ EmptyBuffer.age = 0 /\ EmptyBuffer.totalLength = 0
BY DEF EmptyBuffer

LEMMA MetFrom ==
  ASSUME AuditInv, NEW k \in FragmentKey, NEW s \in DOMAIN Length, sources[k] \subseteq {s}
  PROVE  From(s, Buffer(k))
<1>1. CASE k \in DOMAIN buffers
  BY <1>1 DEF AuditInv, Buffer
<1>2. CASE k \notin DOMAIN buffers
  BY <1>2, EmptyBufferFields DEF Buffer, From
<1> QED
  BY <1>1, <1>2

(* An honest fragment of the same datagram leaves it so.                   *)
LEMMA StoredFrom ==
  ASSUME NEW f \in Fragment, ~Refused(f), NEW b, BufferOK(b),
         NEW s \in DOMAIN Length, From(s, b), Contributor(f) = s
  PROVE  From(s, Stored(b, f))
<1>1. Honest(f) /\ f.source = s
  BY AuditAssumption DEF Contributor
<1>2. End(f) <= Length[s] /\ f.more = (End(f) < Length[s]) /\ Length[s] \in Nat
  BY <1>1, AuditAssumption DEF Honest
<1> DEFINE t == Stored(b, f)
<1>3. /\ t.data = Over(BytesOf(f), Over(b.data, [i \in 0 .. End(f) - 1 |-> Zero]))
      /\ t.received = b.received \cup Span(f)
      /\ t.totalLength = IF f.more THEN b.totalLength ELSE End(f)
  BY DEF Stored, Written
<1> HIDE DEF t
<1>4. ASSUME NEW i \in t.received
      PROVE  t.data[i] = <<s, i>> /\ i < Length[s]
  <2>1. CASE i \in Span(f)
    <3>1. t.data[i] = <<s, i>>
      BY <1>1, <1>3, <2>1 DEF Over, BytesOf
    <3>2. i < Length[s]
      BY <1>2, <2>1, FragmentTypes
    <3> QED
      BY <3>1, <3>2
  <2>2. CASE i \notin Span(f)
    <3>1. i \in b.received /\ i \in DOMAIN b.data
      BY <1>3, <1>4, <2>2 DEF BufferOK
    <3>2. t.data[i] = b.data[i]
      BY <1>3, <2>2, <3>1 DEF Over, BytesOf
    <3> QED
      BY <3>1, <3>2 DEF From
  <2> QED
    BY <2>1, <2>2
<1>5. t.totalLength = IF Length[s] - 1 \in t.received THEN Length[s] ELSE 0
  <2>1. CASE f.more
    <3>1. Length[s] - 1 \notin Span(f)
      BY <1>2, <2>1, FragmentTypes
    <3> QED
      BY <1>3, <2>1, <3>1 DEF From
  <2>2. CASE ~f.more
    <3>1. End(f) = Length[s] /\ Length[s] - 1 \in Span(f)
      BY <1>2, <2>2, FragmentTypes
    <3> QED
      BY <1>3, <2>2, <3>1
  <2> QED
    BY <2>1, <2>2
<1> QED
  BY <1>4, <1>5 DEF From, t

(* A complete datagram of one sender is the sender's.                      *)
LEMMA CompleteFrom ==
  ASSUME NEW b, BufferOK(b), Complete(b), NEW s \in DOMAIN Length, From(s, b)
  PROVE  Trimmed(b) = [i \in 0 .. Length[s] - 1 |-> <<s, i>>]
<1>1. b.totalLength # 0
  BY Zenon DEF BufferOK, Complete
<1>2. b.totalLength = Length[s]
  BY <1>1 DEF From
<1>3. \A i \in 0 .. Length[s] - 1 : b.data[i] = <<s, i>>
  BY <1>2, CompleteNotEmpty DEF From
<1> QED
  BY <1>2, <1>3 DEF Trimmed, Restrict

(* One of which every byte arrived is complete.                            *)
LEMMA WholeIsComplete ==
  ASSUME NEW b, BufferOK(b), b.received # {}, NEW s \in DOMAIN Length, From(s, b),
         0 .. Length[s] - 1 \subseteq b.received
  PROVE  Complete(b)
<1>1. PICK i \in b.received : i \in Nat /\ i < Length[s]
  BY DEF From, BufferOK
<1>2. Length[s] \in Nat /\ Length[s] # 0
  BY <1>1, AuditAssumption
<1>3. Length[s] - 1 \in b.received
  BY <1>2
<1>4. b.totalLength = Length[s]
  BY <1>3 DEF From
<1>5. b.totalLength # 0
  BY <1>2, <1>4
<1>6. b.gotLastFragment = TRUE
  BY <1>5 DEF BufferOK
<1> QED
  BY <1>4, <1>6 DEF Complete

LEMMA WholeIsGone == AuditInv => HandedOverWhenWhole
<1> SUFFICES ASSUME AuditInv, NEW k \in FragmentKey, NEW s \in DOMAIN Length,
                    sources[k] = {s}, 0 .. Length[s] - 1 \subseteq arrived[k]
             PROVE  FALSE
  BY DEF HandedOverWhenWhole
<1>1. k \in DOMAIN buffers
  BY DEF AuditInv
<1>2. arrived[k] = buffers[k].received /\ buffers[k].received # {} /\ ~Complete(buffers[k])
  BY <1>1 DEF AuditInv, Recalled, Buffer
<1>3. BufferOK(buffers[k]) /\ From(s, buffers[k])
  BY <1>1 DEF AuditInv, DefragInv
<1> QED
  BY <1>2, <1>3, WholeIsComplete

(* The history opens the datagrams of the table, and counts the fragments  *)
(* that are not refused.                                                   *)
LEMMA OpenedIsTable ==
  ASSUME DefragInv, Recalled
  PROVE  /\ Opened = DOMAIN buffers
         /\ \A f \in Fragment : Counts(f) <=> ~Refused(f)
<1>1. Opened = DOMAIN buffers
  BY EmptyBufferFields DEF DefragInv, Recalled, Opened, Buffer
<1>2. Cardinality(DOMAIN buffers) \in Nat /\ MaxConcurrentDatagrams \in Nat
  BY FS_CardinalityType, DefragAssumption DEF DefragInv
<1>3. ASSUME NEW f \in Fragment
      PROVE  Counts(f) <=> ~Refused(f)
  <2>1. End(f) \in Nat
    <3>1. f.offset \in Nat /\ f.length \in Nat /\ Unit \in Nat
      BY DefragAssumption
    <3>2. Start(f) \in Nat
      BY <3>1 DEF Start
    <3> QED
      BY <3>1, <3>2 DEF End
  <2>2. (End(f) <= MaxDatagramSize) <=> ~(End(f) > MaxDatagramSize)
    BY <2>1, DefragAssumption
  <2>3. (Cardinality(DOMAIN buffers) < MaxConcurrentDatagrams)
           <=> ~(Cardinality(DOMAIN buffers) >= MaxConcurrentDatagrams)
    BY <1>2
  <2> QED
    BY <1>1, <2>2, <2>3 DEF Counts, Refused
<1> QED
  BY <1>1, <1>3

LEMMA AuditInitially == AuditInit => AuditInv
<1> SUFFICES ASSUME AuditInit PROVE AuditInv
  OBVIOUS
<1>1. DefragInv /\ DOMAIN buffers = {} /\ DeliveredAsSent
  BY DefragInitially DEF AuditInit, DeliveredAsSent, DefragInit
<1>2. Recalled
  BY <1>1, EmptyBufferFields DEF AuditInit, Recalled, Buffer
<1> QED
  BY <1>1, <1>2 DEF AuditInit, AuditInv

(* Closing the datagrams that leave the table keeps the invariant.         *)
LEMMA ClosedKeeps ==
  ASSUME AuditInv, DefragInv', NEW K, buffers' = Erase(K), Closed(K), DeliveredAsSent'
  PROVE  AuditInv'
<1>1. /\ DOMAIN buffers' = DOMAIN buffers \ K
      /\ \A k \in DOMAIN buffers' : buffers'[k] = buffers[k]
  BY DEF Erase, Restrict
<1>2. DOMAIN buffers \subseteq FragmentKey
  BY DEF AuditInv, DefragInv
<1>3. /\ \A k \in FragmentKey : /\ arrived'[k] = IF k \in K THEN {} ELSE arrived[k]
                                /\ sources'[k] = IF k \in K THEN {} ELSE sources[k]
                                /\ elapsed'[k] = IF k \in K THEN 0 ELSE elapsed[k]
      /\ arrived' = [k \in FragmentKey |-> arrived'[k]]
      /\ sources' = [k \in FragmentKey |-> sources'[k]]
      /\ elapsed' = [k \in FragmentKey |-> elapsed'[k]]
  BY DEF Closed
<1>4. Recalled'
  <2>1. ASSUME NEW k \in FragmentKey
        PROVE  arrived'[k] = Buffer(k)'.received /\ elapsed'[k] = Buffer(k)'.age
    <3>1. arrived[k] = Buffer(k).received /\ elapsed[k] = Buffer(k).age
      BY DEF AuditInv, Recalled
    <3>2. Buffer(k)' = IF k \in K THEN EmptyBuffer ELSE Buffer(k)
      BY <1>1 DEF Buffer
    <3> QED
      BY <1>3, <3>1, <3>2, EmptyBufferFields
  <2>2. ASSUME NEW k \in DOMAIN buffers'
        PROVE  buffers'[k].received # {} /\ ~Complete(buffers'[k])
    BY <1>1, <2>2 DEF AuditInv, Recalled
  <2>3. \A k \in DOMAIN buffers' : ~Complete(buffers[k])'
    BY <2>2 DEF Complete
  <2> QED
    BY <2>1, <2>2, <2>3 DEF Recalled
<1>5. \A k \in FragmentKey : k \notin DOMAIN buffers' => sources'[k] = {}
  BY <1>1, <1>3 DEF AuditInv
<1>6. ASSUME NEW k \in DOMAIN buffers', NEW s \in DOMAIN Length, sources'[k] \subseteq {s}
      PROVE  From(s, buffers'[k])
  <2>1. k \in DOMAIN buffers /\ buffers'[k] = buffers[k] /\ sources'[k] = sources[k]
    BY <1>1, <1>2, <1>3
  <2> QED
    BY <1>6, <2>1 DEF AuditInv
<1> QED
  BY <1>3, <1>4, <1>5, <1>6 DEF AuditInv, From

LEMMA AuditedFragmentKeeps ==
  ASSUME AuditInv, NEW f \in Fragment, AuditedFragment(f)
  PROVE  AuditInv'
<1> DEFINE k == f.key
<1> DEFINE b == Stored(Buffer(k), f)
<1> DEFINE all == sources[k] \cup {Contributor(f)}
<1>0. k \in FragmentKey
  BY KeyOfFragment
<1>1. DefragInv'
  BY DefragStep DEF AuditInv, AuditedFragment, DefragNext
<1>2. Counts(f) <=> ~Refused(f)
  BY OpenedIsTable DEF AuditInv
<1>3. CASE Refused(f)
  <2>1. UNCHANGED buffers /\ out' = NoDatagram
    BY <1>3 DEF AuditedFragment, ProcessFragment
  <2>2. UNCHANGED history /\ handed' = {}
    BY <1>2, <1>3, <2>1 DEF AuditedFragment
  <2>3. Recalled'
    BY <2>1, <2>2 DEF AuditInv, Recalled, history, Buffer, Complete
  <2> QED
    BY <1>1, <2>1, <2>2, <2>3 DEF AuditInv, DeliveredAsSent, history, From
<1>4. CASE ~Refused(f)
  <2>1. BufferOK(Buffer(k)) /\ BufferOK(b) /\ DOMAIN b.data # {}
    BY <1>4, StoredOK, MetBuffer DEF AuditInv
  <2>2. ASSUME NEW s \in DOMAIN Length, all \subseteq {s}
        PROVE  From(s, b)
    <3>1. Contributor(f) = s /\ From(s, Buffer(k))
      BY <1>0, <2>2, MetFrom
    <3> QED
      BY <1>4, <2>1, <3>1, StoredFrom
  <2>3. CASE Complete(b)
    <3>1. out' = Trimmed(b) /\ buffers' = Erase({k})
      BY <1>4, <2>3 DEF AuditedFragment, ProcessFragment
    <3>2. out' # NoDatagram
      <4> HIDE DEF b
      <4> QED
        BY <2>1, <2>3, <3>1, CompleteNotEmpty
    <3>3. handed' = all /\ Closed({k})
      BY <3>2 DEF AuditedFragment
    <3> HIDE DEF b, k, all
    <3>4. DeliveredAsSent'
      BY <2>1, <2>2, <2>3, <3>1, <3>3, CompleteFrom DEF DeliveredAsSent
    <3> QED
      BY <1>1, <3>1, <3>3, <3>4, ClosedKeeps
  <2>4. CASE ~Complete(b)
    <3>1. out' = NoDatagram /\ buffers' = Over([j \in {k} |-> b], buffers)
      BY <1>4, <2>4 DEF AuditedFragment, ProcessFragment
    <3>2. handed' = {} /\ Recorded(f)
      BY <1>2, <1>4, <3>1 DEF AuditedFragment
    <3>3. /\ b.received = Buffer(k).received \cup Span(f)
          /\ b.age = Buffer(k).age
      BY DEF Stored
    <3>4. Span(f) # {}
      <4>1. Start(f) \in Span(f)
        BY <1>4, FragmentTypes
      <4> QED
        BY <4>1
    <3>5. /\ arrived' = [arrived EXCEPT ![k] = @ \cup Span(f)]
          /\ sources' = [sources EXCEPT ![k] = all]
          /\ elapsed' = elapsed
      BY <3>2 DEF Recorded
    <3> HIDE DEF b, k, all
    <3>6. /\ DOMAIN buffers' = DOMAIN buffers \cup {k}
          /\ \A j \in DOMAIN buffers' : buffers'[j] = IF j = k THEN b ELSE buffers[j]
      BY <3>1 DEF Over
    <3>7. /\ \A j \in FragmentKey :
               /\ arrived'[j] = IF j = k THEN arrived[k] \cup Span(f) ELSE arrived[j]
               /\ sources'[j] = IF j = k THEN all ELSE sources[j]
          /\ arrived' = [j \in FragmentKey |-> arrived'[j]]
          /\ sources' = [j \in FragmentKey |-> sources'[j]]
      BY <1>0, <3>5 DEF AuditInv
    <3>8. DeliveredAsSent'
      BY <3>1, <3>2 DEF DeliveredAsSent
    <3>9. Recalled'
      <4>1. ASSUME NEW j \in FragmentKey
            PROVE  arrived'[j] = Buffer(j)'.received /\ elapsed'[j] = Buffer(j)'.age
        <5>1. arrived[j] = Buffer(j).received /\ elapsed[j] = Buffer(j).age
          BY DEF AuditInv, Recalled
        <5>2. Buffer(j)' = IF j = k THEN b ELSE Buffer(j)
          BY <3>6 DEF Buffer
        <5> QED
          BY <3>3, <3>5, <3>7, <5>1, <5>2
      <4>2. ASSUME NEW j \in DOMAIN buffers'
            PROVE  buffers'[j].received # {} /\ ~Complete(buffers[j])'
        <5>1. CASE j = k
          <6>1. buffers'[j] = b
            BY <3>6, <5>1
          <6> QED
            BY <2>4, <3>3, <3>4, <6>1 DEF Complete
        <5>2. CASE j # k
          <6>1. buffers'[j] = buffers[j] /\ j \in DOMAIN buffers
            BY <3>6, <5>2
          <6> QED
            BY <6>1 DEF AuditInv, Recalled, Complete
        <5> QED
          BY <5>1, <5>2
      <4> QED
        BY <4>1, <4>2 DEF Recalled
    <3>10. DOMAIN buffers \subseteq FragmentKey
      BY DEF AuditInv, DefragInv
    <3>11. \A j \in FragmentKey : j \notin DOMAIN buffers' => sources'[j] = {}
      BY <3>6, <3>7 DEF AuditInv
    <3>12. ASSUME NEW j \in DOMAIN buffers', NEW s \in DOMAIN Length, sources'[j] \subseteq {s}
           PROVE  From(s, buffers'[j])
      <4>1. CASE j = k
        <5>1. buffers'[j] = b /\ sources'[j] = all
          BY <1>0, <3>6, <3>7, <4>1
        <5> QED
          BY <2>2, <3>12, <5>1
      <4>2. CASE j # k
        <5>1. j \in DOMAIN buffers /\ buffers'[j] = buffers[j] /\ sources'[j] = sources[j]
          BY <3>6, <3>7, <3>10, <4>2
        <5> QED
          BY <3>12, <5>1 DEF AuditInv
      <4> QED
        BY <4>1, <4>2
    <3> QED
      BY <1>1, <3>5, <3>7, <3>8, <3>9, <3>11, <3>12 DEF AuditInv, From
  <2> QED
    BY <2>3, <2>4
<1> QED
  BY <1>3, <1>4

LEMMA AuditedEvictionKeeps ==
  ASSUME AuditInv, AuditedEviction
  PROVE  AuditInv'
<1> DEFINE K == {k \in FragmentKey : elapsed[k] > FragmentTimeout}
<1>1. DefragInv'
  BY DefragStep DEF AuditedEviction, AuditInv, DefragNext
<1>2. K = Stale
  <2>1. \A k \in FragmentKey :
          elapsed[k] = IF k \in DOMAIN buffers THEN buffers[k].age ELSE 0
    BY EmptyBufferFields DEF AuditInv, Recalled, Buffer
  <2>2. DOMAIN buffers \subseteq FragmentKey /\ ~(0 > FragmentTimeout)
    BY DefragAssumption DEF AuditInv, DefragInv
  <2> QED
    BY <2>1, <2>2 DEF Stale
<1>3. buffers' = Erase(K) /\ Closed(K)
  BY <1>2 DEF AuditedEviction, EvictStaleFragments
<1> HIDE DEF K
<1>4. DeliveredAsSent'
  BY DEF AuditedEviction, DeliveredAsSent
<1> QED
  BY <1>1, <1>3, <1>4, ClosedKeeps

LEMMA AuditedTickKeeps ==
  ASSUME AuditInv, AuditedTick
  PROVE  AuditInv'
<1> DEFINE Aged(a) == Min({a + 1, FragmentTimeout + 1})
<1>1. DefragInv'
  BY DefragStep DEF AuditedTick, AuditInv, DefragNext
<1>2. /\ DOMAIN buffers' = DOMAIN buffers
      /\ \A k \in DOMAIN buffers : buffers'[k] = [buffers[k] EXCEPT !.age = Aged(@)]
      /\ handed' = {}
      /\ elapsed' = [k \in FragmentKey |-> IF k \in Opened THEN Aged(elapsed[k]) ELSE 0]
      /\ UNCHANGED <<arrived, sources>>
  BY DEF AuditedTick, Tick
<1> HIDE DEF Aged
<1>3. ASSUME NEW k \in DOMAIN buffers
      PROVE  /\ buffers'[k].data = buffers[k].data
             /\ buffers'[k].received = buffers[k].received
             /\ buffers'[k].totalLength = buffers[k].totalLength
             /\ buffers'[k].gotLastFragment = buffers[k].gotLastFragment
             /\ buffers'[k].age = Aged(buffers[k].age)
  <2> DEFINE b == buffers[k]
  <2>1. b = [data |-> b.data, received |-> b.received, totalLength |-> b.totalLength,
             gotLastFragment |-> b.gotLastFragment, age |-> b.age]
    BY DEF AuditInv, DefragInv, BufferOK
  <2>2. buffers'[k] = [b EXCEPT !.age = Aged(b.age)]
    BY <1>2
  <2> HIDE DEF b
  <2>3. /\ buffers'[k].data = b.data /\ buffers'[k].received = b.received
        /\ buffers'[k].totalLength = b.totalLength
        /\ buffers'[k].gotLastFragment = b.gotLastFragment
        /\ buffers'[k].age = Aged(b.age)
    BY <2>1, <2>2
  <2> QED
    BY <2>3 DEF b
<1>4. Recalled'
  <2>1. ASSUME NEW k \in FragmentKey
        PROVE  arrived'[k] = Buffer(k)'.received /\ elapsed'[k] = Buffer(k)'.age
    <3>1. arrived[k] = Buffer(k).received /\ elapsed[k] = Buffer(k).age
      BY DEF AuditInv, Recalled
    <3>2. k \in Opened <=> k \in DOMAIN buffers
      BY OpenedIsTable DEF AuditInv
    <3>3. Buffer(k)' = IF k \in DOMAIN buffers THEN buffers'[k] ELSE EmptyBuffer
      BY <1>2 DEF Buffer
    <3> QED
      BY <1>2, <1>3, <3>1, <3>2, <3>3, EmptyBufferFields DEF Buffer
  <2>2. \A k \in DOMAIN buffers' : buffers'[k].received # {} /\ ~Complete(buffers[k])'
    BY <1>2, <1>3 DEF AuditInv, Recalled, Complete
  <2> QED
    BY <2>1, <2>2 DEF Recalled
<1>5. \A k \in DOMAIN buffers, s \in DOMAIN Length :
        From(s, buffers[k]) => From(s, buffers'[k])
  BY <1>3 DEF From
<1>6. DeliveredAsSent'
  BY <1>2 DEF DeliveredAsSent
<1>7. elapsed' = [k \in FragmentKey |-> elapsed'[k]]
  BY <1>2
<1> QED
  BY <1>1, <1>2, <1>4, <1>5, <1>6, <1>7 DEF AuditInv, From

LEMMA AuditStep == AuditInv /\ [AuditNext]_auditVars => AuditInv'
<1> SUFFICES ASSUME AuditInv, [AuditNext]_auditVars PROVE AuditInv'
  OBVIOUS
<1>1. CASE UNCHANGED auditVars
  <2>1. DefragInv'
    BY <1>1, DefragStep DEF auditVars, defragVars, AuditInv
  <2>2. Recalled'
    BY <1>1 DEF auditVars, AuditInv, Recalled, Buffer, Complete
  <2> QED
    BY <1>1, <2>1, <2>2 DEF auditVars, AuditInv, DeliveredAsSent, From
<1> QED
  BY <1>1, AuditedFragmentKeeps, AuditedEvictionKeeps, AuditedTickKeeps DEF AuditNext

LEMMA AuditInvariant == AuditSpec => []AuditInv
BY AuditInitially, AuditStep, PTL DEF AuditSpec

(* In whatever order, however often and however cut the fragments of one   *)
(* datagram arrive, what is handed over is that datagram.                  *)
THEOREM DatagramsFaithful == AuditSpec => []DeliveredAsSent
<1>1. AuditInv => DeliveredAsSent
  BY DEF AuditInv
<1> QED
  BY <1>1, AuditInvariant, PTL

(* And it is handed over by the time that all its bytes have arrived, if   *)
(* they do so within the timeout: with any number of other datagrams, in   *)
(* a table of any size, and with eviction runs at any time.                *)
THEOREM WholeIsHandedOver == AuditSpec => []HandedOverWhenWhole
BY WholeIsGone, AuditInvariant, PTL
=============================================================================
