--------------------------- MODULE SpscQueueProofs ---------------------------
(***************************************************************************)
(* Proofs about SpscQueue, for every capacity, every counter width and     *)
(* every set of items.                                                     *)
(*                                                                         *)
(* The argument.  Ring arithmetic first: on indices, the wrapping          *)
(* operations are linear with one case split, and two positions less than  *)
(* Capacity apart are in different slots.  Then an inductive invariant in  *)
(* two parts: IndexInv bounds each thread's possibly old view of the       *)
(* other's counter, BufferInv says what the slots between tail and head    *)
(* hold.  Race freedom and the refinement of FifoQueue follow from it.     *)
(***************************************************************************)
EXTENDS SpscQueue, SequenceTheorems, TLAPS

-----------------------------------------------------------------------------
(* Ring arithmetic.                                                        *)

(* A quotient and a remainder in range are the result of div and mod.      *)
LEMMA ModUnique ==
  ASSUME NEW a \in Int, NEW m \in Nat \ {0},
         NEW q \in Int, NEW r \in 0 .. m - 1, a = m * q + r
  PROVE  a % m = r
<1>1. /\ a % m \in 0 .. m - 1
      /\ a \div m \in Int
      /\ a = m * (a \div m) + (a % m)
  OBVIOUS
<1> DEFINE d == q - (a \div m)
<1>2. d \in Int /\ m * d = (a % m) - r
  BY <1>1
<1>3. d = 0
  <2> HIDE DEF d
  <2>1. ~(d >= 1)
    <3>1. d >= 1 => m * d >= m
      BY <1>2
    <3> QED BY <3>1, <1>1, <1>2
  <2>2. ~(d <= -1)
    <3>1. d <= -1 => m * d <= -m
      BY <1>2
    <3> QED BY <3>1, <1>1, <1>2
  <2> QED BY <2>1, <2>2, <1>2
<1> QED BY <1>1, <1>3

(* IndexSpace is a positive multiple of Capacity, at least twice as large. *)
LEMMA IndexSpaceFacts ==
  /\ IndexSpace \in Nat \ {0}
  /\ Capacity \in Nat \ {0, 1}
  /\ \E n \in Nat : n >= 2 /\ IndexSpace = n * Capacity
  /\ IndexSpace > Capacity
<1>1. PICK n \in 2 .. IndexSpace : IndexSpace = n * Capacity
  BY QueueAssumption
<1>2. n \in Nat /\ n >= 2 /\ Capacity >= 2 /\ Capacity \in Nat
  BY QueueAssumption
<1>3. n * Capacity >= 2 * Capacity
  BY <1>2
<1> QED BY <1>1, <1>2, <1>3, QueueAssumption

(* Subtraction of counters, without the modulus.                           *)
LEMMA DistanceValue ==
  ASSUME NEW a \in Index, NEW b \in Index
  PROVE  Distance(a, b) = IF a >= b THEN a - b ELSE a - b + IndexSpace
<1> USE IndexSpaceFacts DEF Index
<1>1. CASE a >= b
  BY <1>1, ModUnique, a - b = IndexSpace * 0 + (a - b) DEF Distance
<1>2. CASE a < b
  BY <1>2, ModUnique, a - b = IndexSpace * (-1) + (a - b + IndexSpace) DEF Distance
<1> QED BY <1>1, <1>2

(* The successor of a counter, without the modulus.                        *)
LEMMA NextValue ==
  ASSUME NEW i \in Index
  PROVE  Next1(i) = IF i = IndexSpace - 1 THEN 0 ELSE i + 1
<1> USE IndexSpaceFacts DEF Index
<1>1. CASE i = IndexSpace - 1
  BY <1>1, ModUnique, i + 1 = IndexSpace * 1 + 0 DEF Next1
<1>2. CASE i < IndexSpace - 1
  BY <1>2, ModUnique, i + 1 = IndexSpace * 0 + (i + 1) DEF Next1
<1> QED BY <1>1, <1>2

(* Distances are at most IndexSpace - 1 and are 0 only between equals.     *)
LEMMA DistanceRange ==
  ASSUME NEW a \in Index, NEW b \in Index
  PROVE  /\ Distance(a, b) \in 0 .. IndexSpace - 1
         /\ Distance(a, b) = 0 <=> a = b
BY DistanceValue, IndexSpaceFacts DEF Index

(* A counter seen earlier splits the distance from the newest one.         *)
LEMMA DistanceSplit ==
  ASSUME NEW a \in Index, NEW b \in Index, NEW c \in Index,
         Distance(b, c) <= Distance(a, c)
  PROVE  Distance(a, b) = Distance(a, c) - Distance(b, c)
BY DistanceValue, IndexSpaceFacts DEF Index

(* Two adjacent distances that fit in the counter add up.                  *)
LEMMA DistanceJoin ==
  ASSUME NEW a \in Index, NEW b \in Index, NEW c \in Index,
         Distance(a, b) + Distance(b, c) < IndexSpace
  PROVE  Distance(a, c) = Distance(a, b) + Distance(b, c)
BY DistanceValue, IndexSpaceFacts DEF Index

(* Advancing the leading counter lengthens a distance by one ...           *)
LEMMA DistanceNext ==
  ASSUME NEW a \in Index, NEW b \in Index, Distance(a, b) < IndexSpace - 1
  PROVE  Next1(a) \in Index /\ Distance(Next1(a), b) = Distance(a, b) + 1
BY DistanceValue, NextValue, IndexSpaceFacts DEF Index

(* ... and advancing the trailing one shortens it.                         *)
LEMMA DistancePrevious ==
  ASSUME NEW a \in Index, NEW b \in Index, a # b
  PROVE  Next1(b) \in Index /\ Distance(a, Next1(b)) = Distance(a, b) - 1
BY DistanceValue, NextValue, IndexSpaceFacts DEF Index

(* A value an acquire load may return lies between what was seen and what  *)
(* is newest.                                                              *)
LEMMA VisibleValue ==
  ASSUME NEW seen \in Index, NEW newest \in Index,
         NEW v \in VisibleSince(seen, newest)
  PROVE  /\ v \in Index
         /\ Distance(v, seen) <= Distance(newest, seen)
<1> USE IndexSpaceFacts DEF Index
<1>1. PICK k \in 0 .. Distance(newest, seen) : v = (seen + k) % IndexSpace
  BY DEF VisibleSince
<1>2. Distance(newest, seen) \in Index
  BY DistanceValue
<1>3. v = IF seen + k < IndexSpace THEN seen + k ELSE seen + k - IndexSpace
  <2>1. k \in 0 .. IndexSpace - 1
    BY <1>2
  <2>2. CASE seen + k < IndexSpace
    BY <1>1, <2>1, <2>2, ModUnique, seen + k = IndexSpace * 0 + (seen + k)
  <2>3. CASE seen + k >= IndexSpace
    BY <1>1, <2>1, <2>3, ModUnique,
       seen + k = IndexSpace * 1 + (seen + k - IndexSpace)
  <2> QED BY <2>2, <2>3, <2>1
<1>4. v \in Index /\ Distance(v, seen) = k
  BY <1>2, <1>3, DistanceValue
<1> QED BY <1>2, <1>4

(* Every position has a slot.                                              *)
LEMMA SlotType ==
  ASSUME NEW a \in Nat
  PROVE  SlotOf(a) \in Slots
BY IndexSpaceFacts DEF SlotOf, Slots

(* Going once around the counter leads to the same slot.                   *)
LEMMA SlotPeriodic ==
  ASSUME NEW a \in Nat
  PROVE  SlotOf(a + IndexSpace) = SlotOf(a)
<1>1. PICK n \in Nat : IndexSpace = n * Capacity
  BY IndexSpaceFacts
<1> DEFINE q == a \div Capacity
           r == a % Capacity
<1>2. q \in Int /\ r \in 0 .. Capacity - 1 /\ a = Capacity * q + r
  BY IndexSpaceFacts
<1>3. a + IndexSpace = Capacity * (q + n) + r
  <2> HIDE DEF q, r
  <2>1. Capacity * (q + n) = Capacity * q + n * Capacity
    BY <1>1, <1>2, IndexSpaceFacts
  <2> QED BY <1>1, <1>2, <2>1, IndexSpaceFacts
<1>4. (a + IndexSpace) % Capacity = r
  <2> HIDE DEF q, r
  <2>1. a + IndexSpace \in Int /\ q + n \in Int
    BY <1>1, <1>2, IndexSpaceFacts
  <2> QED BY <1>2, <1>3, <2>1, ModUnique, IndexSpaceFacts
<1> QED BY <1>4 DEF SlotOf

(* Positions less than Capacity apart are in different slots.              *)
LEMMA SlotDistinct ==
  ASSUME NEW a \in Nat, NEW b \in Nat, a < b, b < a + Capacity
  PROVE  SlotOf(a) # SlotOf(b)
<1> SUFFICES ASSUME SlotOf(a) = SlotOf(b) PROVE FALSE
  OBVIOUS
<1> DEFINE d == (b \div Capacity) - (a \div Capacity)
<1>1. d \in Int /\ Capacity * d = b - a
  BY IndexSpaceFacts DEF SlotOf
<1> HIDE DEF d
<1>2. d >= 1 => Capacity * d >= Capacity
  BY <1>1, IndexSpaceFacts
<1>3. d <= 0 => Capacity * d <= 0
  BY <1>1, IndexSpaceFacts
<1> QED BY <1>1, <1>2, <1>3, IndexSpaceFacts

(* The producer's slot, counted from the consumer's position.              *)
LEMMA HeadSlot ==
  ASSUME NEW h \in Index, NEW t \in Index
  PROVE  SlotOf(h) = SlotOf(t + Distance(h, t))
<1>1. CASE h >= t
  BY <1>1, DistanceValue, t + (h - t) = h, IndexSpaceFacts DEF Index
<1>2. CASE h < t
  <2>1. t + Distance(h, t) = h + IndexSpace
    BY <1>2, DistanceValue, IndexSpaceFacts DEF Index
  <2> QED BY <2>1, SlotPeriodic DEF Index
<1> QED BY <1>1, <1>2 DEF Index

(* The same positions, counted from the successor of the consumer's.       *)
LEMMA NextSlot ==
  ASSUME NEW t \in Index, NEW k \in Nat
  PROVE  SlotOf(Next1(t) + k) = SlotOf(t + 1 + k)
<1>1. CASE t = IndexSpace - 1
  <2>1. Next1(t) + k = k /\ t + 1 + k = k + IndexSpace
    BY <1>1, NextValue, IndexSpaceFacts DEF Index
  <2> QED BY <2>1, SlotPeriodic
<1>2. CASE t # IndexSpace - 1
  BY <1>2, NextValue DEF Index
<1> QED BY <1>1, <1>2
-----------------------------------------------------------------------------
(* Type correctness.                                                       *)

(* The queue's state is well typed for every capacity and counter width.   *)
THEOREM TypeCorrect == Spec => []TypeOK
<1>1. Init => TypeOK
  BY IndexSpaceFacts, SlotType DEF Init, TypeOK, Index
<1>2. TypeOK /\ [Next]_vars => TypeOK'
  <2> SUFFICES ASSUME TypeOK, [Next]_vars PROVE TypeOK'
    OBVIOUS
  <2> USE DEF TypeOK
  <2>1. ASSUME NEW item \in Item, PushLoad(item) PROVE TypeOK'
    BY <2>1, VisibleValue DEF PushLoad, consumerVars
  <2>2. CASE PushReject
    BY <2>2 DEF PushReject, consumerVars
  <2>3. CASE PushBeginWrite
    BY <2>3 DEF PushBeginWrite, consumerVars
  <2>4. CASE PushEndWrite
    BY <2>4 DEF PushEndWrite, consumerVars
  <2>5. CASE PushPublish
    <3>1. Next1(head) \in Index /\ Next1(head) \in Nat
      BY NextValue, IndexSpaceFacts DEF Index
    <3>2. SlotOf(Next1(head)) \in Slots
      BY <3>1, SlotType
    <3> QED BY <2>5, <3>1, <3>2 DEF PushPublish, consumerVars
  <2>6. CASE PopLoad
    BY <2>6, VisibleValue DEF PopLoad, producerVars
  <2>7. CASE PopNothing
    BY <2>7 DEF PopNothing, producerVars
  <2>8. CASE PopBeginRead
    BY <2>8 DEF PopBeginRead, producerVars
  <2>9. CASE PopEndRead
    <3>1. SlotOf(tail) \in Slots
      BY SlotType DEF Index
    <3> QED BY <2>9, <3>1 DEF PopEndRead, producerVars
  <2>10. CASE PopRelease
    <3>1. Next1(tail) \in Index /\ Next1(tail) \in Nat
      BY NextValue, IndexSpaceFacts DEF Index
    <3>2. SlotOf(Next1(tail)) \in Slots
      BY <3>1, SlotType
    <3> QED BY <2>10, <3>1, <3>2 DEF PopRelease, producerVars
  <2>11. CASE UNCHANGED vars
    BY <2>11 DEF vars
  <2> QED
    BY <2>1, <2>2, <2>3, <2>4, <2>5, <2>6, <2>7, <2>8, <2>9, <2>10, <2>11
       DEF Next, Producer, Consumer
<1> QED BY <1>1, <1>2, PTL DEF Spec
-----------------------------------------------------------------------------
(* The views of the two threads.                                           *)

(* Neither thread's view of the other's counter is ever dangerous.         *)
LEMMA IndexInvariant == Spec => []IndexInv
<1> USE DEF IndexInv, Used
<1>1. Init => IndexInv
  BY DistanceValue, IndexSpaceFacts DEF Init, Index
<1>2. TypeOK /\ IndexInv /\ [Next]_vars => IndexInv'
  <2> SUFFICES ASSUME TypeOK, IndexInv, [Next]_vars PROVE IndexInv'
    OBVIOUS
  <2>0. /\ head \in Index /\ tail \in Index
        /\ pushTail \in Index /\ popHead \in Index
    BY DEF TypeOK
  <2>a. Distance(tail, pushTail) <= Distance(head, pushTail)
    BY <2>0, DistanceValue, IndexSpaceFacts DEF Index
  <2>1. ASSUME NEW item \in Item, PushLoad(item) PROVE IndexInv'
    <3>1. /\ pushTail' \in Index
          /\ Distance(pushTail', pushTail) <= Distance(tail, pushTail)
          /\ pushPc' = "loaded"
          /\ UNCHANGED <<head, tail, popPc, popHead>>
      BY <2>0, <2>1, VisibleValue DEF PushLoad, consumerVars
    <3>2. Distance(head, tail) = Distance(head, pushTail) - Distance(tail, pushTail)
      BY <2>0, <2>a, DistanceSplit
    <3>3. Distance(head, pushTail') = Distance(head, pushTail) - Distance(pushTail', pushTail)
      BY <2>0, <2>a, <3>1, <3>2, DistanceSplit, DistanceRange
    <3> QED BY <2>0, <2>a, <3>1, <3>2, <3>3, DistanceRange, IndexSpaceFacts
  <2>2. CASE PushReject
    BY <2>2 DEF PushReject, consumerVars
  <2>3. CASE PushBeginWrite
    <3>1. Distance(head, pushTail) # Capacity /\ Distance(head, pushTail) \in Int
      BY <2>0, <2>3, DistanceValue, IndexSpaceFacts DEF PushBeginWrite, Full, Index
    <3> QED BY <2>3, <3>1, IndexSpaceFacts DEF PushBeginWrite, consumerVars
  <2>4. CASE PushEndWrite
    BY <2>4 DEF PushEndWrite, consumerVars
  <2>5. CASE PushPublish
    <3>1. /\ head' = Next1(head)
          /\ pushPc = "written" /\ pushPc' = "idle"
          /\ UNCHANGED <<tail, pushTail, popPc, popHead>>
      BY <2>5 DEF PushPublish, consumerVars
    <3>2. Distance(head, pushTail) < Capacity
      BY <3>1
    <3>3. /\ Distance(head', tail) = Distance(head, tail) + 1
          /\ Distance(head', pushTail) = Distance(head, pushTail) + 1
      BY <2>0, <3>1, <3>2, DistanceNext, DistanceRange, IndexSpaceFacts
    <3> QED BY <2>0, <3>1, <3>2, <3>3, DistanceRange, IndexSpaceFacts
  <2>6. CASE PopLoad
    <3>1. /\ popHead' \in Index
          /\ Distance(popHead', popHead) <= Distance(head, popHead)
          /\ popPc' = "loaded"
          /\ UNCHANGED <<head, tail, pushPc, pushTail>>
      BY <2>0, <2>6, VisibleValue DEF PopLoad, producerVars
    <3>2. Distance(head, popHead) = Distance(head, tail) - Distance(popHead, tail)
      BY <2>0, DistanceSplit
    <3>3. Distance(popHead', tail) = Distance(popHead', popHead) + Distance(popHead, tail)
      BY <2>0, <3>1, <3>2, DistanceJoin, DistanceRange, IndexSpaceFacts
    <3> QED BY <2>0, <3>1, <3>2, <3>3, DistanceRange, IndexSpaceFacts
  <2>7. CASE PopNothing
    BY <2>7 DEF PopNothing, producerVars
  <2>8. CASE PopBeginRead
    BY <2>8 DEF PopBeginRead, Drained, producerVars
  <2>9. CASE PopEndRead
    BY <2>9 DEF PopEndRead, producerVars
  <2>10. CASE PopRelease
    <3>1. /\ tail' = Next1(tail)
          /\ popPc = "read" /\ popPc' = "idle"
          /\ UNCHANGED <<head, pushPc, pushTail, popHead>>
      BY <2>10 DEF PopRelease, producerVars
    <3>2. popHead # tail
      BY <3>1
    <3>3. head # tail
      BY <2>0, <3>2, DistanceRange
    <3>4. /\ Distance(popHead, tail') = Distance(popHead, tail) - 1
          /\ Distance(head, tail') = Distance(head, tail) - 1
      BY <2>0, <3>1, <3>2, <3>3, DistancePrevious
    <3> QED BY <2>0, <3>1, <3>4, DistanceRange, IndexSpaceFacts
  <2>11. CASE UNCHANGED vars
    BY <2>11 DEF vars
  <2> QED
    BY <2>1, <2>2, <2>3, <2>4, <2>5, <2>6, <2>7, <2>8, <2>9, <2>10, <2>11
       DEF Next, Producer, Consumer
<1> QED BY <1>1, <1>2, TypeCorrect, PTL DEF Spec

(* The slot being written and the slot being read are never the same: the  *)
(* queue has no data race.                                                 *)
THEOREM RaceFreedom == Spec => []NoDataRace
<1>1. TypeOK /\ IndexInv => NoDataRace
  <2> SUFFICES ASSUME TypeOK, IndexInv, pushPc = "writing", popPc = "reading"
               PROVE  SlotOf(head) # SlotOf(tail)
    BY DEF NoDataRace
  <2>0. head \in Index /\ tail \in Index /\ popHead \in Index /\ pushTail \in Index
    BY DEF TypeOK
  <2>1. /\ Distance(head, tail) \in Nat
        /\ Distance(head, tail) < Capacity
        /\ Distance(head, tail) > 0
    BY <2>0, DistanceValue, IndexSpaceFacts DEF IndexInv, Used, Index
  <2>2. SlotOf(tail) # SlotOf(tail + Distance(head, tail))
    BY <2>0, <2>1, SlotDistinct, IndexSpaceFacts DEF Index
  <2> QED BY <2>0, <2>2, HeadSlot
<1> QED BY <1>1, TypeCorrect, IndexInvariant, PTL
-----------------------------------------------------------------------------
(* What the slots hold.                                                    *)

(* While a push is being written, its slot is none of the published ones.  *)
LEMMA WriterSlotApart ==
  ASSUME TypeOK, IndexInv, pushPc \in {"loaded", "writing", "written"},
         Distance(head, pushTail) < Capacity
  PROVE  /\ SlotOf(head) \in Slots
         /\ \A k \in 0 .. Used - 1 : SlotOf(tail + k) # SlotOf(head)
<1>1. head \in Index /\ tail \in Index /\ pushTail \in Index
  BY DEF TypeOK
<1>2. Used \in Nat /\ Used < Capacity
  BY <1>1, DistanceRange, IndexSpaceFacts DEF IndexInv, Used
<1>3. ASSUME NEW k \in 0 .. Used - 1
      PROVE  SlotOf(tail + k) # SlotOf(tail + Used)
  BY <1>1, <1>2, SlotDistinct, IndexSpaceFacts DEF Index
<1>4. SlotOf(head) = SlotOf(tail + Used)
  BY <1>1, HeadSlot DEF Used
<1> QED BY <1>1, <1>3, <1>4, SlotType DEF Index

(* Every published slot holds an item that was pushed.                     *)
LEMMA BufferInvariant == Spec => []BufferInv
<1>1. Init => BufferInv
  <2> SUFFICES ASSUME Init PROVE BufferInv
    OBVIOUS
  <2>1. Used = 0
    BY DistanceRange, IndexSpaceFacts DEF Init, Used, Index
  <2> QED BY <2>1 DEF Init, BufferInv
<1>2. TypeOK /\ IndexInv /\ BufferInv /\ [Next]_vars => BufferInv'
  <2> SUFFICES ASSUME TypeOK, IndexInv, BufferInv, [Next]_vars
               PROVE  BufferInv'
    OBVIOUS
  <2>0. /\ head \in Index /\ tail \in Index
        /\ pushTail \in Index /\ popHead \in Index
        /\ Used \in 0 .. IndexSpace - 1
        /\ SlotOf(head) \in Slots
        /\ DOMAIN buffer = Slots
    BY DistanceRange, SlotType DEF TypeOK, Used, Index
  <2>u. UNCHANGED <<head, tail>> => Used' = Used
    BY DEF Used
  <2>1. ASSUME NEW item \in Item, PushLoad(item) PROVE BufferInv'
    BY <2>1, <2>u DEF PushLoad, consumerVars, BufferInv
  <2>2. CASE PushReject
    BY <2>2, <2>u DEF PushReject, consumerVars, BufferInv
  <2>3. CASE PushBeginWrite
    <3>1. Distance(head, pushTail) < Capacity /\ pushPc = "loaded"
      BY <2>0, <2>3, DistanceRange, IndexSpaceFacts
         DEF PushBeginWrite, Full, IndexInv
    <3>2. \A k \in 0 .. Used - 1 : SlotOf(tail + k) # SlotOf(head)
      BY <3>1, WriterSlotApart
    <3> QED BY <2>0, <2>u, <2>3, <3>2 DEF PushBeginWrite, consumerVars, BufferInv
  <2>4. CASE PushEndWrite
    <3>1. Distance(head, pushTail) < Capacity /\ pushPc = "writing"
      BY <2>4 DEF PushEndWrite, IndexInv
    <3>2. \A k \in 0 .. Used - 1 : SlotOf(tail + k) # SlotOf(head)
      BY <3>1, WriterSlotApart
    <3> QED BY <2>0, <2>u, <2>4, <3>2 DEF PushEndWrite, consumerVars, BufferInv
  <2>5. CASE PushPublish
    <3>1. /\ pushPc = "written" /\ pushPc' = "idle" /\ head' = Next1(head)
          /\ UNCHANGED <<buffer, tail>>
      BY <2>5 DEF PushPublish, consumerVars
    <3>2. Used' = Used + 1
      <4>1. Used < Capacity
        BY <2>0, <3>1, DistanceRange, IndexSpaceFacts DEF IndexInv
      <4> QED BY <2>0, <3>1, <4>1, DistanceNext, IndexSpaceFacts DEF Used
    <3>3. buffer[SlotOf(tail + Used)] \in Item
      <4>1. SlotOf(head) = SlotOf(tail + Used)
        BY <2>0, HeadSlot DEF Used
      <4>2. buffer[SlotOf(head)] \in Item
        BY <3>1 DEF BufferInv
      <4> QED BY <4>1, <4>2
    <3>4. ASSUME NEW k \in 0 .. Used' - 1
          PROVE  (buffer[SlotOf(tail + k)])' \in Item
      <4>1. k \in 0 .. Used - 1 \/ k = Used
        BY <2>0, <3>2
      <4>2. CASE k \in 0 .. Used - 1
        BY <3>1, <4>2 DEF BufferInv
      <4>3. CASE k = Used
        BY <3>1, <3>3, <4>3
      <4> QED BY <4>1, <4>2, <4>3
    <3> QED BY <3>1, <3>4 DEF BufferInv
  <2>6. CASE PopLoad
    BY <2>6, <2>u DEF PopLoad, producerVars, BufferInv
  <2>7. CASE PopNothing
    BY <2>7, <2>u DEF PopNothing, producerVars, BufferInv
  <2>8. CASE PopBeginRead
    BY <2>8, <2>u DEF PopBeginRead, producerVars, BufferInv
  <2>9. CASE PopEndRead
    BY <2>9, <2>u DEF PopEndRead, producerVars, BufferInv
  <2>10. CASE PopRelease
    <3>1. /\ popPc = "read" /\ tail' = Next1(tail)
          /\ UNCHANGED <<head, buffer, pushPc, pushItem>>
      BY <2>10 DEF PopRelease, producerVars
    <3>2. Used' = Used - 1
      <4>1. head # tail
        BY <2>0, <3>1, DistanceRange DEF IndexInv, Used
      <4> QED BY <2>0, <3>1, <4>1, DistancePrevious DEF Used
    <3>3. ASSUME NEW k \in 0 .. Used' - 1
          PROVE  (buffer[SlotOf(tail + k)])' \in Item
      <4>1. k + 1 \in 0 .. Used - 1 /\ k \in Nat
        BY <2>0, <3>2
      <4>2. SlotOf(tail' + k) = SlotOf(tail + (k + 1))
        BY <2>0, <3>1, <4>1, NextSlot, tail + 1 + k = tail + (k + 1) DEF Index
      <4> QED BY <3>1, <4>1, <4>2 DEF BufferInv
    <3> QED BY <3>1, <3>3 DEF BufferInv
  <2>11. CASE UNCHANGED vars
    BY <2>11, <2>u DEF vars, BufferInv
  <2> QED
    BY <2>1, <2>2, <2>3, <2>4, <2>5, <2>6, <2>7, <2>8, <2>9, <2>10, <2>11
       DEF Next, Producer, Consumer
<1> QED BY <1>1, <1>2, TypeCorrect, IndexInvariant, PTL DEF Spec

(* An old view of the other thread's counter never lets a push overwrite   *)
(* an item or a pop read a slot that was not completely written.           *)
THEOREM StaleViewSafety == Spec => []StaleViewsAreSafe
<1>1. TypeOK /\ IndexInv /\ BufferInv => StaleViewsAreSafe
  <2> SUFFICES ASSUME TypeOK, IndexInv, BufferInv PROVE StaleViewsAreSafe
    OBVIOUS
  <2>0. /\ head \in Index /\ tail \in Index
        /\ pushTail \in Index /\ popHead \in Index
    BY DEF TypeOK
  <2>1. pushPc \in {"writing", "written"} => Used < Capacity
    BY <2>0, DistanceRange, IndexSpaceFacts DEF IndexInv, Used
  <2>2. popPc \in {"reading", "read"} => Used > 0
    BY <2>0, DistanceRange DEF IndexInv, Used
  <2>3. popPc = "reading" => buffer[SlotOf(tail)] # Junk
    <3>1. popPc = "reading" => buffer[SlotOf(tail + 0)] \in Item
      BY <2>0, <2>2, DistanceRange DEF BufferInv, Used
    <3> QED BY <2>0, <3>1, QueueAssumption, tail + 0 = tail DEF Index
  <2> QED BY <2>1, <2>2, <2>3 DEF StaleViewsAreSafe
<1> QED BY <1>1, TypeCorrect, IndexInvariant, BufferInvariant, PTL
-----------------------------------------------------------------------------
(* The two threads implement a bounded FIFO queue.                         *)

(* The abstract queue's length and elements in terms of the ring.          *)
Skip == IF popPc = "read" THEN 1 ELSE 0

(* The abstract queue is a sequence of Used - Skip items.                  *)
LEMMA ContentsFacts ==
  ASSUME TypeOK, IndexInv
  PROVE  /\ Used \in Nat /\ Skip \in {0, 1} /\ Used - Skip \in Nat
         /\ Contents = [k \in 1 .. Used - Skip |-> buffer[SlotOf(tail + Skip + k - 1)]]
         /\ Contents \in Seq(Item \cup {Junk})
         /\ Len(Contents) = Used - Skip
<1>0. /\ head \in Index /\ tail \in Index /\ popHead \in Index
      /\ buffer \in [Slots -> Item \cup {Junk}]
  BY DEF TypeOK
<1>1. Used \in Nat /\ Skip \in {0, 1} /\ Used - Skip \in Nat
  BY <1>0, DistanceRange DEF IndexInv, Used, Skip
<1>2. Contents = [k \in 1 .. Used - Skip |-> buffer[SlotOf(tail + Skip + k - 1)]]
  BY DEF Contents, Skip
<1>3. ASSUME NEW k \in 1 .. Used - Skip
      PROVE  buffer[SlotOf(tail + Skip + k - 1)] \in Item \cup {Junk}
  <2>1. tail + Skip + k - 1 \in Nat
    BY <1>0, <1>1 DEF Index
  <2> QED BY <1>0, <2>1, SlotType
<1>4. Contents \in Seq(Item \cup {Junk}) /\ Len(Contents) = Used - Skip
  <2>1. Contents \in [1 .. Used - Skip -> Item \cup {Junk}]
    BY <1>2, <1>3
  <2> QED BY <1>1, <2>1, SeqDef, LenProperties
<1> QED BY <1>1, <1>2, <1>4

(* Appending to a sequence, written as a function.                         *)
LEMMA AppendAsFunction ==
  ASSUME NEW S, NEW s \in Seq(S), NEW x \in S, NEW n \in Nat, Len(s) = n
  PROVE  Append(s, x) = [k \in 1 .. n + 1 |-> IF k \in 1 .. n THEN s[k] ELSE x]
<1> DEFINE f == [k \in 1 .. n + 1 |-> IF k \in 1 .. n THEN s[k] ELSE x]
<1>1. f \in Seq(S) /\ Len(f) = n + 1
  <2>1. f \in [1 .. n + 1 -> S]
    BY ElementOfSeq
  <2> QED BY <2>1, SeqDef, LenProperties
<1>2. Append(s, x) \in Seq(S) /\ Len(Append(s, x)) = n + 1
  BY AppendProperties
<1>3. \A k \in 1 .. n + 1 : Append(s, x)[k] = f[k]
  BY AppendProperties
<1> QED BY <1>1, <1>2, <1>3, SeqEqual

(* A step that leaves the counters, the published slots and the reader's   *)
(* progress alone does not change the abstract queue.                      *)
LEMMA ContentsUnchanged ==
  ASSUME TypeOK, IndexInv, UNCHANGED <<head, tail>>,
         (popPc' = "read") <=> (popPc = "read"),
         \A k \in 0 .. Used - 1 : buffer'[SlotOf(tail + k)] = buffer[SlotOf(tail + k)]
  PROVE  Contents' = Contents
<1>1. Used' = Used /\ Skip' = Skip
  BY DEF Used, Skip
<1>2. Used \in Nat /\ Skip \in {0, 1} /\ tail \in Nat
  BY ContentsFacts DEF TypeOK, Index
<1>3. ASSUME NEW k \in 1 .. Used - Skip
      PROVE  buffer'[SlotOf(tail + Skip + k - 1)] = buffer[SlotOf(tail + Skip + k - 1)]
  <2>1. Skip + k - 1 \in 0 .. Used - 1 /\ tail + Skip + k - 1 = tail + (Skip + k - 1)
    BY <1>2
  <2> QED BY <2>1
<1>4. Contents' = [k \in 1 .. Used - Skip |-> buffer'[SlotOf(tail + Skip + k - 1)]]
  BY <1>1 DEF Contents, Skip
<1> QED BY <1>3, <1>4 DEF Contents, Skip

(* Every behaviour of the producer and the consumer, with whatever old     *)
(* values their loads return, is a behaviour of a bounded FIFO queue.      *)
THEOREM Refinement == Spec => ImplementsFifo
<1>1. Init => Fifo!Init
  <2> SUFFICES ASSUME Init PROVE Contents = <<>> /\ popItem = Junk
    BY DEF Fifo!Init
  <2>1. Used = 0 /\ popPc = "idle"
    BY DistanceRange, IndexSpaceFacts DEF Init, Used, Index
  <2> QED BY <2>1 DEF Contents, Init
<1>2. /\ TypeOK /\ IndexInv /\ BufferInv
      /\ TypeOK' /\ IndexInv'
      /\ [Next]_vars
      => [Fifo!Next]_(Fifo!vars)
  <2> SUFFICES ASSUME TypeOK, IndexInv, BufferInv, TypeOK', IndexInv', [Next]_vars
               PROVE  Fifo!Next \/ UNCHANGED <<Contents, popItem>>
    BY DEF Fifo!vars
  <2>0. /\ head \in Index /\ tail \in Index
        /\ pushTail \in Index /\ popHead \in Index
        /\ Used \in 0 .. IndexSpace - 1
        /\ SlotOf(head) \in Slots
        /\ DOMAIN buffer = Slots
        /\ tail \in Nat
    BY DistanceRange, SlotType DEF TypeOK, Used, Index
  <2> USE DEF Fifo!Next, Fifo!Push, Fifo!Pop
  <2>1. ASSUME NEW item \in Item, PushLoad(item) PROVE UNCHANGED <<Contents, popItem>>
    BY <2>1, ContentsUnchanged DEF PushLoad, consumerVars
  <2>2. CASE PushReject
    BY <2>2, ContentsUnchanged DEF PushReject, consumerVars
  <2>3. CASE PushBeginWrite
    <3>1. Distance(head, pushTail) < Capacity /\ pushPc = "loaded"
      BY <2>0, <2>3, DistanceRange, IndexSpaceFacts
         DEF PushBeginWrite, Full, IndexInv
    <3>2. \A k \in 0 .. Used - 1 : SlotOf(tail + k) # SlotOf(head)
      BY <3>1, WriterSlotApart
    <3> QED BY <2>3, <3>2, ContentsUnchanged DEF PushBeginWrite, consumerVars
  <2>4. CASE PushEndWrite
    <3>1. Distance(head, pushTail) < Capacity /\ pushPc = "writing"
      BY <2>4 DEF PushEndWrite, IndexInv
    <3>2. \A k \in 0 .. Used - 1 : SlotOf(tail + k) # SlotOf(head)
      BY <3>1, WriterSlotApart
    <3> QED BY <2>4, <3>2, ContentsUnchanged DEF PushEndWrite, consumerVars
  <2>5. CASE PushPublish
    <3>1. /\ pushPc = "written" /\ head' = Next1(head)
          /\ UNCHANGED <<buffer, tail, popPc, popItem>>
      BY <2>5 DEF PushPublish, consumerVars
    <3>2. Used < Capacity /\ Used' = Used + 1 /\ Skip' = Skip
      <4>1. Used < Capacity
        BY <2>0, <3>1, DistanceRange, IndexSpaceFacts DEF IndexInv
      <4> QED BY <2>0, <3>1, <4>1, DistanceNext, IndexSpaceFacts DEF Used, Skip
    <3>3. /\ pushItem \in Item
          /\ buffer[SlotOf(tail + Used)] = pushItem
      <4>1. SlotOf(head) = SlotOf(tail + Used)
        BY <2>0, HeadSlot DEF Used
      <4> QED BY <3>1, <4>1 DEF BufferInv
    <3>4. Contents' = Append(Contents, pushItem)
      <4>1. Used \in Nat /\ Skip \in {0, 1} /\ Used - Skip \in Nat
        BY ContentsFacts
      <4>2. Contents' = [k \in 1 .. (Used - Skip) + 1 |-> buffer[SlotOf(tail + Skip + k - 1)]]
        <5>1. Used' - Skip' = (Used - Skip) + 1
          BY <3>2, <4>1
        <5> QED BY <3>1, <3>2, <5>1 DEF Contents, Skip
      <4>3. tail + Skip + ((Used - Skip) + 1) - 1 = tail + Used
        BY <2>0, <4>1
      <4>4. Contents \in Seq(Item \cup {Junk}) /\ Len(Contents) = Used - Skip
        BY ContentsFacts
      <4>5. Contents = [k \in 1 .. Used - Skip |-> buffer[SlotOf(tail + Skip + k - 1)]]
        BY ContentsFacts
      <4>6. Append(Contents, pushItem) =
              [k \in 1 .. (Used - Skip) + 1 |->
                 IF k \in 1 .. Used - Skip THEN Contents[k] ELSE pushItem]
        BY <4>1, <4>4, <3>3, AppendAsFunction
      <4>7. ASSUME NEW k \in 1 .. (Used - Skip) + 1
            PROVE  buffer[SlotOf(tail + Skip + k - 1)] =
                     IF k \in 1 .. Used - Skip THEN Contents[k] ELSE pushItem
        <5>1. CASE k \in 1 .. Used - Skip
          BY <4>5, <5>1
        <5>2. CASE k = (Used - Skip) + 1
          <6>1. k \notin 1 .. Used - Skip
            BY <4>1, <5>2
          <6> QED BY <3>3, <4>3, <5>2, <6>1
        <5> QED BY <4>1, <5>1, <5>2
      <4> QED BY <4>2, <4>6, <4>7
    <3>5. Len(Contents) < Capacity
      BY <2>0, <3>2, ContentsFacts, IndexSpaceFacts
    <3> QED BY <3>1, <3>3, <3>4, <3>5
  <2>6. CASE PopLoad
    BY <2>6, ContentsUnchanged DEF PopLoad, producerVars
  <2>7. CASE PopNothing
    BY <2>7, ContentsUnchanged DEF PopNothing, producerVars
  <2>8. CASE PopBeginRead
    BY <2>8, ContentsUnchanged DEF PopBeginRead, producerVars
  <2>9. CASE PopEndRead
    <3>1. /\ popPc = "reading" /\ popPc' = "read"
          /\ popItem' = buffer[SlotOf(tail)]
          /\ UNCHANGED <<head, tail, buffer>>
      BY <2>9 DEF PopEndRead, producerVars
    <3>2. Used > 0 /\ Used' = Used /\ Skip = 0 /\ Skip' = 1
      <4>1. popHead # tail
        BY <3>1 DEF IndexInv
      <4> QED BY <2>0, <3>1, <4>1, DistanceRange DEF IndexInv, Used, Skip
    <3>3. /\ Contents = [k \in 1 .. Used |-> buffer[SlotOf(tail + k - 1)]]
          /\ Contents \in Seq(Item \cup {Junk})
          /\ Len(Contents) = Used
      BY <2>0, <3>2, ContentsFacts
    <3>4. Contents # <<>> /\ Head(Contents) = buffer[SlotOf(tail)]
      <4>1. Contents[1] = buffer[SlotOf(tail)]
        BY <2>0, <3>2, <3>3, tail + 1 - 1 = tail
      <4> QED BY <2>0, <3>2, <3>3, <4>1, HeadTailProperties, EmptySeq
    <3>5. Contents' = Tail(Contents)
      <4>1. Contents' = [k \in 1 .. Used - 1 |-> buffer[SlotOf(tail + k)]]
        <5>1. Contents' = [k \in 1 .. Used - 1 |-> buffer[SlotOf(tail + 1 + k - 1)]]
          BY <3>1, <3>2 DEF Contents
        <5>2. \A k \in 1 .. Used - 1 : tail + 1 + k - 1 = tail + k
          BY <2>0
        <5> QED BY <5>1, <5>2
      <4>2. Tail(Contents) = [k \in 1 .. Used - 1 |-> Contents[k + 1]]
        BY <2>0, <3>2, <3>3
      <4>3. ASSUME NEW k \in 1 .. Used - 1
            PROVE  Contents[k + 1] = buffer[SlotOf(tail + k)]
        <5>1. k + 1 \in 1 .. Used /\ tail + (k + 1) - 1 = tail + k
          BY <2>0
        <5> QED BY <3>3, <5>1
      <4> QED BY <4>1, <4>2, <4>3
    <3> QED BY <3>1, <3>4, <3>5
  <2>10. CASE PopRelease
    <3>1. /\ popPc = "read" /\ popPc' = "idle" /\ tail' = Next1(tail)
          /\ UNCHANGED <<head, buffer, popItem>>
      BY <2>10 DEF PopRelease, producerVars
    <3>2. Used > 0 /\ Used' = Used - 1 /\ Skip = 1 /\ Skip' = 0
      <4>1. head # tail /\ Used > 0
        BY <2>0, <3>1, DistanceRange DEF IndexInv, Used
      <4> QED BY <2>0, <3>1, <4>1, DistancePrevious DEF Used, Skip
    <3>3. Contents = [k \in 1 .. Used - 1 |-> buffer[SlotOf(tail + 1 + k - 1)]]
      BY <3>1, <3>2 DEF Contents
    <3>4. Contents' = [k \in 1 .. Used - 1 |-> buffer[SlotOf(tail' + 0 + k - 1)]]
      <4>1. Used' - 0 = Used - 1
        BY <2>0, <3>2
      <4> QED BY <3>1, <4>1 DEF Contents
    <3>5. ASSUME NEW k \in 1 .. Used - 1
          PROVE  SlotOf(tail' + 0 + k - 1) = SlotOf(tail + 1 + k - 1)
      <4>1. k - 1 \in Nat
        BY <2>0
      <4>2. SlotOf(Next1(tail) + (k - 1)) = SlotOf(tail + 1 + (k - 1))
        BY <2>0, <4>1, NextSlot
      <4>3. /\ Next1(tail) \in Nat
            /\ Next1(tail) + 0 + k - 1 = Next1(tail) + (k - 1)
            /\ tail + 1 + k - 1 = tail + 1 + (k - 1)
        BY <2>0, <4>1, NextValue DEF Index
      <4> QED BY <3>1, <4>2, <4>3
    <3> QED BY <3>1, <3>3, <3>4, <3>5
  <2>11. CASE UNCHANGED vars
    BY <2>11, ContentsUnchanged DEF vars
  <2> QED
    BY <2>1, <2>2, <2>3, <2>4, <2>5, <2>6, <2>7, <2>8, <2>9, <2>10, <2>11
       DEF Next, Producer, Consumer
<1> QED
  BY <1>1, <1>2, TypeCorrect, IndexInvariant, BufferInvariant, PTL
     DEF Spec, ImplementsFifo, Fifo!Spec
=============================================================================
