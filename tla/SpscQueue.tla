------------------------------ MODULE SpscQueue ------------------------------
(***************************************************************************)
(* The class LockFreeQueue of include/thread_safe_queue.h: a ring buffer   *)
(* shared by one producer (the ingestion thread, in push) and one consumer *)
(* (a worker thread, in pop), synchronised only by two atomic counters.    *)
(*                                                                         *)
(* Granularity.  Each atomic load and store of the other thread's counter  *)
(* is a step of its own, and the copy of an item into or out of a slot     *)
(* takes two steps, so a data race is a reachable state and an overlapped  *)
(* copy can be observed.  The relaxed load of a thread's own counter reads *)
(* what that thread last stored and is part of the following step.         *)
(*                                                                         *)
(* Memory order.  An acquire load need not return the newest value: it may *)
(* return any value the counter has held since the value this thread saw   *)
(* last.  PushLoad and PopLoad choose among all of them.                   *)
(*                                                                         *)
(* The counters are size_t and wrap: they live in 0..IndexSpace-1.         *)
(***************************************************************************)
EXTENDS Integers, Sequences

CONSTANTS
  Item,        (* the values pushed                                        *)
  Junk,        (* a slot that was never written or is being written        *)
  Capacity,    (* capacity_, the number of slots                           *)
  IndexSpace   (* 2^64 in the code: the number of values of a size_t       *)

(* The constructor throws unless capacity is a power of two of at least 2; *)
(* then it divides 2^64, and that is all the algorithm depends on.         *)
ASSUME QueueAssumption ==
  /\ Capacity \in Nat \ {0, 1}
  /\ IndexSpace \in Nat
  /\ \E n \in 2 .. IndexSpace : IndexSpace = n * Capacity
  /\ Junk \notin Item

Index == 0 .. IndexSpace - 1
Slots == 0 .. Capacity - 1

VARIABLES
  head,      (* head_: where the producer writes next                      *)
  tail,      (* tail_: where the consumer reads next                       *)
  buffer,    (* buffer_                                                    *)
  pushPc,    (* where the producer is in push                              *)
  pushItem,  (* push's argument                                            *)
  pushTail,  (* push's current_tail: the tail_ the producer saw last       *)
  popPc,     (* where the consumer is in pop                               *)
  popHead,   (* pop's current_head: the head_ the consumer saw last        *)
  popItem    (* pop's out parameter, a variable of the consumer            *)

producerVars == <<head, pushPc, pushItem, pushTail>>
consumerVars == <<tail, popPc, popHead, popItem>>
vars == <<head, tail, buffer, pushPc, pushItem, pushTail, popPc, popHead, popItem>>

(* size_t arithmetic: a - b and a + 1 modulo 2^64, and i & mask_.          *)
Distance(a, b) == (a - b) % IndexSpace
Next1(i) == (i + 1) % IndexSpace
SlotOfUnmasked(i) == i  (* faulty: buffer_[current_head], without mask_ *)
SlotOf(i) == i % Capacity

(* The values an acquire load may return when the counter is now at newest *)
(* and this thread has seen it at seen: any value in between.              *)
VisibleSince(seen, newest) ==
  {(seen + k) % IndexSpace : k \in 0 .. Distance(newest, seen)}

(* The two counters run far past the end of buffer_, but what they index   *)
(* is always within it.                                                    *)
TypeOK ==
  /\ head \in Index /\ SlotOf(head) \in Slots
  /\ tail \in Index /\ SlotOf(tail) \in Slots
  /\ buffer \in [Slots -> Item \cup {Junk}]
  /\ pushPc \in {"idle", "loaded", "writing", "written"}
  /\ pushItem \in Item \cup {Junk}
  /\ pushTail \in Index
  /\ popPc \in {"idle", "loaded", "reading", "read"}
  /\ popHead \in Index
  /\ popItem \in Item \cup {Junk}

Init ==
  /\ head = 0
  /\ tail = 0
  /\ buffer = [s \in Slots |-> Junk]
  /\ pushPc = "idle"
  /\ pushItem = Junk
  /\ pushTail = 0
  /\ popPc = "idle"
  /\ popHead = 0
  /\ popItem = Junk
-----------------------------------------------------------------------------
(* bool push(const T& item), by the producer.                              *)

(* faulty: lets in one item too many *)
FullTooLate == Distance(head, pushTail) > Capacity
Full == Distance(head, pushTail) = Capacity

PushLoad(item) ==
  /\ pushPc = "idle"
  /\ pushPc' = "loaded"
  /\ pushItem' = item
  /\ pushTail' \in VisibleSince(pushTail, tail)
  /\ UNCHANGED <<head, buffer, consumerVars>>

PushReject ==
  /\ pushPc = "loaded"
  /\ Full
  /\ pushPc' = "idle"
  /\ UNCHANGED <<head, buffer, pushItem, pushTail, consumerVars>>

(* faulty: publishes the slot before it is written *)
PushPublishFirst ==
  /\ pushPc = "loaded"
  /\ ~Full
  /\ pushPc' = "writing"
  /\ buffer' = [buffer EXCEPT ![SlotOf(head)] = Junk]
  /\ head' = Next1(head)
  /\ UNCHANGED <<pushItem, pushTail, consumerVars>>

PushBeginWrite ==
  /\ pushPc = "loaded"
  /\ ~Full
  /\ pushPc' = "writing"
  /\ buffer' = [buffer EXCEPT ![SlotOf(head)] = Junk]
  /\ UNCHANGED <<head, pushItem, pushTail, consumerVars>>

PushEndWrite ==
  /\ pushPc = "writing"
  /\ pushPc' = "written"
  /\ buffer' = [buffer EXCEPT ![SlotOf(head)] = pushItem]
  /\ UNCHANGED <<head, pushItem, pushTail, consumerVars>>

PushPublish ==
  /\ pushPc = "written"
  /\ pushPc' = "idle"
  /\ head' = Next1(head)
  /\ UNCHANGED <<buffer, pushItem, pushTail, consumerVars>>

Producer ==
  \/ \E item \in Item : PushLoad(item)
  \/ PushReject
  \/ PushBeginWrite
  \/ PushEndWrite
  \/ PushPublish
-----------------------------------------------------------------------------
(* bool pop(T& item), by the consumer.                                     *)

Drained == popHead = tail

PopLoad ==
  /\ popPc = "idle"
  /\ popPc' = "loaded"
  /\ popHead' \in VisibleSince(popHead, head)
  /\ UNCHANGED <<tail, popItem, buffer, producerVars>>

PopNothing ==
  /\ popPc = "loaded"
  /\ Drained
  /\ popPc' = "idle"
  /\ UNCHANGED <<tail, popHead, popItem, buffer, producerVars>>

PopBeginRead ==
  /\ popPc = "loaded"
  /\ ~Drained
  /\ popPc' = "reading"
  /\ UNCHANGED <<tail, popHead, popItem, buffer, producerVars>>

PopEndRead ==
  /\ popPc = "reading"
  /\ popPc' = "read"
  /\ popItem' = buffer[SlotOf(tail)]
  /\ UNCHANGED <<tail, popHead, buffer, producerVars>>

(* faulty: releases every slot seen, not only the one read *)
PopReleaseSeen ==
  /\ popPc = "read"
  /\ popPc' = "idle"
  /\ tail' = popHead
  /\ UNCHANGED <<popHead, popItem, buffer, producerVars>>

PopRelease ==
  /\ popPc = "read"
  /\ popPc' = "idle"
  /\ tail' = Next1(tail)
  /\ UNCHANGED <<popHead, popItem, buffer, producerVars>>

Consumer ==
  \/ PopLoad
  \/ PopNothing
  \/ PopBeginRead
  \/ PopEndRead
  \/ PopRelease
-----------------------------------------------------------------------------
Next == Producer \/ Consumer

Spec == Init /\ [][Next]_vars
-----------------------------------------------------------------------------
(* The number of elements published and not yet released.                  *)
Used == Distance(head, tail)

(* thread_safe_queue.h:77 ("Ensure we finish reading the item BEFORE we    *)
(* update the tail and tell the Producer the slot is free"): the producer  *)
(* is never writing the slot that the consumer is reading.                 *)
NoDataRace ==
  ~ /\ pushPc = "writing"
    /\ popPc = "reading"
    /\ SlotOf(head) = SlotOf(tail)

(* The full test of push and the empty test of pop use a counter value     *)
(* that may be old.  They may still only err on the safe side: a push that *)
(* was let in has a free slot, a pop that was let in has an item, and a    *)
(* reader never sees a slot that was not completely written.               *)
StaleViewsAreSafe ==
  /\ pushPc \in {"writing", "written"} => Used < Capacity
  /\ popPc \in {"reading", "read"} => Used > 0
  /\ popPc = "reading" => buffer[SlotOf(tail)] # Junk

(* The inductive invariant behind these (proved in SpscQueueProofs).  The   *)
(* values a thread has seen lag behind the counters by at most what keeps  *)
(* the two threads apart.                                                  *)
IndexInv ==
  /\ Used <= Capacity
  /\ Used <= Distance(head, pushTail)
  /\ Distance(head, pushTail) <= Capacity
  /\ pushPc \in {"writing", "written"} => Distance(head, pushTail) < Capacity
  /\ Distance(popHead, tail) <= Used
  /\ popPc \in {"reading", "read"} => popHead # tail

(* Published slots hold items.                                             *)
BufferInv ==
  /\ \A k \in 0 .. Used - 1 : buffer[SlotOf(tail + k)] \in Item
  /\ pushPc # "idle" => pushItem \in Item
  /\ pushPc = "written" => buffer[SlotOf(head)] = pushItem

(* The queue that the two threads implement.  A push takes effect when it  *)
(* publishes head_, a pop when it has copied the item.                     *)
Contents ==
  LET skip == IF popPc = "read" THEN 1 ELSE 0
  IN  [k \in 1 .. Used - skip |-> buffer[SlotOf(tail + skip + k - 1)]]

Fifo == INSTANCE FifoQueue WITH queue <- Contents, taken <- popItem, Unset <- Junk

(* Every behaviour of the two threads is one of a bounded FIFO queue: no   *)
(* item is lost, duplicated, reordered or torn, and never more than        *)
(* Capacity are held.                                                      *)
ImplementsFifo == Fifo!Spec
=============================================================================
