------------------------------ MODULE FifoQueue ------------------------------
(***************************************************************************)
(* What the class LockFreeQueue (include/thread_safe_queue.h) promises its *)
(* two users: a bounded first-in first-out queue between one producer and  *)
(* one consumer.  A push that finds no room and a pop that finds nothing   *)
(* return false and change nothing, so here they are stuttering steps.     *)
(***************************************************************************)
EXTENDS Naturals, Sequences

CONSTANTS
  Item,      (* what a push may be given: the ParsedPackets                *)
  Capacity,  (* the number of elements the queue holds                     *)
  Unset      (* what the caller's variable holds before the first pop      *)

VARIABLES
  queue,     (* the items accepted and not yet taken, oldest first         *)
  taken      (* the caller's variable that the last pop assigned           *)

vars == <<queue, taken>>

Init ==
  /\ queue = <<>>
  /\ taken = Unset

(* A successful push.                                                      *)
Push(item) ==
  /\ Len(queue) < Capacity
  /\ queue' = Append(queue, item)
  /\ UNCHANGED taken

(* A successful pop.                                                       *)
Pop ==
  /\ queue # <<>>
  /\ taken' = Head(queue)
  /\ queue' = Tail(queue)

Next ==
  \/ \E item \in Item : Push(item)
  \/ Pop

Spec == Init /\ [][Next]_vars
=============================================================================
