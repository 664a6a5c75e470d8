--------------------------- MODULE IpDefragmenter ---------------------------
(***************************************************************************)
(* IpDefragmenter (src/ip_defragmenter.cpp): fragments of IPv4 datagrams   *)
(* are copied into one buffer per datagram, which grows as needed, next to *)
(* a bitmap of the bytes that were received.  The class has one user, the  *)
(* ingestion thread, so a call is a step.                                  *)
(*                                                                         *)
(* Data.  A fragment says which datagram it is of (its key), where its     *)
(* bytes go, and whether it is the last one; its bytes are known by their  *)
(* sender's datagram and their place in it.  Time is measured in the       *)
(* seconds that evict_stale_fragments counts.                              *)
(***************************************************************************)
EXTENDS Integers, FiniteSets, FiniteSetsExt, Functions, Overlay

CONSTANTS
  Fragment,               (* the fragments that can arrive                 *)
  Unit,                   (* the unit of offsets, 8 bytes in the code      *)
  MaxDatagramSize,        (* MAX_DATAGRAM_SIZE, 65535 in the code          *)
  MaxConcurrentDatagrams, (* MAX_CONCURRENT_DATAGRAMS, 4096 in the code    *)
  FragmentTimeout         (* FRAGMENT_TIMEOUT_SECONDS, 30 in the code      *)

ASSUME DefragAssumption ==
  /\ \A f \in Fragment : f.offset \in Nat /\ f.length \in Nat /\ f.more \in BOOLEAN
  /\ Unit \in Nat \ {0}
  /\ MaxDatagramSize \in Nat
  /\ MaxConcurrentDatagrams \in Nat \ {0}
  /\ FragmentTimeout \in Nat

FragmentKey == {f.key : f \in Fragment}

VARIABLES
  buffers,  (* buffers_: a function from the keys in the table             *)
  out       (* the datagram returned by the call of this step              *)

defragVars == <<buffers, out>>

NoDatagram == [i \in {} |-> 0]

(* What resize appends.                                                    *)
Zero == <<0>>

EmptyBuffer ==
  [data |-> NoDatagram, received |-> {}, totalLength |-> 0, gotLastFragment |-> FALSE,
   age |-> 0]

DefragInit ==
  /\ buffers = [k \in {} |-> EmptyBuffer]
  /\ out = NoDatagram
-----------------------------------------------------------------------------
(* byte_offset and end_offset.                                             *)
Start(f) == f.offset * Unit
End(f) == Start(f) + f.length
Span(f) == Start(f) .. End(f) - 1

BytesOf(f) == [i \in Span(f) |-> <<f.source, i>>]

(* faulty: one datagram more than the table may hold *)
RefusedLate(f) ==
  \/ f.length = 0
  \/ End(f) > MaxDatagramSize
  \/ f.key \notin DOMAIN buffers /\ Cardinality(DOMAIN buffers) > MaxConcurrentDatagrams

(* The early returns: an empty fragment, one that ends behind the largest  *)
(* datagram there is, one that opens a datagram when the table is full.    *)
(* The sum is computed in 64 bits and does not wrap.                       *)
Refused(f) ==
  \/ f.length = 0
  \/ End(f) > MaxDatagramSize
  \/ f.key \notin DOMAIN buffers /\ Cardinality(DOMAIN buffers) >= MaxConcurrentDatagrams

Buffer(k) == IF k \in DOMAIN buffers THEN buffers[k] ELSE EmptyBuffer

(* What the buffer holds once it has grown to the end of the fragment,     *)
(* filled with zeros, and the bytes are copied.                            *)
Written(b, f) == Over(BytesOf(f), Over(b.data, [i \in 0 .. End(f) - 1 |-> Zero]))

(* faulty: the timer starts again with every fragment *)
StoredRefreshing(b, f) ==
  [data |-> Written(b, f),
   received |-> b.received \cup Span(f),
   totalLength |-> IF f.more THEN b.totalLength ELSE End(f),
   gotLastFragment |-> b.gotLastFragment \/ ~f.more,
   age |-> 0]

(* faulty: the gap that the buffer grew over counts as received *)
StoredOverGap(b, f) ==
  [data |-> Written(b, f),
   received |-> b.received \cup DOMAIN b.data \cup Span(f),
   totalLength |-> IF f.more THEN b.totalLength ELSE End(f),
   gotLastFragment |-> b.gotLastFragment \/ ~f.more,
   age |-> b.age]

(* The bytes are copied and marked; a last fragment sets the length.       *)
Stored(b, f) ==
  [data |-> Written(b, f),
   received |-> b.received \cup Span(f),
   totalLength |-> IF f.more THEN b.totalLength ELSE End(f),
   gotLastFragment |-> b.gotLastFragment \/ ~f.more,
   age |-> b.age]

(* faulty: looks only at the newest fragment *)
CompleteAtLast(b) == b.gotLastFragment /\ b.totalLength - 1 \in b.received

(* is_fully_covered, once the length is known.                             *)
Complete(b) == b.gotLastFragment /\ 0 .. b.totalLength - 1 \subseteq b.received

(* The datagram without what an earlier fragment left behind its end.      *)
Trimmed(b) == Restrict(b.data, 0 .. b.totalLength - 1)

Erase(K) == Restrict(buffers, DOMAIN buffers \ K)

ProcessFragment(f) ==
  LET b == Stored(Buffer(f.key), f) IN
  IF Refused(f)
  THEN out' = NoDatagram /\ UNCHANGED buffers
  ELSE IF Complete(b)
  THEN out' = Trimmed(b) /\ buffers' = Erase({f.key})
  ELSE out' = NoDatagram /\ buffers' = Over([k \in {f.key} |-> b], buffers)

(* faulty: collects at the timeout, not after it *)
StaleEarly == {k \in DOMAIN buffers : buffers[k].age >= FragmentTimeout}

Stale == {k \in DOMAIN buffers : buffers[k].age > FragmentTimeout}

(* One run over the table.                                                 *)
EvictStaleFragments ==
  /\ buffers' = Erase(Stale)
  /\ out' = NoDatagram

(* A second passes between two calls.  Ages beyond the first one that      *)
(* counts as stale are not told apart.                                     *)
Tick ==
  /\ buffers' = [k \in DOMAIN buffers |->
                   [buffers[k] EXCEPT !.age = Min({@ + 1, FragmentTimeout + 1})]]
  /\ out' = NoDatagram

DefragNext ==
  \/ \E f \in Fragment : ProcessFragment(f)
  \/ EvictStaleFragments
  \/ Tick

(* ip_defragmenter.h:70 asks the caller to call evict_stale_fragments      *)
(* periodically.                                                           *)
DefragFairness == WF_defragVars(EvictStaleFragments) /\ WF_defragVars(Tick)

DefragSpec == DefragInit /\ [][DefragNext]_defragVars /\ DefragFairness
-----------------------------------------------------------------------------
BufferTypeOK(b) ==
  /\ \E size \in 1 .. MaxDatagramSize : DOMAIN b.data = 0 .. size - 1
  /\ b.received \subseteq DOMAIN b.data
  /\ \A i \in DOMAIN b.data \ b.received : b.data[i] = Zero
  /\ b.totalLength \in 0 .. Cardinality(DOMAIN b.data)
  /\ b.gotLastFragment = (b.totalLength # 0)
  /\ b.age \in 0 .. FragmentTimeout + 1

(* Types; the memory that fragments can occupy is bounded                  *)
(* (ip_defragmenter.h:46-48); a byte is in the buffer if it is marked, and *)
(* a datagram ends inside its buffer.                                      *)
DefragTypeOK ==
  /\ DOMAIN buffers \subseteq FragmentKey
  /\ Cardinality(DOMAIN buffers) <= MaxConcurrentDatagrams
  /\ \A k \in DOMAIN buffers : BufferTypeOK(buffers[k])

(* The buffers implement Reassembly.  A datagram is handed over by the     *)
(* very call that completes it (ip_defragmenter.h:58), whichever fragment  *)
(* that is; no byte that only resize wrote is ever in it, none got to      *)
(* another place or another datagram, and it ends where the last fragment  *)
(* said.                                                                   *)
R == INSTANCE Reassembly WITH
  Key <- FragmentKey,
  Piece <- {BytesOf(f) : f \in Fragment} \ {NoDatagram},
  pieces <- [k \in DOMAIN buffers |->
               [bytes |-> Restrict(buffers[k].data, buffers[k].received),
                end |-> buffers[k].totalLength]]

Reassembles == R!Spec

(* ip_defragmenter.h:47, :68: no sequence of fragments keeps a slot of the *)
(* table for ever, however it is renewed.                                  *)
SlotsComeBack ==
  \A k \in FragmentKey : k \in DOMAIN buffers ~> k \notin DOMAIN buffers
=============================================================================
