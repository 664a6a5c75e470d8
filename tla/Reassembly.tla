----------------------------- MODULE Reassembly -----------------------------
(***************************************************************************)
(* What IpDefragmenter promises (include/ip_defragmenter.h): the bytes of  *)
(* a datagram arrive in any order, again and again, and the datagram is    *)
(* handed over when its end is known and every byte before the end is      *)
(* there.  There are no buffers here, and so no bytes that nobody sent:    *)
(* what is known of a datagram is a partial function from places to bytes. *)
(***************************************************************************)
EXTENDS Integers, Functions, Overlay

CONSTANTS
  Key,   (* what tells datagrams apart                                     *)
  Piece  (* what fragments carry: the bytes of consecutive places         *)

VARIABLES
  pieces,  (* for some keys, the bytes that came and, once it is known,    *)
           (* the place where the datagram ends (0 before)                 *)
  out      (* the datagram handed over by this step                        *)

vars == <<pieces, out>>

NoDatagram == [i \in {} |-> 0]

Forget(K) == Restrict(pieces, DOMAIN pieces \ K)

Init ==
  /\ pieces = [k \in {} |-> 0]
  /\ out = NoDatagram

Known(k) == IF k \in DOMAIN pieces THEN pieces[k] ELSE [bytes |-> NoDatagram, end |-> 0]

(* The last copy of a byte counts, and the last end.                       *)
With(known, piece, last) ==
  [bytes |-> Over(piece, known.bytes),
   end |-> IF last THEN (CHOOSE i \in DOMAIN piece : i + 1 \notin DOMAIN piece) + 1
           ELSE known.end]

Whole(known) == known.end # 0 /\ 0 .. known.end - 1 \subseteq DOMAIN known.bytes

Receive(k, piece, last) ==
  LET known == With(Known(k), piece, last) IN
  IF Whole(known)
  THEN /\ pieces' = Forget({k})
       /\ out' = Restrict(known.bytes, 0 .. known.end - 1)
  ELSE /\ pieces' = Over([j \in {k} |-> known], pieces)
       /\ out' = NoDatagram

(* Fragments may be lost, and so may be what was known of some datagrams.  *)
Lose ==
  /\ \E K \in SUBSET DOMAIN pieces : pieces' = Forget(K)
  /\ out' = NoDatagram

Next ==
  \/ \E k \in Key, piece \in Piece, last \in BOOLEAN : Receive(k, piece, last)
  \/ Lose

Spec == Init /\ [][Next]_vars
=============================================================================
