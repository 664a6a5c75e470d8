------------------------------ MODULE FiveTuple ------------------------------
(***************************************************************************)
(* create_bidirectional_tuple (include/five_tuple.h) and its two users:    *)
(* the ingestion thread, which hashes the tuple to choose a worker, and    *)
(* that worker, which computes it again to find the flow in its table.     *)
(* Both rely on the two directions of a connection having one tuple, and   *)
(* the table relies on different connections having different ones.        *)
(***************************************************************************)
EXTENDS Integers

CONSTANTS Ip, Port, Protocol  (* uint32_t, uint16_t, uint8_t               *)

ASSUME TupleAssumption == Ip \subseteq Nat /\ Port \subseteq Nat

(* The five fields of a packet's headers, and of a FiveTuple.              *)
Header ==
  [src_ip : Ip, dest_ip : Ip, src_port : Port, dest_port : Port, protocol : Protocol]

(* The same connection's packets in the other direction.                   *)
Reverse(h) ==
  [src_ip |-> h.dest_ip, dest_ip |-> h.src_ip,
   src_port |-> h.dest_port, dest_port |-> h.src_port, protocol |-> h.protocol]

(* faulty: ports between equal addresses stay as they are *)
AddressesInOrder(h) == h.src_ip <= h.dest_ip

(* The smaller address comes first; between equal addresses, as on the     *)
(* loopback interface, the smaller port.                                   *)
InOrder(h) ==
  \/ h.src_ip < h.dest_ip
  \/ h.src_ip = h.dest_ip /\ h.src_port < h.dest_port

BidirectionalTuple(h) == IF InOrder(h) THEN h ELSE Reverse(h)

VARIABLES
  packet,  (* the headers of the packet being handled                      *)
  tuple    (* the tuple by which it is routed and looked up                *)

Init ==
  /\ packet \in Header
  /\ tuple = BidirectionalTuple(packet)

NextPacket(h) ==
  /\ packet' = h
  /\ tuple' = BidirectionalTuple(h)
-----------------------------------------------------------------------------
(* five_tuple.h:40: the packets with the tuple of a given packet are those *)
(* of its connection, in both directions, and no others.                   *)
TupleIdentifiesConnection ==
  \A h \in Header :
    BidirectionalTuple(h) = tuple <=> h = packet \/ h = Reverse(packet)
=============================================================================
