---------------------------- MODULE MCPacketPath ----------------------------
(* Captured lengths at, below and above the end of each header, and two    *)
(* longer than the buffer; lengths that contradict them and each other;    *)
(* payloads on both sides of the bounds that the decoders check.  The      *)
(* bytes given to DnsParser are short and long labels, one that is too     *)
(* long, and pointers to the header, to the first question and beyond the  *)
(* message.                                                                *)
EXTENDS PacketPath

ShortPayloads == {11, 12, 13, 18, 23, 25}
CapturedLengths ==
  {0, 13, 14, 17, 18, 33, 34, 37, 38, 41, 42, 53, 54, 55, 58, 60, 67, 110, 115, 120, 121, 127}
TotalLengths ==
  {0, 19, 20, 28, 40, 41, 1500} \cup {28 + n : n \in ShortPayloads} \cup {40 + n : n \in 43 .. 54}
LongPayloads == {1, 4, 5, 8, 9} \cup 43 .. 60
ZeroHeader == [src_ip |-> 0, dest_ip |-> 0, src_port |-> 0, dest_port |-> 0, protocol |-> 17]
=============================================================================
