-------------------------- MODULE MCIpDefragmenter --------------------------
(* Datagrams of at most seven bytes, offsets in units of two, so that the  *)
(* largest datagram is not a whole number of units, as in the code.  Under *)
(* the key "a", one sender's datagram of seven bytes in every cut, and a   *)
(* later one of three bytes that reuses the key; a stranger's fragments    *)
(* that claim ends, reach beyond the largest datagram, or are empty; and   *)
(* two more keys, with a datagram in two parts and one that stays a part.  *)
EXTENDS DefragAudit

Lengths == [first |-> 7, second |-> 3, stranger |-> 0]

Cuts(key, source) ==
  {f \in [key : {key}, source : {source}, offset : 0 .. 3, length : 1 .. 7,
          more : BOOLEAN] :
     /\ Honest(f)
     /\ f.more => f.length % Unit = 0}

Piece(key, source, offset, length, more) ==
  [key |-> key, source |-> source, offset |-> offset, length |-> length, more |-> more]

Fragments ==
  Cuts("a", "first") \cup Cuts("a", "second") \cup
  {Piece("a", "stranger", 0, 0, FALSE), Piece("a", "stranger", 1, 3, FALSE),
   Piece("a", "stranger", 3, 2, FALSE), Piece("b", "first", 2, 2, TRUE),
   Piece("c", "second", 0, 2, TRUE), Piece("c", "second", 1, 1, FALSE)}
=============================================================================
