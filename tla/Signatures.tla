----------------------------- MODULE Signatures -----------------------------
(***************************************************************************)
(* What it means for a signature to occur in a stream of bytes, and for an *)
(* Aho-Corasick node to remember it.  A node of the trie is named by the   *)
(* bytes on the way from the root to it (the code numbers the nodes in the *)
(* order of their creation; nothing depends on the numbers).               *)
(***************************************************************************)
EXTENDS Integers, Sequences

Root == <<>>

EndsWith(text, s) ==
  /\ Len(s) <= Len(text)
  /\ SubSeq(text, Len(text) - Len(s) + 1, Len(text)) = s

(* The nodes on the way to the ends of some signatures.                    *)
Beginnings(signatures) ==
  {Root} \cup UNION {{SubSeq(s, 1, n) : n \in 0 .. Len(s)} : s \in signatures}

(* The most of the end of a text that a set of nodes can remember.         *)
LongestEnding(text, nodes) ==
  CHOOSE n \in nodes : /\ EndsWith(text, n)
                       /\ \A m \in nodes : EndsWith(text, m) => Len(m) <= Len(n)

(* A signature occurs somewhere in a text.                                 *)
OccursIn(s, text) == \E i \in 0 .. Len(text) : EndsWith(SubSeq(text, 1, i), s)
=============================================================================
