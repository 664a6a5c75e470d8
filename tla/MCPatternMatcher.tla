-------------------------- MODULE MCPatternMatcher --------------------------
(* All rule files with up to three signatures over an alphabet of two: all *)
(* signatures of up to three bytes and four of four bytes, whose matches   *)
(* fail over several links; with lines that are not rules between them.    *)
EXTENDS PatternMatcher

Contents ==
  UNION {[1 .. n -> Byte] : n \in 0 .. 3}
    \cup {<<0, 0, 0, 0>>, <<0, 0, 0, 1>>, <<0, 1, 0, 0>>, <<0, 1, 0, 1>>}
RuleFileLines ==
  {[comment |-> FALSE, quoted |-> TRUE, content |-> s] : s \in Contents}
    \cup {[comment |-> TRUE, quoted |-> TRUE, content |-> <<0>>],
          [comment |-> FALSE, quoted |-> FALSE, content |-> <<1>>]}
=============================================================================
