---------------------------- MODULE MCFlowAudit ----------------------------
(* Two signatures that overlap themselves and each other, so that a failed *)
(* match may be the beginning of another; segments carry one byte, two, a  *)
(* whole signature, or none.                                               *)
EXTENDS FlowAudit

OverlappingSignatures == {<<1, 2, 1, 1>>, <<2, 1, 2>>}
SomePayloads ==
  {[bytes |-> b, looks |-> "OTHER"] :
     b \in {<<>>, <<1>>, <<2>>, <<2, 1>>, <<1, 2, 1, 1>>}}
SomeFlagSets == {{"SYN"}, {"SYN", "ACK"}, {"ACK"}, {"FIN", "ACK"}, {"RST"}, {"RST", "ACK"}}
=============================================================================
