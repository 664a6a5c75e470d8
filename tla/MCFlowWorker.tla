---------------------------- MODULE MCFlowWorker ----------------------------
(* Two flows, one of them with port 53; a signature of two bytes (1 and 2) *)
(* and payloads that hold all of it, half of it, or none, and that look    *)
(* like different protocols.                                               *)
EXTENDS FlowWorker

TwoByteSignature == {<<1, 2>>}
SomePayloads ==
  {[bytes |-> <<>>, looks |-> "OTHER"], [bytes |-> <<1>>, looks |-> "TLS"],
   [bytes |-> <<2>>, looks |-> "HTTP"], [bytes |-> <<1, 2>>, looks |-> "DNS"]}
SomeFlagSets == {{"SYN"}, {"SYN", "ACK"}, {"ACK"}, {"RST"}}

(* What the collector can tell apart: flows bypassed, flagged, or neither. *)
TwoPayloads ==
  {[bytes |-> <<>>, looks |-> "OTHER"], [bytes |-> <<1, 2>>, looks |-> "OTHER"]}
=============================================================================
