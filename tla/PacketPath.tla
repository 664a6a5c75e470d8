----------------------------- MODULE PacketPath -----------------------------
(***************************************************************************)
(* The way of one packet after another through the parsers: Capture reads  *)
(* its headers and hands over an envelope with the payload's bytes and the *)
(* five-tuple of the flow, and inspect_payload of DpiEngine gives the      *)
(* payload to SniExtractor or DnsParser.  Pipeline models the threads and  *)
(* queues in between; the parsers share nothing but the payload, which     *)
(* Pipeline shows to arrive intact, and so one packet is under way here at *)
(* a time.                                                                 *)
(***************************************************************************)
EXTENDS FiveTuple, Capture, DnsParser, SniExtractor

CONSTANT BlankHeader  (* a ParsedPacket as it is constructed               *)

ASSUME PathAssumption == BlankHeader \in Header

VARIABLE payloadLength  (* payload_length of the envelope, or NoEnvelope   *)

pathVars == <<packet, tuple, captureVars, dnsVars, sniVars, payloadLength>>

NoEnvelope == -1

PathInit ==
  /\ Init /\ packet = BlankHeader
  /\ CaptureInit
  /\ DnsAt("idle", 0)
  /\ SniAt("idle", 0)
  /\ payloadLength = NoEnvelope

(* No envelope is under way and no decoder at work.                        *)
Free == payloadLength = NoEnvelope /\ sniStep = "idle" /\ dnsStep = "idle"

IngestStep ==
  /\ Free
  /\ Ingest
  /\ UNCHANGED <<packet, tuple, dnsVars, sniVars, payloadLength>>

(* The envelope goes to the worker that the tuple is hashed to.            *)
SendEnvelope ==
  /\ Free
  /\ Dispatch
  /\ \E h \in Header : NextPacket(h)
  /\ payloadLength' = CopySize
  /\ UNCHANGED <<dnsVars, sniVars>>

Taken ==
  /\ payloadLength' = NoEnvelope
  /\ NextPacket(BlankHeader)
  /\ UNCHANGED captureVars

(* A flow that was identified as TLS hands every payload to SniExtractor.  *)
InspectTls ==
  /\ payloadLength \in SniPayload \ {0}
  /\ Taken
  /\ SniBecomes("record", payloadLength)
  /\ UNCHANGED dnsVars

(* Port 53 at either end of the tuple.                                     *)
InspectDns ==
  /\ payloadLength \in DnsPayload \ {0}
  /\ 53 \in {tuple.src_port, tuple.dest_port}
  /\ Taken
  /\ DnsBecomes("header", payloadLength)
  /\ UNCHANGED sniVars

(* The flow is bypassed, there is no payload, or it is HTTP or unknown.    *)
InspectNothing ==
  /\ payloadLength # NoEnvelope
  /\ Taken
  /\ UNCHANGED <<dnsVars, sniVars>>

Decode ==
  /\ \/ SniNext /\ UNCHANGED dnsVars
     \/ sniStep = "done" /\ SniBecomes("idle", 0) /\ UNCHANGED dnsVars
     \/ DnsNext /\ UNCHANGED sniVars
     \/ dnsStep = "done" /\ DnsBecomes("idle", 0) /\ UNCHANGED sniVars
  /\ UNCHANGED <<packet, tuple, captureVars, payloadLength>>

PathNext ==
  \/ IngestStep
  \/ SendEnvelope
  \/ InspectTls
  \/ InspectDns
  \/ InspectNothing
  \/ Decode

(* A decoder that was called runs on.  How long the file is is open.       *)
PathSpec == PathInit /\ [][PathNext]_pathVars /\ WF_pathVars(Decode)
=============================================================================
