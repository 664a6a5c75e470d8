------------------------------- MODULE Capture -------------------------------
(***************************************************************************)
(* From the capture file to the payload of a packet: PcapFileReader        *)
(* (src/pcap_reader.cpp), PacketParser (src/packet_parser.cpp) and the     *)
(* body of the ingestion loop of main that joins them (src/main.cpp).      *)
(*                                                                         *)
(* Data.  A packet is the lengths that its headers claim, each chosen when *)
(* it is read, and it may contradict itself.  The file is any sequence of  *)
(* records and may end anywhere; what matters of the place the reader is   *)
(* at is how far it is from the place where the next record starts.        *)
(* All lengths are below 2^17, so that 32-bit offsets do not wrap.         *)
(***************************************************************************)
EXTENDS Integers, FiniteSetsExt

CONSTANTS
  InclLen,     (* the captured lengths that records claim                  *)
  BufferSize,  (* of packet_buffer, 65535 in the code                      *)
  Ihl,         (* the values of the IHL field, 0 .. 15                     *)
  TotalLen,    (* the values of the total length field                     *)
  DataOffset,  (* the values of the TCP data offset field, 0 .. 15         *)
  SlotSize     (* the bytes of a slot of the memory pool, 2048 in the code *)

ASSUME CaptureAssumption ==
  /\ InclLen \subseteq Nat
  /\ BufferSize \in Nat
  /\ Ihl \subseteq 0 .. 15
  /\ TotalLen \subseteq Nat
  /\ DataOffset \subseteq 0 .. 15
  /\ SlotSize \in Nat \ {0}

VARIABLES
  step,          (* what is read next                                      *)
  skew,          (* the reader's place, from the start of the next record  *)
  captured,      (* the bytes of this packet in packet_buffer; behind them *)
                 (* are bytes of earlier packets                           *)
  packetLength,  (* packet_len of main, which parse_ipv4 may lower         *)
  offset,        (* offset of main                                         *)
  reads,         (* the positions in packet_buffer that this step read     *)
  claimed        (* history: where the headers say the IP datagram ends    *)
                 (* and its TCP or UDP data starts                         *)

captureVars == <<step, skew, captured, packetLength, offset, reads, claimed>>

EthernetHeaderSize == 14
VlanTagSize == 4
IPv4HeaderSize == 20
TCPHeaderSize == 20
UDPHeaderSize == 8

NoClaims == [ipStart |-> 0, ipEnd |-> 0, dataStart |-> 0]

CaptureInit ==
  /\ step = "open"
  /\ skew = 0
  /\ captured = 0
  /\ packetLength = 0
  /\ offset = 0
  /\ reads = {}
  /\ claimed = NoClaims

(* The first n bytes at a position.                                        *)
Reads(first, n) == reads' = first .. first + n - 1

(* To the next iteration of the loop, whose locals start anew.             *)
NextRecord ==
  /\ step' = "record"
  /\ packetLength' = 0
  /\ offset' = 0
  /\ claimed' = NoClaims
  /\ UNCHANGED <<skew, captured>>

DropsUnread == NextRecord /\ reads' = {}
-----------------------------------------------------------------------------
(* PcapFileReader::open: the file is not there, shorter than its header,   *)
(* of foreign endianness, or no capture at all; or all is well.            *)
Open ==
  /\ step = "open"
  /\ step' \in {"record", "finished"}
  /\ UNCHANGED <<skew, captured, packetLength, offset, reads, claimed>>

(* faulty: leaves the rest of a long record to the next read *)
SkippedNone(inclLen) == 0

(* What seekg jumps over of a record that is longer than the buffer.       *)
Skipped(inclLen) == IF inclLen > BufferSize THEN inclLen - BufferSize ELSE 0

ReadLength(inclLen) == Min({inclLen, BufferSize})

ReadNextPacket ==
  /\ step = "record"
  /\ \E inclLen \in InclLen :
       /\ captured' = ReadLength(inclLen)
       /\ packetLength' = ReadLength(inclLen)
       /\ skew' = skew + ReadLength(inclLen) + Skipped(inclLen) - inclLen
  /\ step' = "ethernet"
  /\ reads' = {}
  /\ UNCHANGED <<offset, claimed>>

(* The file ends in front of a record, in its header or in its bytes, or   *)
(* CTRL+C ends the loop.                                                   *)
StopReading ==
  /\ step = "record"
  /\ step' = "finished"
  /\ reads' = {}
  /\ UNCHANGED <<skew, captured, packetLength, offset, claimed>>
-----------------------------------------------------------------------------
Missing(n) == packetLength < offset + n

(* A field of the header at the offset was read and the offset advanced.   *)
Advance(next, n) ==
  /\ step' = next
  /\ offset' = offset + n
  /\ UNCHANGED <<skew, captured, packetLength>>

AfterEtherType(n) ==
  \/ \E next \in {"vlan", "ipv4"} : Advance(next, n) /\ UNCHANGED claimed
  \/ NextRecord

ParseEthernet ==
  /\ step = "ethernet"
  /\ IF Missing(EthernetHeaderSize) THEN DropsUnread
     ELSE Reads(offset + 12, 2) /\ AfterEtherType(EthernetHeaderSize)

(* One turn of the loop over VLAN tags.                                    *)
SkipVlanTag ==
  /\ step = "vlan"
  /\ IF Missing(VlanTagSize) THEN DropsUnread
     ELSE Reads(offset + 2, 2) /\ AfterEtherType(VlanTagSize)

(* faulty: keeps the padding *)
LengthPadded(totalLen) == packetLength

(* Ethernet pads short packets: what is behind the datagram is chopped.    *)
TrueLength(totalLen) == Min({packetLength, offset + totalLen})

(* The fragment fields are read as well; main does not use them.           *)
ParseIPv4 ==
  /\ step = "ipv4"
  /\ IF Missing(IPv4HeaderSize) THEN DropsUnread
     ELSE /\ Reads(offset, IPv4HeaderSize)
          /\ \E ihl \in Ihl, totalLen \in TotalLen, next \in {"tcp", "udp", "other"} :
               IF ihl < 5 \/ Missing(4 * ihl) \/ totalLen < 4 * ihl \/ next = "other"
               THEN NextRecord
               ELSE /\ step' = next
                    /\ packetLength' = TrueLength(totalLen)
                    /\ offset' = offset + 4 * ihl
                    /\ claimed' = [ipStart |-> offset, ipEnd |-> offset + totalLen,
                                   dataStart |-> offset + 4 * ihl]
                    /\ UNCHANGED <<skew, captured>>

ParseTcp ==
  /\ step = "tcp"
  /\ IF Missing(TCPHeaderSize) THEN DropsUnread
     ELSE /\ Reads(offset, 14)
          /\ \E dataOffset \in DataOffset :
               IF dataOffset >= 5 /\ ~Missing(4 * dataOffset)
               THEN /\ Advance("payload", 4 * dataOffset)
                    /\ claimed' = [claimed EXCEPT !.dataStart = @ + 4 * dataOffset]
               ELSE NextRecord

(* The UDP header's own length is not looked at.                           *)
ParseUdp ==
  /\ step = "udp"
  /\ IF Missing(UDPHeaderSize) THEN DropsUnread
     ELSE /\ Reads(offset, 4)
          /\ Advance("payload", UDPHeaderSize)
          /\ claimed' = [claimed EXCEPT !.dataStart = @ + UDPHeaderSize]

(* copy_size of main.                                                      *)
CopySize == Min({packetLength - offset, SlotSize})

(* The bytes that are copied to a slot, if there are any.                  *)
CopyPayload ==
  /\ step = "payload"
  /\ IF packetLength > offset THEN Reads(offset, CopySize) ELSE reads' = {}
  /\ step' = "envelope"
  /\ UNCHANGED <<skew, captured, packetLength, offset, claimed>>

(* The envelope is dispatched.  What the buffer holds does not matter any  *)
(* more.                                                                   *)
Dispatch ==
  /\ step = "envelope"
  /\ step' = "record"
  /\ captured' = 0
  /\ packetLength' = 0
  /\ offset' = 0
  /\ claimed' = NoClaims
  /\ reads' = {}
  /\ UNCHANGED skew

Ingest ==
  \/ Open
  \/ ReadNextPacket
  \/ StopReading
  \/ ParseEthernet
  \/ SkipVlanTag
  \/ ParseIPv4
  \/ ParseTcp
  \/ ParseUdp
  \/ CopyPayload

CaptureNext == Ingest \/ Dispatch

CaptureSpec == CaptureInit /\ [][CaptureNext]_captureVars
-----------------------------------------------------------------------------
(* pcap_reader.cpp:85 ("to align with the next packet header"): headers    *)
(* and payloads are made of bytes of this packet, taken from where its     *)
(* record really starts; never of what earlier packets left in the buffer, *)
(* and never of what is behind it.                                         *)
ReadsCaptured ==
  reads # {} => skew = 0 /\ reads \subseteq 0 .. captured - 1

(* packet_parser.cpp:81, main.cpp:197: what is copied is what the headers  *)
(* say is the data of the TCP or UDP packet, without the padding of the    *)
(* frame, as far as it was captured and fits a slot.                       *)
PayloadIsData ==
  step = "envelope" =>
    reads = {i \in claimed.dataStart .. claimed.dataStart + SlotSize - 1 :
               i < claimed.ipEnd /\ i < captured}
=============================================================================
