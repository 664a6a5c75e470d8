--------------------------- MODULE PacketPathProofs ---------------------------
(***************************************************************************)
(* Whatever the bytes of a capture say: a tuple names one connection, the  *)
(* parsers read only bytes that were captured, what is copied to a slot is *)
(* the data of the packet, and the decoders stay inside the payload.       *)
(***************************************************************************)
EXTENDS PacketPath, DataLemmas

-----------------------------------------------------------------------------
(* FiveTuple: the canonical tuple identifies a connection for all          *)
(* addresses and ports.                                                    *)

(* A header has five fields and no others.                                 *)
LEMMA HeaderFields ==
  ASSUME NEW h \in Header
  PROVE  /\ h.src_ip \in Nat /\ h.dest_ip \in Nat
         /\ h.src_port \in Nat /\ h.dest_port \in Nat
         /\ h = [src_ip |-> h.src_ip, dest_ip |-> h.dest_ip, src_port |-> h.src_port,
                 dest_port |-> h.dest_port, protocol |-> h.protocol]
BY TupleAssumption DEF Header

(* Reversing twice gives the header back.                                  *)
LEMMA ReverseFacts ==
  ASSUME NEW h \in Header
  PROVE  Reverse(h) \in Header /\ Reverse(Reverse(h)) = h
BY DEF Header, Reverse

(* Exactly one of a header and its reverse is in order, unless they are    *)
(* the same.                                                               *)
LEMMA OneOrder ==
  ASSUME NEW h \in Header
  PROVE  /\ ~(InOrder(h) /\ InOrder(Reverse(h)))
         /\ InOrder(h) \/ InOrder(Reverse(h)) \/ Reverse(h) = h
<1>1. ~(InOrder(h) /\ InOrder(Reverse(h)))
  BY HeaderFields DEF InOrder, Reverse
<1>2. ASSUME ~InOrder(h), ~InOrder(Reverse(h)) PROVE Reverse(h) = h
  <2>1. h.src_ip = h.dest_ip /\ h.src_port = h.dest_port
    BY <1>2, HeaderFields DEF InOrder, Reverse
  <2> QED BY <2>1, HeaderFields DEF Reverse
<1> QED BY <1>1, <1>2

(* Two packets have the same tuple exactly when they belong to the same    *)
(* connection, in whatever directions.                                     *)
THEOREM TupleFaithful ==
  ASSUME NEW g \in Header, NEW h \in Header
  PROVE  BidirectionalTuple(g) = BidirectionalTuple(h) <=> g = h \/ g = Reverse(h)
<1>1. ASSUME g = Reverse(h) PROVE BidirectionalTuple(g) = BidirectionalTuple(h)
  BY <1>1, OneOrder, ReverseFacts DEF BidirectionalTuple
<1>2. ASSUME BidirectionalTuple(g) = BidirectionalTuple(h) PROVE g = h \/ g = Reverse(h)
  <2>1. BidirectionalTuple(g) \in {g, Reverse(g)} /\ BidirectionalTuple(h) \in {h, Reverse(h)}
    BY DEF BidirectionalTuple
  <2> QED BY <1>2, <2>1, ReverseFacts
<1> QED BY <1>1, <1>2

(* So does the tuple in use, of the packet that is being handled.          *)
THEOREM ConnectionIdentified == PathSpec => []TupleIdentifiesConnection
<1> DEFINE Inv == packet \in Header /\ tuple = BidirectionalTuple(packet)
<1>1. PathInit => Inv
  BY PathAssumption DEF PathInit, Init
<1>2. ASSUME Inv, [PathNext]_pathVars PROVE Inv'
  <2>1. UNCHANGED <<packet, tuple>> \/ \E h \in Header : NextPacket(h)
    BY <1>2, PathAssumption DEF PathNext, IngestStep, SendEnvelope, InspectTls, InspectDns,
       InspectNothing, Taken, Decode, pathVars
  <2> QED
    BY <1>2, <2>1 DEF NextPacket
<1>3. Inv => TupleIdentifiesConnection
  BY TupleFaithful DEF TupleIdentifiesConnection
<1> QED
  BY <1>1, <1>2, <1>3, PTL DEF PathSpec
-----------------------------------------------------------------------------
(* Capture.                                                                *)
LEMMA MinOfTwo ==
  ASSUME NEW a \in Int, NEW b \in Int
  PROVE  Min({a, b}) = IF a <= b THEN a ELSE b
BY DEF Min

CaptureTypeOK ==
  /\ skew = 0
  /\ captured \in Nat
  /\ packetLength \in Nat
  /\ offset \in Nat
  /\ claimed \in [ipStart : Nat, ipEnd : Nat, dataStart : Nat]
  /\ reads \subseteq 0 .. captured - 1

(* From the IP header on, main's two locals agree with what the headers    *)
(* claim.                                                                  *)
LocalsAgree ==
  /\ packetLength <= captured
  /\ step \in {"ethernet", "vlan", "ipv4"} => packetLength = captured
  /\ step \in {"tcp", "udp", "payload", "envelope"} =>
       /\ offset = claimed.dataStart
       /\ packetLength = IF captured <= claimed.ipEnd THEN captured ELSE claimed.ipEnd
  /\ step = "envelope" =>
       reads = IF packetLength > offset THEN offset .. offset + CopySize - 1 ELSE {}

CaptureInv == CaptureTypeOK /\ LocalsAgree

LEMMA CaptureInitially == CaptureInit => CaptureInv
BY DEF CaptureInit, CaptureInv, CaptureTypeOK, LocalsAgree, NoClaims

LEMMA NextRecordKeeps ==
  ASSUME CaptureInv, NextRecord, reads' \subseteq 0 .. captured - 1
  PROVE  CaptureInv'
BY DEF NextRecord, CaptureInv, CaptureTypeOK, LocalsAgree, NoClaims

LEMMA DropKeeps == CaptureInv /\ DropsUnread => CaptureInv'
BY NextRecordKeeps DEF DropsUnread

(* The fields of a header are read after the test that they are there.     *)
LEMMA CaptureStep == CaptureInv /\ [CaptureNext]_captureVars => CaptureInv'
<1> SUFFICES ASSUME CaptureInv, [CaptureNext]_captureVars PROVE CaptureInv'
  OBVIOUS
<1> USE DEF EthernetHeaderSize, VlanTagSize, IPv4HeaderSize, TCPHeaderSize, UDPHeaderSize
<1>1. CASE UNCHANGED captureVars
  BY <1>1 DEF captureVars, CaptureInv, CaptureTypeOK, LocalsAgree, CopySize
<1>2. CASE Open
  BY <1>2 DEF Open, CaptureInv, CaptureTypeOK, LocalsAgree
<1>3. CASE ReadNextPacket
  <2> PICK inclLen \in InclLen :
        /\ captured' = ReadLength(inclLen)
        /\ packetLength' = ReadLength(inclLen)
        /\ skew' = skew + ReadLength(inclLen) + Skipped(inclLen) - inclLen
    BY <1>3 DEF ReadNextPacket
  <2>1. inclLen \in Nat /\ BufferSize \in Nat
    BY CaptureAssumption
  <2>2. ReadLength(inclLen) \in Nat /\ ReadLength(inclLen) + Skipped(inclLen) = inclLen
    BY <2>1, MinOfTwo DEF ReadLength, Skipped
  <2> QED
    BY <1>3, <2>1, <2>2 DEF ReadNextPacket, CaptureInv, CaptureTypeOK, LocalsAgree, Skipped
<1>4. CASE StopReading
  BY <1>4 DEF StopReading, CaptureInv, CaptureTypeOK, LocalsAgree
<1>5. CASE ParseEthernet \/ SkipVlanTag
  <2>1. CASE DropsUnread
    BY <2>1, DropKeeps
  <2>2. ASSUME NEW n \in {14, 4}, NEW f \in {12, 2}, f + 2 <= n, ~Missing(n),
               Reads(offset + f, 2), AfterEtherType(n)
        PROVE  CaptureInv'
    <3>1. reads' \subseteq 0 .. captured - 1
      BY <2>2 DEF Reads, Missing, CaptureInv, CaptureTypeOK, LocalsAgree
    <3>2. CASE NextRecord
      BY <3>1, <3>2, NextRecordKeeps
    <3>3. ASSUME NEW next \in {"vlan", "ipv4"}, Advance(next, n), UNCHANGED claimed
          PROVE  CaptureInv'
      BY <1>5, <3>1, <3>3
      DEF ParseEthernet, SkipVlanTag, Advance, CaptureInv, CaptureTypeOK, LocalsAgree
    <3> QED
      BY <2>2, <3>2, <3>3 DEF AfterEtherType
  <2> QED
    BY <1>5, <2>1, <2>2 DEF ParseEthernet, SkipVlanTag
<1>6. CASE ParseIPv4
  <2>1. CASE DropsUnread
    BY <2>1, DropKeeps
  <2>2. CASE ~Missing(20) /\ Reads(offset, 20)
    <3>1. reads' \subseteq 0 .. captured - 1
      BY <2>2 DEF Reads, Missing, CaptureInv, CaptureTypeOK, LocalsAgree
    <3>2. CASE NextRecord
      BY <3>1, <3>2, NextRecordKeeps
    <3>3. ASSUME NEW ihl \in Ihl, NEW totalLen \in TotalLen, NEW next \in {"tcp", "udp"},
                 ~Missing(4 * ihl), ~(totalLen < 4 * ihl),
                 step' = next,
                 packetLength' = TrueLength(totalLen),
                 offset' = offset + 4 * ihl,
                 claimed' = [ipStart |-> offset, ipEnd |-> offset + totalLen,
                             dataStart |-> offset + 4 * ihl],
                 UNCHANGED <<skew, captured>>
          PROVE  CaptureInv'
      <4>1. ihl \in Nat /\ totalLen \in Nat
        BY CaptureAssumption
      <4>2. packetLength = captured
        BY <1>6 DEF ParseIPv4, CaptureInv, LocalsAgree
      <4> QED
        BY <3>1, <3>3, <4>1, <4>2, MinOfTwo DEF TrueLength, CaptureInv, CaptureTypeOK, LocalsAgree
    <3> QED
      BY <1>6, <2>2, <3>2, <3>3 DEF ParseIPv4, DropsUnread
  <2> QED
    BY <1>6, <2>1, <2>2 DEF ParseIPv4
<1>7. CASE ParseTcp
  <2>1. CASE DropsUnread
    BY <2>1, DropKeeps
  <2>2. CASE ~Missing(20) /\ Reads(offset, 14)
    <3>1. reads' \subseteq 0 .. captured - 1
      BY <2>2 DEF Reads, Missing, CaptureInv, CaptureTypeOK, LocalsAgree
    <3>2. CASE NextRecord
      BY <3>1, <3>2, NextRecordKeeps
    <3>3. ASSUME NEW dataOffset \in DataOffset, Advance("payload", 4 * dataOffset),
                 claimed' = [claimed EXCEPT !.dataStart = @ + 4 * dataOffset]
          PROVE  CaptureInv'
      <4>1. dataOffset \in Nat
        BY CaptureAssumption
      <4> QED
        BY <1>7, <3>1, <3>3, <4>1 DEF ParseTcp, Advance, CaptureInv, CaptureTypeOK, LocalsAgree
    <3> QED
      BY <1>7, <2>2, <3>2, <3>3 DEF ParseTcp, DropsUnread
  <2> QED
    BY <1>7, <2>1, <2>2 DEF ParseTcp
<1>8. CASE ParseUdp
  <2>1. CASE DropsUnread
    BY <2>1, DropKeeps
  <2>2. CASE ~Missing(8) /\ Reads(offset, 4) /\ Advance("payload", 8)
             /\ claimed' = [claimed EXCEPT !.dataStart = @ + 8]
    <3>1. reads' \subseteq 0 .. captured - 1
      BY <2>2 DEF Reads, Missing, CaptureInv, CaptureTypeOK, LocalsAgree
    <3> QED
      BY <1>8, <2>2, <3>1 DEF ParseUdp, Advance, CaptureInv, CaptureTypeOK, LocalsAgree
  <2> QED
    BY <1>8, <2>1, <2>2 DEF ParseUdp
<1>9. CASE CopyPayload
  <2>1. CopySize <= packetLength - offset /\ CopySize' = CopySize
    BY <1>9, CaptureAssumption, MinOfTwo
    DEF CopyPayload, CopySize, CaptureInv, CaptureTypeOK, LocalsAgree
  <2>2. CopySize \in Int
    BY CaptureAssumption, MinOfTwo DEF CopySize, CaptureInv, CaptureTypeOK
  <2>3. packetLength > offset => reads' = offset .. offset + CopySize - 1
    BY <1>9 DEF CopyPayload, Reads
  <2>4. ~(packetLength > offset) => reads' = {}
    BY <1>9 DEF CopyPayload
  <2>5. CaptureTypeOK'
    BY <1>9, <2>1, <2>2, <2>3, <2>4
    DEF CopyPayload, CaptureInv, CaptureTypeOK, LocalsAgree
  <2> QED
    BY <1>9, <2>1, <2>3, <2>4, <2>5 DEF CopyPayload, CaptureInv, LocalsAgree
<1>10. CASE Dispatch
  BY <1>10 DEF Dispatch, CaptureInv, CaptureTypeOK, LocalsAgree, NoClaims
<1> QED
  BY <1>1, <1>2, <1>3, <1>4, <1>5, <1>6, <1>7, <1>8, <1>9, <1>10 DEF CaptureNext, Ingest

(* An envelope holds the data of its packet.                               *)
LEMMA PayloadFollows == CaptureInv => ReadsCaptured /\ PayloadIsData
<1> SUFFICES ASSUME CaptureInv PROVE ReadsCaptured /\ PayloadIsData
  OBVIOUS
<1>1. ReadsCaptured
  BY DEF CaptureInv, CaptureTypeOK, ReadsCaptured
<1>2. ASSUME step = "envelope" PROVE
        reads = {i \in claimed.dataStart .. claimed.dataStart + SlotSize - 1 :
                   i < claimed.ipEnd /\ i < captured}
  <2>1. CopySize = IF packetLength - offset <= SlotSize THEN packetLength - offset ELSE SlotSize
    BY CaptureAssumption, MinOfTwo DEF CopySize, CaptureInv, CaptureTypeOK
  <2> DEFINE Data == {i \in claimed.dataStart .. claimed.dataStart + SlotSize - 1 :
                        i < claimed.ipEnd /\ i < captured}
  <2>2. /\ offset = claimed.dataStart /\ offset \in Nat
        /\ packetLength = IF captured <= claimed.ipEnd THEN captured ELSE claimed.ipEnd
        /\ captured \in Nat /\ claimed.ipEnd \in Nat /\ SlotSize \in Nat
    BY <1>2, CaptureAssumption DEF CaptureInv, CaptureTypeOK, LocalsAgree
  <2>3. Data = {i \in offset .. offset + SlotSize - 1 : i < packetLength}
    BY <2>2
  <2>4. CASE packetLength > offset
    <3>1. reads = offset .. offset + CopySize - 1
      BY <1>2, <2>4 DEF CaptureInv, LocalsAgree
    <3>2. Data = offset .. offset + CopySize - 1
      BY <2>1, <2>2, <2>3, <2>4
    <3> QED
      BY <3>1, <3>2
  <2>5. CASE ~(packetLength > offset)
    <3>1. reads = {}
      BY <1>2, <2>5 DEF CaptureInv, LocalsAgree
    <3>2. Data = {}
      BY <2>2, <2>3, <2>5
    <3> QED
      BY <3>1, <3>2
  <2> QED
    BY <2>4, <2>5
<1> QED
  BY <1>1, <1>2 DEF PayloadIsData
-----------------------------------------------------------------------------
(* SniExtractor.                                                           *)
SniInv ==
  /\ sniLength \in Nat
  /\ sniOffset \in Nat
  /\ extEnd \in 0 .. sniLength
  /\ sniStep = "handshake" => sniLength >= 5
  /\ SniReadsInside

LEMMA ShortIsNatural == Short \subseteq Nat /\ TlsOctet \subseteq Nat
<1>1. \A high \in TlsOctet : high \in Nat
  BY SniAssumption
<1>2. \A high, low \in TlsOctet : 256 * high + low \in Nat
  BY <1>1
<1>3. ASSUME NEW n \in Short PROVE n \in Nat
  <2>1. \E high, low \in TlsOctet : n = 256 * high + low
    BY <1>3 DEF Short
  <2> QED
    BY <1>2, <2>1
<1> QED
  BY <1>1, <1>3

LEMMA SniInitially ==
  ASSUME NEW length \in Nat
  PROVE  /\ SniAt("idle", length) => SniInv
         /\ \A s \in {"idle", "record"} : SniBecomes(s, length) => SniInv'
BY DEF SniAt, SniBecomes, SniInv, SniReadsInside

LEMMA FieldInside ==
  ASSUME SniInv, NEW s, NEW n \in Nat, Field(s, n)
  PROVE  sniReads' \subseteq 0 .. sniLength - 1
BY DEF Field, Looks, SniInv

LEMMA FieldMissingKeeps ==
  ASSUME SniInv, NEW s, NEW n \in Nat, FieldMissing(s, n)
  PROVE  SniInv'
BY DEF FieldMissing, Looks, ReturnsNothing, SniInv, SniReadsInside

(* A length that was read moves the offset, whose place is checked before  *)
(* the next field is read.                                                 *)
LEMMA SniStep == SniInv /\ SniNext => SniInv'
<1> SUFFICES ASSUME SniInv, SniNext PROVE SniInv'
  OBVIOUS
<1> USE ShortIsNatural
<1>1. CASE CheckRecordHeader
  BY <1>1 DEF CheckRecordHeader, Looks, ReturnsNothing, MovesTo, SniInv, SniReadsInside
<1>2. CASE CheckHandshake
  BY <1>2 DEF CheckHandshake, Looks, ReturnsNothing, MovesTo, SniInv, SniReadsInside
<1>3. CASE SkipSessionId
  BY <1>3, FieldInside, FieldMissingKeeps
  DEF SkipSessionId, MovesTo, SniInv, SniReadsInside
<1>4. CASE SkipCipherSuites
  BY <1>4, FieldInside, FieldMissingKeeps
  DEF SkipCipherSuites, MovesTo, SniInv, SniReadsInside
<1>5. CASE SkipCompressionMethods
  BY <1>5, FieldInside, FieldMissingKeeps
  DEF SkipCompressionMethods, MovesTo, SniInv, SniReadsInside
<1>6. CASE EnterExtensions
  BY <1>6, FieldInside, FieldMissingKeeps
  DEF EnterExtensions, BlockEnd, SniInv, SniReadsInside
<1>7. CASE NextExtension
  BY <1>7 DEF NextExtension, PastExtension, Looks, ReturnsNothing, MovesTo, SniInv, SniReadsInside
<1>8. CASE ReturnName
  BY <1>8 DEF ReturnName, Looks, ReturnsNothing, SniInv, SniReadsInside
<1> QED
  BY <1>1, <1>2, <1>3, <1>4, <1>5, <1>6, <1>7, <1>8 DEF SniNext

(* Each turn of the loop over the extensions starts inside the payload and *)
(* gets past at least the four bytes of a header.                          *)
LEMMA SniProgress ==
  ASSUME SniInv, SniNext, sniStep = "extension", sniStep' # "done"
  PROVE  sniOffset' >= sniOffset + 4 /\ sniOffset < sniLength
<1>1. NextExtension
  BY DEF SniNext, CheckRecordHeader, CheckHandshake, SkipSessionId, SkipCipherSuites,
         SkipCompressionMethods, EnterExtensions, ReturnName, Field, FieldMissing
<1> QED
  BY <1>1, ShortIsNatural DEF NextExtension, PastExtension, ReturnsNothing, MovesTo, SniInv
-----------------------------------------------------------------------------
(* DnsParser.                                                              *)
OctetsOK == \A i \in DOMAIN octets : octets[i] \in Octet

DnsInv ==
  /\ dnsLength \in Nat
  /\ dnsOffset \in Nat
  /\ cursor \in Nat
  /\ postNameOffset \in Nat
  /\ OctetsOK
  /\ DnsReadsInside

LEMMA DnsInitially ==
  ASSUME NEW length \in Nat
  PROVE  /\ DnsAt("idle", length) => DnsInv
         /\ \A s \in {"idle", "header"} : DnsBecomes(s, length) => DnsInv'
BY DEF DnsAt, DnsBecomes, DnsInv, OctetsOK, DnsReadsInside

LEMMA KeepsOctets ==
  /\ \A i \in Nat, b \in Octet : OctetsOK /\ Keep(i, <<b>>) => OctetsOK'
  /\ \A i \in Nat, b \in Octet, c \in Octet : OctetsOK /\ Keep(i, <<b, c>>) => OctetsOK'
<1>1. ASSUME NEW i \in Nat, NEW b \in Octet, OctetsOK, Keep(i, <<b>>)
      PROVE  OctetsOK'
  <2>1. octets' = Over([j \in i .. i |-> <<b>>[j - i + 1]], octets)
    BY <1>1 DEF Keep
  <2> QED
    BY <1>1, <2>1 DEF Over, OctetsOK
<1>2. ASSUME NEW i \in Nat, NEW b \in Octet, NEW c \in Octet, OctetsOK, Keep(i, <<b, c>>)
      PROVE  OctetsOK'
  <2>1. octets' = Over([j \in i .. i + 1 |-> <<b, c>>[j - i + 1]], octets)
    BY <1>2 DEF Keep
  <2> QED
    BY <1>2, <2>1 DEF Over, OctetsOK
<1> QED
  BY <1>1, <1>2

LEMMA OctetsAreNatural == Octet \subseteq Nat
BY DnsAssumption

LEMMA ByteIsOctet == OctetsOK => \A i : ByteAt(i) \subseteq Octet
BY DEF ByteAt, OctetsOK

LEMMA DnsStep == DnsInv /\ DnsNext => DnsInv'
<1> SUFFICES ASSUME DnsInv, DnsNext PROVE DnsInv'
  OBVIOUS
<1> USE OctetsAreNatural, ByteIsOctet DEF nameVars, DnsReadsInside
<1>1. CASE ReadHeader
  <2>1. CASE ReturnsUnread
    BY <2>1 DEF ReturnsUnread, Returns, DnsInv, OctetsOK
  <2>2. CASE ~(dnsLength < 12)
    <3>1. PICK high \in Octet, low \in Octet :
            /\ Keep(4, <<high, low>>)
            /\ IF 256 * high + low = 0 \/ 256 * high + low > MaxQuestions THEN Returns
               ELSE /\ DecodeNameAt(12)
                    /\ asked' = 256 * high + low
                    /\ UNCHANGED <<dnsLength, results>>
      BY <1>1, <2>2, Zenon DEF ReadHeader, HeaderSize
    <3>2. OctetsOK'
      BY <3>1, KeepsOctets DEF DnsInv
    <3>3. dnsReads' = {4, 5}
      BY <1>1, <2>2 DEF ReadHeader, HeaderSize
    <3> QED
      BY <2>2, <3>1, <3>2, <3>3 DEF Returns, DecodeNameAt, DnsInv
  <2> QED
    BY <1>1, <2>1, <2>2 DEF ReadHeader, HeaderSize
<1>2. CASE NameCutOff
  BY <1>2 DEF NameCutOff, ReturnsUnread, Returns, DnsInv, OctetsOK
<1>3. CASE Pointer
  <2> PICK b \in Octet : NameByte(b) /\
        \/ dnsReads' = {cursor} /\ Keep(cursor, <<b>>) /\ Returns
        \/ ~(cursor + 1 >= dnsLength) /\ \E low \in ByteAt(cursor + 1) : FollowPointer(b, low)
    BY <1>3 DEF Pointer
  <2>1. cursor < dnsLength
    BY DEF NameByte
  <2>2. CASE dnsReads' = {cursor} /\ Keep(cursor, <<b>>) /\ Returns
    BY <2>1, <2>2, KeepsOctets DEF Returns, DnsInv
  <2>3. ASSUME ~(cursor + 1 >= dnsLength), NEW low \in ByteAt(cursor + 1), FollowPointer(b, low)
        PROVE  DnsInv'
    <3>1. low \in Octet
      BY <2>3 DEF DnsInv
    <3>2. OctetsOK'
      BY <2>3, <3>1, KeepsOctets DEF FollowPointer, DnsInv
    <3>3. 256 * (b % 64) + low \in Nat
      BY <3>1
    <3> QED
      BY <2>1, <2>3, <3>2, <3>3 DEF FollowPointer, Returns, AfterPointer, DnsInv
  <2> QED
    BY <2>2, <2>3
<1>4. CASE EndOfName
  <2>1. cursor < dnsLength /\ 0 \in Octet
    BY <1>4 DEF EndOfName, NameByte, DnsInv
  <2>2. OctetsOK'
    BY <1>4, <2>1, KeepsOctets DEF EndOfName, DnsInv
  <2> QED
    BY <1>4, <2>1, <2>2 DEF EndOfName, DnsInv
<1>5. CASE Label
  <2> PICK len \in Octet : /\ NameByte(len)
                           /\ Keep(cursor, <<len>>)
                           /\ IF len > 63 \/ ~Fits(len)
                              THEN dnsReads' = {cursor} /\ Returns
                              ELSE /\ dnsReads' = cursor .. cursor + len
                                   /\ cursor' = cursor + 1 + len
                                   /\ UNCHANGED <<dnsLength, dnsOffset, jumped, postNameOffset>>
    BY <1>5 DEF Label
  <2>1. OctetsOK'
    BY KeepsOctets DEF DnsInv
  <2> QED
    BY <2>1 DEF NameByte, Fits, Returns, DnsInv
<1>6. CASE EndOfQuestion
  BY <1>6 DEF EndOfQuestion, DecodeNameAt, DnsInv, OctetsOK
<1> QED
  BY <1>1, <1>2, <1>3, <1>4, <1>5, <1>6 DEF DnsNext
-----------------------------------------------------------------------------
(* A message whose bytes are known in part.                                *)
IsMessage(bytes, length) ==
  /\ length \in Nat
  /\ DOMAIN bytes \subseteq 0 .. length - 1
  /\ \A i \in DOMAIN bytes : bytes[i] \in 0 .. 255

Name == [ok : BOOLEAN, labels : Seq(Nat), end : Nat]

LEMMA EmptyList == \A S : <<>> \in Seq(S)
OBVIOUS

LEMMA OneName == \A S, x : x \in S => <<x>> \in Seq(S)
OBVIOUS

LEMMA OctetBounds ==
  ASSUME NEW b \in Octet
  PROVE  b \in Nat /\ b < 256 /\ b % 64 \in Nat /\ (b < 192 => ~IsPointer(b))
BY DnsAssumption DEF IsPointer

(* A pointer lowers the number of jumps that are left, a label the bytes   *)
(* that follow.                                                            *)
LEMMA Decreases ==
  ASSUME NEW length \in Nat, NEW i \in 0 .. length, NEW j \in Nat
  PROVE  /\ j * (length + 1) + (length - i) \in Nat
         /\ \A k \in 0 .. length : i < k =>
              j * (length + 1) + (length - k) < j * (length + 1) + (length - i)
         /\ \A k \in 0 .. length : j > 0 =>
              (j - 1) * (length + 1) + (length - k) < j * (length + 1) + (length - i)
<1>1. j * (length + 1) \in Nat
  OBVIOUS
<1>2. (j - 1) * (length + 1) = j * (length + 1) - (length + 1)
  OBVIOUS
<1> QED
  BY <1>1, <1>2

EmptyName(i) == [ok |-> TRUE, labels |-> <<>>, end |-> i + 1]

PointerName(bytes, length, i, j) ==
  LET target == 256 * (bytes[i] % 64) + bytes[i + 1] IN
  IF j > 0 /\ i + 1 \in DOMAIN bytes /\ target < length
  THEN [NameFrom(bytes, length, target, j - 1) EXCEPT !.end = i + 2]
  ELSE Malformed

LabelName(bytes, length, i, j) ==
  IF bytes[i] < 64 /\ i + 1 + bytes[i] < length
  THEN [NameFrom(bytes, length, i + 1 + bytes[i], j) EXCEPT !.labels = <<i>> \o @]
  ELSE Malformed

LEMMA NameUnfolds ==
  ASSUME NEW bytes, NEW length, IsMessage(bytes, length), NEW i \in 0 .. length,
         NEW j \in 0 .. MaxJumps
  PROVE  /\ NameFrom(bytes, length, i, j) \in Name
         /\ i \notin DOMAIN bytes => NameFrom(bytes, length, i, j) = Malformed
         /\ i \in DOMAIN bytes /\ bytes[i] = 0 => NameFrom(bytes, length, i, j) = EmptyName(i)
         /\ i \in DOMAIN bytes /\ IsPointer(bytes[i]) =>
              NameFrom(bytes, length, i, j) = PointerName(bytes, length, i, j)
         /\ i \in DOMAIN bytes /\ bytes[i] # 0 /\ ~IsPointer(bytes[i]) =>
              NameFrom(bytes, length, i, j) = LabelName(bytes, length, i, j)
<1> DEFINE S == (0 .. length) \X (0 .. MaxJumps)
           target(p) == 256 * (bytes[p[1]] % 64) + bytes[p[1] + 1]
           E(f, p) ==
             IF p[1] \notin DOMAIN bytes THEN Malformed
             ELSE IF bytes[p[1]] = 0 THEN [ok |-> TRUE, labels |-> <<>>, end |-> p[1] + 1]
             ELSE IF IsPointer(bytes[p[1]])
             THEN IF p[2] > 0 /\ p[1] + 1 \in DOMAIN bytes /\ target(p) < length
                  THEN [f[<<target(p), p[2] - 1>>] EXCEPT !.end = p[1] + 2] ELSE Malformed
             ELSE IF bytes[p[1]] < 64 /\ p[1] + 1 + bytes[p[1]] < length
             THEN [f[<<p[1] + 1 + bytes[p[1]], p[2]>>] EXCEPT !.labels = <<p[1]>> \o @]
             ELSE Malformed
           H(f) == [p \in S |-> E(f, p)]
           G == [f \in [S -> Name] |-> H(f)]
           size == [p \in S |-> p[2] * (length + 1) + (length - p[1])]
           from == CHOOSE f : f = H(f)
<1>1. /\ length \in Nat /\ MaxJumps \in Nat
      /\ \A k \in DOMAIN bytes : k \in 0 .. length - 1 /\ bytes[k] \in Nat /\ bytes[k] % 64 \in Nat
  BY OctetBounds, DnsAssumption DEF IsMessage
<1>2. ASSUME NEW p \in S
      PROVE  p[1] \in 0 .. length /\ p[2] \in 0 .. MaxJumps /\ p[1] \in Nat /\ p[2] \in Nat
  BY <1>1
<1>3. ASSUME NEW p \in S, p[1] + 1 \in DOMAIN bytes, p[1] \in DOMAIN bytes, target(p) < length,
             p[2] > 0
      PROVE  /\ target(p) \in 0 .. length /\ p[2] - 1 \in 0 .. MaxJumps
             /\ <<target(p), p[2] - 1>> \in S
  <2>1. target(p) \in Nat
    BY <1>1, <1>3
  <2>2. target(p) \in 0 .. length
    BY <1>1, <1>3, <2>1
  <2>3. p[2] - 1 \in 0 .. MaxJumps
    BY <1>1, <1>2, <1>3
  <2> QED
    BY <2>2, <2>3
<1>4. ASSUME NEW p \in S, p[1] \in DOMAIN bytes, p[1] + 1 + bytes[p[1]] < length
      PROVE  /\ p[1] + 1 + bytes[p[1]] \in 0 .. length
             /\ p[1] < p[1] + 1 + bytes[p[1]]
             /\ <<p[1] + 1 + bytes[p[1]], p[2]>> \in S
  <2>1. p[1] + 1 + bytes[p[1]] \in 0 .. length /\ p[1] < p[1] + 1 + bytes[p[1]]
    BY <1>1, <1>2, <1>4
  <2> QED
    BY <1>2, <2>1
<1> HIDE DEF target
<1>5. size \in [S -> Nat]
  BY <1>1, <1>2, Decreases
<1>6. ASSUME NEW p \in S
      PROVE  /\ p[1] \in DOMAIN bytes /\ p[1] + 1 \in DOMAIN bytes /\ target(p) < length
                  /\ p[2] > 0 => size[<<target(p), p[2] - 1>>] < size[p]
             /\ p[1] \in DOMAIN bytes /\ p[1] + 1 + bytes[p[1]] < length =>
                  size[<<p[1] + 1 + bytes[p[1]], p[2]>>] < size[p]
  <2>1. \A k \in 0 .. length, l \in 0 .. MaxJumps :
          size[<<k, l>>] = l * (length + 1) + (length - k)
    OBVIOUS
  <2>2. size[p] = p[2] * (length + 1) + (length - p[1])
    OBVIOUS
  <2> HIDE DEF size, S
  <2>3. ASSUME p[1] \in DOMAIN bytes, p[1] + 1 \in DOMAIN bytes, target(p) < length, p[2] > 0
        PROVE  size[<<target(p), p[2] - 1>>] < size[p]
    <3> DEFINE k == target(p)
    <3>1. k \in 0 .. length /\ p[2] - 1 \in 0 .. MaxJumps
      BY <1>3, <2>3
    <3> HIDE DEF k
    <3>2. (p[2] - 1) * (length + 1) + (length - k) < p[2] * (length + 1) + (length - p[1])
      BY <1>1, <1>2, <2>3, <3>1, Decreases
    <3>3. size[<<k, p[2] - 1>>] = (p[2] - 1) * (length + 1) + (length - k)
      BY <2>1, <3>1
    <3> QED
      BY <2>2, <3>2, <3>3 DEF k
  <2>4. ASSUME p[1] \in DOMAIN bytes, p[1] + 1 + bytes[p[1]] < length
        PROVE  size[<<p[1] + 1 + bytes[p[1]], p[2]>>] < size[p]
    <3> DEFINE k == p[1] + 1 + bytes[p[1]]
    <3>1. k \in 0 .. length /\ p[1] < k
      BY <1>4, <2>4
    <3> HIDE DEF k
    <3>2. p[2] * (length + 1) + (length - k) < p[2] * (length + 1) + (length - p[1])
      BY <1>1, <1>2, <3>1, Decreases
    <3>3. size[<<k, p[2]>>] = p[2] * (length + 1) + (length - k)
      BY <1>2, <2>1, <3>1
    <3> QED
      BY <2>2, <3>2, <3>3 DEF k
  <2> QED
    BY <2>3, <2>4
<1> HIDE DEF size
<1>7. ASSUME NEW f, NEW p \in S, \A q \in S : size[q] < size[p] => f[q] \in Name
      PROVE  E(f, p) \in Name
  <2>1. Malformed \in Name
    BY EmptyList DEF Malformed, Name
  <2>2. [ok |-> TRUE, labels |-> <<>>, end |-> p[1] + 1] \in Name
    BY <1>2, EmptyList DEF Name
  <2>3. ASSUME NEW name \in Name
        PROVE  /\ [name EXCEPT !.end = p[1] + 2] \in Name
               /\ [name EXCEPT !.labels = <<p[1]>> \o @] \in Name
    <3>1. p[1] + 2 \in Nat
      BY <1>2
    <3>2. <<p[1]>> \o name.labels \in Seq(Nat)
      BY <1>2, OneName, ConcatProperties DEF Name
    <3> QED
      BY <3>1, <3>2 DEF Name
  <2> HIDE DEF S
  <2> QED
    BY <1>3, <1>4, <1>7, <1>6, <2>1, <2>2, <2>3
<1>8. \A f \in [S -> Name] : H(f) \in [S -> Name]
  <2> SUFFICES ASSUME NEW f \in [S -> Name], NEW p \in S PROVE E(f, p) \in Name
    OBVIOUS
  <2> HIDE DEF S, E
  <2> QED
    BY <1>7
<1>9. ASSUME NEW f \in [S -> Name], NEW g \in [S -> Name], NEW p \in S,
             \A q \in S : size[q] < size[p] => f[q] = g[q]
      PROVE  H(f)[p] = H(g)[p]
  <2> HIDE DEF S
  <2>1. E(f, p) = E(g, p)
    BY <1>3, <1>4, <1>6, <1>9
  <2> QED
    BY <2>1
<1> HIDE DEF S
<1>10. Recursive(G, S, Name, size)
  <2> HIDE DEF E
  <2> QED
    BY <1>8, <1>5, <1>9 DEF Recursive
<1>11. \E f \in [S -> Name] : f = G[f]
  <2>1. Malformed \in Name
    BY EmptyList DEF Malformed, Name
  <2> DEFINE f0 == [p \in S |-> Malformed]
  <2>2. f0 \in [S -> Name]
    BY <2>1
  <2> HIDE DEF G, f0
  <2> QED
    BY <1>10, <2>2, RecursionFits
<1>12. PICK f \in [S -> Name] : f = H(f)
  <2> HIDE DEF E
  <2> QED
    BY <1>11
<1>13. from = H(from)
  <2> HIDE DEF E
  <2> QED
    BY <1>12
<1>14. \A k, l : NameFrom(bytes, length, k, l) = from[<<k, l>>]
  BY DEF NameFrom, S, target
<1> HIDE DEF from
<1>15. ASSUME NEW p \in S PROVE from[p] = E(from, p)
  <2> HIDE DEF E
  <2> QED
    BY <1>13
<1>16. \A p \in S : from[p] \in Name
  <2> DEFINE P == {p \in S : from[p] \in Name}
  <2>1. ASSUME NEW p \in S, \A q \in S : size[q] < size[p] => q \in P PROVE p \in P
    <3>1. E(from, p) \in Name
      <4> HIDE DEF E
      <4> QED
        BY <1>7, <2>1
    <3> QED
      BY <1>15, <3>1
  <2> HIDE DEF P
  <2>2. S \subseteq P
    BY <1>5, <2>1, MeasureInduction
  <2> QED
    BY <2>2 DEF P
<1>17. <<i, j>> \in S /\ <<i, j>>[1] = i /\ <<i, j>>[2] = j
  BY DEF S
<1>18. from[<<i, j>>] = E(from, <<i, j>>)
  BY <1>15, <1>17
<1>19. NameFrom(bytes, length, i, j) \in Name
  BY <1>14, <1>16, <1>17
<1>20. i \notin DOMAIN bytes => NameFrom(bytes, length, i, j) = Malformed
  BY <1>14, <1>18
<1>21. ASSUME i \in DOMAIN bytes, bytes[i] = 0
       PROVE  NameFrom(bytes, length, i, j) = EmptyName(i)
  BY <1>14, <1>18, <1>21 DEF EmptyName
<1>22. ASSUME i \in DOMAIN bytes, IsPointer(bytes[i])
       PROVE  NameFrom(bytes, length, i, j) =
                IF j > 0 /\ i + 1 \in DOMAIN bytes /\ target(<<i, j>>) < length
                THEN [NameFrom(bytes, length, target(<<i, j>>), j - 1) EXCEPT !.end = i + 2]
                ELSE Malformed
  <2>1. bytes[i] # 0
    BY <1>22 DEF IsPointer
  <2> QED
    BY <1>14, <1>18, <1>22, <2>1
<1>23. ASSUME i \in DOMAIN bytes, bytes[i] # 0, ~IsPointer(bytes[i])
       PROVE  NameFrom(bytes, length, i, j) =
                IF bytes[i] < 64 /\ i + 1 + bytes[i] < length
                THEN [NameFrom(bytes, length, i + 1 + bytes[i], j) EXCEPT !.labels = <<i>> \o @]
                ELSE Malformed
  <2> DEFINE k == i + 1 + bytes[i]
  <2>1. from[<<i, j>>] = IF bytes[i] < 64 /\ k < length
                         THEN [from[<<k, j>>] EXCEPT !.labels = <<i>> \o @]
                         ELSE Malformed
    BY <1>18, <1>23
  <2>2. NameFrom(bytes, length, i, j) = from[<<i, j>>]
        /\ NameFrom(bytes, length, k, j) = from[<<k, j>>]
    BY <1>14
  <2> HIDE DEF E, k
  <2>3. NameFrom(bytes, length, i, j) = IF bytes[i] < 64 /\ k < length
                         THEN [NameFrom(bytes, length, k, j) EXCEPT !.labels = <<i>> \o @]
                         ELSE Malformed
    BY <2>1, <2>2
  <2> QED
    BY <2>3 DEF k
<1> HIDE DEF E
<1> QED
  BY <1>19, <1>20, <1>21, <1>22, <1>23 DEF target, PointerName, LabelName

Names == Seq(Seq(Nat))

(* The questions from the one on whose name was decoded.                   *)
After(bytes, length, name, n) ==
  IF ~name.ok \/ name.end + 4 > length THEN <<>>
  ELSE <<name.labels>> \o QuestionsFrom(bytes, length, name.end + 4, n - 1)

LEMMA QuestionsUnfold ==
  ASSUME NEW bytes, NEW length, IsMessage(bytes, length), NEW i \in 0 .. length,
         NEW n \in 0 .. MaxQuestions
  PROVE  /\ QuestionsFrom(bytes, length, i, n) \in Names
         /\ QuestionsFrom(bytes, length, i, n) =
              IF n = 0 THEN <<>>
              ELSE After(bytes, length, NameFrom(bytes, length, i, MaxJumps), n)
<1> DEFINE S == (0 .. length) \X (0 .. MaxQuestions)
           name(p) == NameFrom(bytes, length, p[1], MaxJumps)
           E(f, p) ==
             IF p[2] = 0 \/ ~name(p).ok \/ name(p).end + 4 > length THEN <<>>
             ELSE <<name(p).labels>> \o f[<<name(p).end + 4, p[2] - 1>>]
           H(f) == [p \in S |-> E(f, p)]
           G == [f \in [S -> Names] |-> H(f)]
           size == [p \in S |-> p[2]]
           from == CHOOSE f : f = H(f)
<1>1. length \in Nat /\ MaxQuestions \in Nat /\ MaxJumps \in 0 .. MaxJumps
  BY DnsAssumption DEF IsMessage
<1>2. ASSUME NEW p \in S PROVE name(p) \in Name /\ p[2] \in 0 .. MaxQuestions
  BY <1>1, NameUnfolds
<1> HIDE DEF name
<1>3. ASSUME NEW p \in S, p[2] # 0, ~(name(p).end + 4 > length)
      PROVE  /\ <<name(p).end + 4, p[2] - 1>> \in S
             /\ size[<<name(p).end + 4, p[2] - 1>>] < size[p]
  <2>1. name(p).end + 4 \in 0 .. length
    BY <1>1, <1>2, <1>3 DEF Name
  <2>2. p[2] - 1 \in 0 .. MaxQuestions /\ p[2] - 1 < p[2]
    BY <1>1, <1>2, <1>3
  <2>3. <<name(p).end + 4, p[2] - 1>> \in S
    BY <2>1, <2>2
  <2> QED
    BY <2>2, <2>3
<1>4. size \in [S -> Nat]
  BY <1>1
<1>5. ASSUME NEW f, NEW p \in S, \A q \in S : size[q] < size[p] => f[q] \in Names
      PROVE  E(f, p) \in Names
  <2> HIDE DEF S, size
  <2>1. ASSUME NEW rest \in Names PROVE <<name(p).labels>> \o rest \in Names
    <3>1. <<name(p).labels>> \in Names
      BY <1>2, OneName DEF Name, Names
    <3> QED
      BY <3>1, ConcatProperties DEF Names
  <2>2. <<>> \in Names
    BY EmptyList DEF Names
  <2> QED
    BY <1>3, <1>5, <2>1, <2>2
<1>6. \A f \in [S -> Names] : H(f) \in [S -> Names]
  <2> SUFFICES ASSUME NEW f \in [S -> Names], NEW p \in S PROVE E(f, p) \in Names
    OBVIOUS
  <2> HIDE DEF S, E, size
  <2> QED
    BY <1>5
<1>7. ASSUME NEW f \in [S -> Names], NEW g \in [S -> Names], NEW p \in S,
             \A q \in S : size[q] < size[p] => f[q] = g[q]
      PROVE  H(f)[p] = H(g)[p]
  <2> HIDE DEF S, size
  <2>1. E(f, p) = E(g, p)
    BY <1>3, <1>7
  <2> QED
    BY <2>1
<1> HIDE DEF S, size
<1>8. Recursive(G, S, Names, size)
  <2> HIDE DEF E
  <2> QED
    BY <1>4, <1>6, <1>7 DEF Recursive
<1>9. \E f \in [S -> Names] : f = G[f]
  <2> DEFINE f0 == [p \in S |-> <<>>]
  <2>1. f0 \in [S -> Names]
    BY EmptyList DEF Names
  <2> HIDE DEF G, f0
  <2> QED
    BY <1>8, <2>1, RecursionFits
<1>10. PICK f \in [S -> Names] : f = H(f)
  <2> HIDE DEF E
  <2> QED
    BY <1>9
<1>11. from = H(from)
  <2> HIDE DEF E
  <2> QED
    BY <1>10
<1>12. \A k, l : QuestionsFrom(bytes, length, k, l) = from[<<k, l>>]
  BY DEF QuestionsFrom, S, name
<1> HIDE DEF from
<1>13. ASSUME NEW p \in S PROVE from[p] = E(from, p)
  <2> HIDE DEF E
  <2> QED
    BY <1>11
<1>14. \A p \in S : from[p] \in Names
  <2> DEFINE P == {p \in S : from[p] \in Names}
  <2>1. ASSUME NEW p \in S, \A q \in S : size[q] < size[p] => q \in P PROVE p \in P
    <3>1. E(from, p) \in Names
      <4> HIDE DEF E
      <4> QED
        BY <1>5, <2>1
    <3> QED
      BY <1>13, <3>1
  <2> HIDE DEF P
  <2>2. S \subseteq P
    BY <1>4, <2>1, MeasureInduction
  <2> QED
    BY <2>2 DEF P
<1>15. <<i, n>> \in S /\ <<i, n>>[1] = i /\ <<i, n>>[2] = n
  BY DEF S
<1>16. QuestionsFrom(bytes, length, i, n) \in Names
  BY <1>12, <1>14, <1>15
<1>17. from[<<i, n>>] = IF n = 0 THEN <<>>
                        ELSE After(bytes, length, NameFrom(bytes, length, i, MaxJumps), n)
  <2>1. from[<<i, n>>] = E(from, <<i, n>>)
    BY <1>13, <1>15
  <2> QED
    BY <1>12, <1>15, <2>1 DEF After, name
<1> QED
  BY <1>12, <1>16, <1>17

(* The inductive invariant.  Whatever the bytes are that were not read     *)
(* yet, the questions of the message are those that were found, then the   *)
(* one that is being read, then those behind it.                           *)
Completes(bytes) ==
  /\ IsMessage(bytes, dnsLength)
  /\ DOMAIN octets \subseteq DOMAIN bytes
  /\ \A i \in DOMAIN octets : bytes[i] = octets[i]

(* The name whose labels so far decode_name has, if it goes on with rest.  *)
Continued(rest) ==
  [ok |-> rest.ok, labels |-> labels \o rest.labels,
   end |-> IF jumped THEN postNameOffset ELSE rest.end]

Remaining(bytes) ==
  IF dnsStep = "name"
  THEN After(bytes, dnsLength,
             Continued(NameFrom(bytes, dnsLength, cursor, MaxJumps - jumps)), asked)
  ELSE IF dnsStep = "tail"
  THEN After(bytes, dnsLength, [ok |-> TRUE, labels |-> labels, end |-> dnsOffset], asked)
  ELSE <<>>

Explained ==
  5 \in DOMAIN octets =>
    \A bytes : Completes(bytes) => Questions(bytes, dnsLength) = results \o Remaining(bytes)

QuestionsInv ==
  /\ DOMAIN octets \subseteq 0 .. dnsLength - 1
  /\ dnsStep \in {"idle", "header"} => DOMAIN octets = {} /\ results = <<>>
  /\ dnsStep \in {"name", "tail"} => asked \in 1 .. MaxQuestions /\ 5 \in DOMAIN octets
  /\ dnsStep = "name" => cursor \in 0 .. dnsLength
  /\ jumps \in 0 .. MaxJumps
  /\ labels \in Seq(Nat)
  /\ results \in Names
  /\ Explained

LEMMA ListFacts ==
  /\ \A S : \A list \in Seq(S) : <<>> \o list = list /\ list \o <<>> = list
  /\ \A S : \A x \in S : \A list, rest \in Seq(S) :
       Append(list, x) \o rest = list \o (<<x>> \o rest)
<1>1. \A S : \A x \in S : \A list, rest \in Seq(S) :
        Append(list, x) \o rest = list \o (<<x>> \o rest)
  <2> TAKE S
  <2> TAKE x \in S
  <2> TAKE list, rest \in Seq(S)
  <2>1. <<x>> \in Seq(S) /\ Append(list, x) = list \o <<x>>
    BY OneName, AppendIsConcat
  <2> QED
    BY <2>1, ConcatAssociative
<1> QED
  BY <1>1, ConcatEmptySeq

(* Bytes that are read are kept, and those that were known stay the same.  *)
LEMMA OneByteKept ==
  ASSUME DnsInv, QuestionsInv, NEW b, b \in ByteAt(cursor), cursor < dnsLength,
         Keep(cursor, <<b>>), UNCHANGED dnsLength
  PROVE  /\ cursor \in DOMAIN octets' /\ octets'[cursor] = b /\ b \in Octet
         /\ DOMAIN octets' = DOMAIN octets \cup {cursor}
         /\ \A i \in DOMAIN octets : octets'[i] = octets[i]
<1>1. cursor \in Nat
  BY DEF DnsInv
<1>2. octets' = Over([j \in cursor .. cursor |-> <<b>>[j - cursor + 1]], octets)
  BY <1>1 DEF Keep
<1>3. octets' = [x \in {cursor} \cup DOMAIN octets |-> IF x = cursor THEN b ELSE octets[x]]
  BY <1>1, <1>2 DEF Over
<1>4. b \in Octet
  BY DEF ByteAt, DnsInv, OctetsOK
<1>5. cursor \in DOMAIN octets => octets[cursor] = b
  BY DEF ByteAt
<1> QED
  BY <1>3, <1>4, <1>5

LEMMA TwoBytesKept ==
  ASSUME DnsInv, QuestionsInv, NEW b, b \in ByteAt(cursor), NEW low, low \in ByteAt(cursor + 1),
         Keep(cursor, <<b, low>>)
  PROVE  /\ cursor \in DOMAIN octets' /\ octets'[cursor] = b /\ b \in Octet
         /\ cursor + 1 \in DOMAIN octets' /\ octets'[cursor + 1] = low /\ low \in Octet
         /\ DOMAIN octets' = DOMAIN octets \cup {cursor, cursor + 1}
         /\ \A i \in DOMAIN octets : octets'[i] = octets[i]
<1>1. cursor \in Nat
  BY DEF DnsInv
<1>2. octets' = Over([j \in cursor .. cursor + 1 |-> <<b, low>>[j - cursor + 1]], octets)
  BY <1>1 DEF Keep
<1> DEFINE new == [j \in cursor .. cursor + 1 |-> <<b, low>>[j - cursor + 1]]
<1>3. /\ DOMAIN new = {cursor, cursor + 1}
      /\ new[cursor] = b /\ new[cursor + 1] = low
  BY <1>1
<1> HIDE DEF new
<1>4. /\ DOMAIN octets' = DOMAIN octets \cup {cursor, cursor + 1}
      /\ \A x \in DOMAIN octets' : octets'[x] = IF x \in DOMAIN new THEN new[x] ELSE octets[x]
  BY <1>2, <1>3 DEF Over, new
<1>5. b \in Octet /\ low \in Octet
  BY DEF ByteAt, DnsInv, OctetsOK
<1>6. /\ cursor \in DOMAIN octets => octets[cursor] = b
      /\ cursor + 1 \in DOMAIN octets => octets[cursor + 1] = low
  BY DEF ByteAt
<1> QED
  BY <1>3, <1>5, <1>6, <1>4

(* So a step that accounts for the rest of the questions keeps the         *)
(* invariant.                                                              *)
LEMMA ExplainedStep ==
  ASSUME QuestionsInv, UNCHANGED dnsLength, 5 \in DOMAIN octets,
         DOMAIN octets \subseteq DOMAIN octets', \A i \in DOMAIN octets : octets'[i] = octets[i],
         \A bytes : Completes(bytes)' =>
           results' \o Remaining(bytes)' = results \o Remaining(bytes)
  PROVE  Explained'
<1> SUFFICES ASSUME 5 \in DOMAIN octets', NEW bytes, Completes(bytes)'
             PROVE  Questions(bytes, dnsLength') = results' \o Remaining(bytes)'
  BY DEF Explained
<1>1. Completes(bytes)
  BY DEF Completes
<1>2. Questions(bytes, dnsLength) = results \o Remaining(bytes)
  BY <1>1 DEF QuestionsInv, Explained
<1> QED
  BY <1>2

LEMMA Positions ==
  ASSUME DnsInv, QuestionsInv, dnsStep = "name"
  PROVE  /\ cursor \in 0 .. dnsLength /\ MaxJumps - jumps \in 0 .. MaxJumps
         /\ asked \in 1 .. MaxQuestions /\ 5 \in DOMAIN octets
         /\ dnsLength \in Nat /\ jumps \in Nat /\ MaxJumps \in Nat
BY DnsAssumption DEF DnsInv, QuestionsInv

(* The rest of the message is not read when the name is malformed.         *)
LEMMA MalformedEnds ==
  ASSUME DnsInv, QuestionsInv, dnsStep = "name", Returns,
         DOMAIN octets' \subseteq 0 .. dnsLength - 1,
         DOMAIN octets \subseteq DOMAIN octets', \A i \in DOMAIN octets : octets'[i] = octets[i],
         \A bytes : Completes(bytes)' =>
           NameFrom(bytes, dnsLength, cursor, MaxJumps - jumps) = Malformed
  PROVE  QuestionsInv'
<1>1. dnsStep' = "done" /\ UNCHANGED <<dnsLength, asked, dnsOffset, nameVars, results>>
  BY DEF Returns
<1>2. ASSUME NEW bytes, Completes(bytes)' PROVE Remaining(bytes) = <<>> /\ Remaining(bytes)' = <<>>
  <2>1. Remaining(bytes)
          = After(bytes, dnsLength,
                  Continued(NameFrom(bytes, dnsLength, cursor, MaxJumps - jumps)), asked)
    BY DEF Remaining
  <2>2. ~Continued(Malformed).ok
    BY DEF Continued, Malformed
  <2>3. Remaining(bytes)' = <<>>
    BY <1>1 DEF Remaining
  <2> QED
    BY <1>2, <2>1, <2>2, <2>3 DEF After
<1>3. Explained'
  BY <1>1, <1>2, Positions, ExplainedStep
<1> QED
  BY <1>1, <1>3 DEF QuestionsInv, nameVars

LEMMA CutOffStep ==
  ASSUME DnsInv, QuestionsInv, NameCutOff
  PROVE  QuestionsInv'
<1>1. dnsStep = "name" /\ cursor >= dnsLength /\ Returns /\ octets' = octets
  BY DEF NameCutOff, ReturnsUnread
<1>2. ASSUME NEW bytes, Completes(bytes)'
      PROVE  NameFrom(bytes, dnsLength, cursor, MaxJumps - jumps) = Malformed
  <2>1. dnsLength' = dnsLength
    BY <1>1 DEF Returns
  <2>2. IsMessage(bytes, dnsLength)
    BY <1>2, <2>1 DEF Completes
  <2>3. cursor \notin DOMAIN bytes
    BY <1>1, <2>2, Positions DEF IsMessage
  <2> QED
    BY <1>1, <2>2, <2>3, Positions, NameUnfolds
<1> QED
  BY <1>1, <1>2, MalformedEnds DEF QuestionsInv

LEMMA PointerStep ==
  ASSUME DnsInv, QuestionsInv, Pointer
  PROVE  QuestionsInv'
<1>1. PICK b \in Octet : /\ NameByte(b) /\ IsPointer(b)
        /\ IF cursor + 1 >= dnsLength \/ CountedJump > MaxJumps
           THEN dnsReads' = {cursor} /\ Keep(cursor, <<b>>) /\ Returns
           ELSE \E low \in ByteAt(cursor + 1) : FollowPointer(b, low)
  BY DEF Pointer
<1>2. dnsStep = "name" /\ cursor < dnsLength /\ b \in ByteAt(cursor)
  BY <1>1 DEF NameByte
<1>3. /\ cursor \in 0 .. dnsLength /\ MaxJumps - jumps \in 0 .. MaxJumps
      /\ asked \in 1 .. MaxQuestions /\ 5 \in DOMAIN octets
      /\ dnsLength \in Nat /\ jumps \in Nat /\ MaxJumps \in Nat
  BY <1>2, Positions
<1>4. CASE cursor + 1 >= dnsLength \/ CountedJump > MaxJumps
  <2>1. Keep(cursor, <<b>>) /\ Returns /\ dnsLength' = dnsLength
    BY <1>1, <1>4 DEF Returns
  <2>2. /\ cursor \in DOMAIN octets' /\ octets'[cursor] = b
        /\ DOMAIN octets' = DOMAIN octets \cup {cursor}
        /\ \A i \in DOMAIN octets : octets'[i] = octets[i]
    BY <1>2, <2>1, OneByteKept
  <2>3. ASSUME NEW bytes, Completes(bytes)'
        PROVE  NameFrom(bytes, dnsLength, cursor, MaxJumps - jumps) = Malformed
    <3>1. IsMessage(bytes, dnsLength) /\ cursor \in DOMAIN bytes /\ bytes[cursor] = b
      BY <2>1, <2>2, <2>3 DEF Completes
    <3>2. ~(MaxJumps - jumps > 0 /\ cursor + 1 \in DOMAIN bytes)
      BY <1>3, <1>4, <3>1 DEF IsMessage, CountedJump
    <3> QED
      BY <1>1, <1>3, <3>1, <3>2, NameUnfolds DEF PointerName
  <2>4. DOMAIN octets' \subseteq 0 .. dnsLength - 1
    BY <1>2, <1>3, <2>2 DEF QuestionsInv
  <2> QED
    BY <1>2, <2>1, <2>2, <2>3, <2>4, MalformedEnds
<1>5. CASE ~(cursor + 1 >= dnsLength \/ CountedJump > MaxJumps)
  <2>1. PICK low \in ByteAt(cursor + 1) : FollowPointer(b, low)
    BY <1>1, <1>5
  <2> DEFINE target == 256 * (b % 64) + low
  <2>2. Keep(cursor, <<b, low>>)
    BY <2>1 DEF FollowPointer
  <2>3. /\ cursor \in DOMAIN octets' /\ octets'[cursor] = b /\ low \in Octet
        /\ cursor + 1 \in DOMAIN octets' /\ octets'[cursor + 1] = low
        /\ DOMAIN octets' = DOMAIN octets \cup {cursor, cursor + 1}
        /\ \A i \in DOMAIN octets : octets'[i] = octets[i]
    BY <1>2, <2>2, TwoBytesKept
  <2>4. target \in Nat
    BY <2>3, OctetBounds
  <2>5. DOMAIN octets' \subseteq 0 .. dnsLength - 1
    BY <1>2, <1>3, <1>5, <2>3 DEF QuestionsInv
  <2>6. ASSUME NEW bytes, Completes(bytes)', dnsLength' = dnsLength
        PROVE  /\ IsMessage(bytes, dnsLength)
               /\ NameFrom(bytes, dnsLength, cursor, MaxJumps - jumps) =
                    IF target < dnsLength
                    THEN [NameFrom(bytes, dnsLength, target, MaxJumps - jumps - 1)
                            EXCEPT !.end = cursor + 2]
                    ELSE Malformed
    <3>1. /\ IsMessage(bytes, dnsLength) /\ cursor \in DOMAIN bytes /\ bytes[cursor] = b
          /\ cursor + 1 \in DOMAIN bytes /\ bytes[cursor + 1] = low
      BY <2>3, <2>6 DEF Completes
    <3>2. MaxJumps - jumps > 0
      BY <1>3, <1>5 DEF CountedJump
    <3> DEFINE j == MaxJumps - jumps
    <3>3. j \in 0 .. MaxJumps /\ j > 0
      BY <1>3, <3>2
    <3> HIDE DEF j
    <3>4. NameFrom(bytes, dnsLength, cursor, j) =
            IF target < dnsLength
            THEN [NameFrom(bytes, dnsLength, target, j - 1) EXCEPT !.end = cursor + 2]
            ELSE Malformed
      BY <1>1, <1>3, <3>1, <3>3, NameUnfolds DEF PointerName
    <3> QED
      BY <3>1, <3>4 DEF j
  <2> HIDE DEF target
  <2>7. CASE target >= dnsLength
    <3>1. Returns /\ dnsLength' = dnsLength
      BY <2>1, <2>7 DEF FollowPointer, target, Returns
    <3>2. ~(target < dnsLength)
      BY <1>3, <2>4, <2>7
    <3> QED
      BY <1>2, <2>3, <2>5, <2>6, <3>1, <3>2, MalformedEnds
  <2>8. CASE ~(target >= dnsLength)
    <3>1. /\ cursor' = target /\ jumped' = TRUE /\ postNameOffset' = AfterPointer
          /\ jumps' = jumps + 1
          /\ UNCHANGED <<dnsStep, dnsLength, asked, dnsOffset, labels, results>>
      BY <2>1, <2>8 DEF FollowPointer, target, CountedJump
    <3>2. target < dnsLength /\ target \in 0 .. dnsLength /\ jumps' \in 0 .. MaxJumps
          /\ MaxJumps - jumps' = MaxJumps - jumps - 1 /\ MaxJumps - jumps' \in 0 .. MaxJumps
      BY <1>3, <1>5, <2>4, <2>8, <3>1 DEF CountedJump
    <3>3. ASSUME NEW bytes, Completes(bytes)' PROVE Remaining(bytes)' = Remaining(bytes)
      <4> DEFINE name == NameFrom(bytes, dnsLength, target, MaxJumps - jumps - 1)
                 here == NameFrom(bytes, dnsLength, cursor, MaxJumps - jumps)
      <4>1. name \in Name
        BY <1>3, <2>6, <3>1, <3>2, <3>3, NameUnfolds
      <4>2. here = [name EXCEPT !.end = cursor + 2]
        BY <2>6, <3>1, <3>2, <3>3
      <4>3. Remaining(bytes) = After(bytes, dnsLength, Continued(here), asked)
        BY <1>2 DEF Remaining
      <4> DEFINE whole == [ok |-> name.ok, labels |-> labels \o name.labels, end |-> AfterPointer]
      <4>4. Remaining(bytes)' = After(bytes, dnsLength, whole, asked)
        <5>1. Remaining(bytes)' =
                After(bytes, dnsLength', Continued(NameFrom(bytes, dnsLength, cursor, MaxJumps - jumps))',
                      asked')
          BY <1>2, <3>1 DEF Remaining
        <5>2. NameFrom(bytes, dnsLength, cursor, MaxJumps - jumps)' = name
          BY <3>1, <3>2
        <5>3. Continued(NameFrom(bytes, dnsLength, cursor, MaxJumps - jumps))' = whole
          BY <3>1, <5>2 DEF Continued
        <5> QED
          BY <3>1, <5>1, <5>3
      <4> HIDE DEF name, here
      <4>5. Continued(here) = whole
        BY <4>1, <4>2 DEF Continued, Name, AfterPointer
      <4> QED
        BY <4>3, <4>4, <4>5
    <3>4. Explained'
      BY <1>3, <2>3, <3>1, <3>3, ExplainedStep
    <3>5. cursor' \in 0 .. dnsLength'
      BY <3>1, <3>2
    <3> QED
      BY <1>2, <1>3, <2>3, <2>5, <3>1, <3>2, <3>4, <3>5 DEF QuestionsInv
  <2> QED
    BY <2>7, <2>8
<1> QED
  BY <1>4, <1>5

LEMMA EndOfNameStep ==
  ASSUME DnsInv, QuestionsInv, EndOfName
  PROVE  QuestionsInv'
<1>1. /\ dnsStep = "name" /\ cursor < dnsLength /\ 0 \in ByteAt(cursor)
      /\ Keep(cursor, <<0>>) /\ dnsStep' = "tail"
      /\ dnsOffset' = IF jumped THEN postNameOffset ELSE cursor + 1
      /\ UNCHANGED <<dnsLength, asked, nameVars, results>>
  BY DEF EndOfName, NameByte
<1>2. /\ cursor \in 0 .. dnsLength /\ MaxJumps - jumps \in 0 .. MaxJumps
      /\ asked \in 1 .. MaxQuestions /\ 5 \in DOMAIN octets /\ dnsLength \in Nat
  BY <1>1, Positions
<1>3. /\ cursor \in DOMAIN octets' /\ octets'[cursor] = 0
      /\ DOMAIN octets' = DOMAIN octets \cup {cursor}
      /\ \A i \in DOMAIN octets : octets'[i] = octets[i]
  BY <1>1, OneByteKept
<1>4. DOMAIN octets' \subseteq 0 .. dnsLength - 1
  BY <1>1, <1>2, <1>3 DEF QuestionsInv
<1>5. ASSUME NEW bytes, Completes(bytes)' PROVE Remaining(bytes)' = Remaining(bytes)
  <2> DEFINE j == MaxJumps - jumps
             here == NameFrom(bytes, dnsLength, cursor, j)
  <2>1. IsMessage(bytes, dnsLength) /\ cursor \in DOMAIN bytes
    BY <1>1, <1>3, <1>5 DEF Completes
  <2>2. bytes[cursor] = 0
    BY <1>1, <1>3, <1>5 DEF Completes
  <2>3. here = [ok |-> TRUE, labels |-> <<>>, end |-> cursor + 1]
    <3>1. j \in 0 .. MaxJumps
      BY <1>2
    <3> HIDE DEF j
    <3>2. bytes[cursor] = 0 => NameFrom(bytes, dnsLength, cursor, j) = EmptyName(cursor)
      BY <1>2, <2>1, <3>1, NameUnfolds
    <3> QED
      BY <2>2, <3>2 DEF EmptyName
  <2>4. Remaining(bytes) = After(bytes, dnsLength, Continued(here), asked)
    BY <1>1 DEF Remaining
  <2>5. Remaining(bytes)' =
          After(bytes, dnsLength, [ok |-> TRUE, labels |-> labels, end |-> dnsOffset'], asked)
    BY <1>1 DEF Remaining, nameVars
  <2> HIDE DEF here
  <2>6. labels \o <<>> = labels
    BY ListFacts DEF QuestionsInv
  <2>7. Continued(here) = [ok |-> TRUE, labels |-> labels, end |-> dnsOffset']
    BY <1>1, <2>3, <2>6 DEF Continued
  <2> QED
    BY <2>4, <2>5, <2>7
<1>6. Explained'
  BY <1>1, <1>2, <1>3, <1>5, ExplainedStep
<1> QED
  BY <1>1, <1>2, <1>3, <1>4, <1>6 DEF QuestionsInv, nameVars

LEMMA LabelStep ==
  ASSUME DnsInv, QuestionsInv, Label
  PROVE  QuestionsInv'
<1>1. PICK b \in Octet :
        /\ NameByte(b) /\ b # 0 /\ ~IsPointer(b) /\ Keep(cursor, <<b>>)
        /\ IF b > 63 \/ ~Fits(b) THEN dnsReads' = {cursor} /\ Returns
           ELSE /\ labels' = Append(labels, cursor) /\ cursor' = cursor + 1 + b
                /\ UNCHANGED <<dnsStep, dnsLength, asked, dnsOffset, jumped, postNameOffset,
                               jumps, results>>
  BY DEF Label
<1>2. /\ dnsStep = "name" /\ cursor < dnsLength /\ b \in ByteAt(cursor) /\ b \in Nat
      /\ dnsLength' = dnsLength
  BY <1>1, OctetBounds DEF NameByte, Returns
<1>3. /\ cursor \in 0 .. dnsLength /\ MaxJumps - jumps \in 0 .. MaxJumps
      /\ asked \in 1 .. MaxQuestions /\ 5 \in DOMAIN octets /\ dnsLength \in Nat
  BY <1>2, Positions
<1>4. /\ cursor \in DOMAIN octets' /\ octets'[cursor] = b
      /\ DOMAIN octets' = DOMAIN octets \cup {cursor}
      /\ \A i \in DOMAIN octets : octets'[i] = octets[i]
  BY <1>1, <1>2, OneByteKept
<1>5. DOMAIN octets' \subseteq 0 .. dnsLength - 1
  BY <1>2, <1>3, <1>4 DEF QuestionsInv
<1> DEFINE j == MaxJumps - jumps
           next == cursor + 1 + b
<1>6. ASSUME NEW bytes, Completes(bytes)'
      PROVE  /\ IsMessage(bytes, dnsLength)
             /\ NameFrom(bytes, dnsLength, cursor, j) =
                  IF b < 64 /\ next < dnsLength
                  THEN [NameFrom(bytes, dnsLength, next, j) EXCEPT !.labels = <<cursor>> \o @]
                  ELSE Malformed
  <2>1. IsMessage(bytes, dnsLength) /\ cursor \in DOMAIN bytes /\ bytes[cursor] = b
    BY <1>2, <1>4, <1>6 DEF Completes
  <2> HIDE DEF j
  <2> QED
    BY <1>1, <1>3, <2>1, NameUnfolds DEF j, LabelName
<1>7. CASE b > 63 \/ ~Fits(b)
  <2>1. ~(b < 64 /\ next < dnsLength)
    BY <1>2, <1>3, <1>7 DEF Fits
  <2>2. Returns
    BY <1>1, <1>7
  <2> QED
    BY <1>2, <1>4, <1>5, <1>6, <2>1, <2>2, MalformedEnds
<1>8. CASE ~(b > 63 \/ ~Fits(b))
  <2>1. /\ labels' = Append(labels, cursor) /\ cursor' = next
        /\ UNCHANGED <<dnsStep, dnsLength, asked, dnsOffset, jumped, postNameOffset,
                       jumps, results>>
    BY <1>1, <1>8
  <2>2. b < 64 /\ next \in 0 .. dnsLength
    BY <1>2, <1>3, <1>8 DEF Fits
  <2>3. labels \in Seq(Nat) /\ cursor \in Nat /\ labels' \in Seq(Nat)
    BY <1>3, <2>1, AppendProperties DEF QuestionsInv
  <2> HIDE DEF next
  <2>4. ASSUME NEW bytes, Completes(bytes)' PROVE Remaining(bytes)' = Remaining(bytes)
    <3> DEFINE name == NameFrom(bytes, dnsLength, next, j)
               here == NameFrom(bytes, dnsLength, cursor, j)
    <3>1. IsMessage(bytes, dnsLength) /\ j \in 0 .. MaxJumps
      BY <1>3, <1>6, <2>4
    <3>2. name \in Name /\ (next \notin DOMAIN bytes => name = Malformed)
      <4> HIDE DEF j
      <4> QED
        BY <2>2, <3>1, NameUnfolds
    <3>3. here = IF next < dnsLength THEN [name EXCEPT !.labels = <<cursor>> \o @]
                 ELSE Malformed
      BY <1>6, <2>2, <2>4
    <3>4. Remaining(bytes) = After(bytes, dnsLength, Continued(here), asked)
      BY <1>2 DEF Remaining
    <3> DEFINE whole == [ok |-> name.ok, labels |-> Append(labels, cursor) \o name.labels,
                         end |-> IF jumped THEN postNameOffset ELSE name.end]
    <3>5. Remaining(bytes)' = After(bytes, dnsLength, whole, asked)
      <4>1. Remaining(bytes)' =
              After(bytes, dnsLength', Continued(NameFrom(bytes, dnsLength, cursor, MaxJumps - jumps))',
                    asked')
        BY <1>2, <2>1 DEF Remaining
      <4>2. NameFrom(bytes, dnsLength, cursor, MaxJumps - jumps)' = name
        BY <2>1
      <4>3. Continued(NameFrom(bytes, dnsLength, cursor, MaxJumps - jumps))' = whole
        BY <2>1, <4>2 DEF Continued
      <4> QED
        BY <2>1, <4>1, <4>3
    <3> HIDE DEF name, here
    <3>6. CASE next < dnsLength
      <4>1. Append(labels, cursor) \o name.labels = labels \o (<<cursor>> \o name.labels)
        BY <2>3, <3>2, ListFacts DEF Name
      <4>2. Continued(here) = whole
        BY <3>2, <3>3, <3>6, <4>1 DEF Continued, Name
      <4> QED
        BY <3>4, <3>5, <4>2
    <3>7. CASE ~(next < dnsLength)
      <4>1. next \notin DOMAIN bytes
        BY <1>3, <2>2, <3>1, <3>7 DEF IsMessage
      <4>2. ~name.ok /\ ~here.ok
        BY <3>2, <3>3, <3>7, <4>1 DEF Malformed
      <4> QED
        BY <3>4, <3>5, <4>2 DEF After, Continued
    <3> QED
      BY <3>6, <3>7
  <2>5. Explained'
    BY <1>2, <1>3, <1>4, <2>1, <2>4, ExplainedStep
  <2>6. cursor' \in 0 .. dnsLength'
    BY <1>2, <2>1, <2>2
  <2> QED
    BY <1>2, <1>3, <1>4, <1>5, <2>1, <2>3, <2>5, <2>6 DEF QuestionsInv
<1> QED
  BY <1>7, <1>8

LEMMA EndOfQuestionStep ==
  ASSUME DnsInv, QuestionsInv, EndOfQuestion
  PROVE  QuestionsInv'
<1>1. dnsStep = "tail" /\ UNCHANGED <<octets, dnsLength>>
  BY DEF EndOfQuestion
<1>2. /\ asked \in 1 .. MaxQuestions /\ 5 \in DOMAIN octets /\ labels \in Seq(Nat)
      /\ results \in Names /\ dnsLength \in Nat /\ dnsOffset \in Nat /\ MaxQuestions \in Nat
      /\ MaxJumps \in Nat /\ jumps \in 0 .. MaxJumps
  BY <1>1, DnsAssumption DEF DnsInv, QuestionsInv
<1> DEFINE name == [ok |-> TRUE, labels |-> labels, end |-> dnsOffset]
<1>3. \A bytes : Remaining(bytes) = After(bytes, dnsLength, name, asked)
  BY <1>1 DEF Remaining
<1>4. CASE dnsOffset + 4 > dnsLength
  <2>1. dnsStep' = "done" /\ UNCHANGED <<asked, dnsOffset, nameVars, results>>
    BY <1>4 DEF EndOfQuestion
  <2>2. ASSUME NEW bytes PROVE Remaining(bytes)' = Remaining(bytes)
    BY <1>3, <1>4, <2>1 DEF Remaining, After
  <2>3. Explained'
    BY <1>1, <1>2, <2>1, <2>2, ExplainedStep
  <2> QED
    BY <1>1, <1>2, <2>1, <2>3 DEF QuestionsInv, nameVars
<1>5. CASE ~(dnsOffset + 4 > dnsLength)
  <2>1. /\ results' = Append(results, labels) /\ asked' = asked - 1
        /\ IF asked > 1 THEN DecodeNameAt(dnsOffset + 4)
           ELSE dnsStep' = "done" /\ UNCHANGED nameVars
    BY <1>5 DEF EndOfQuestion
  <2>2. dnsOffset + 4 \in 0 .. dnsLength /\ asked - 1 \in 0 .. MaxQuestions
        /\ MaxJumps \in 0 .. MaxJumps
    BY <1>2, <1>5
  <2>3. results' \in Names
    BY <1>2, <2>1, AppendProperties DEF Names
  <2> DEFINE rest(bytes) == QuestionsFrom(bytes, dnsLength, dnsOffset + 4, asked - 1)
  <2>4. ASSUME NEW bytes, Completes(bytes)'
        PROVE  results' \o Remaining(bytes)' = results \o Remaining(bytes)
    <3>1. IsMessage(bytes, dnsLength)
      BY <1>1, <2>4 DEF Completes
    <3>2. /\ rest(bytes) \in Names
          /\ rest(bytes) =
               IF asked - 1 = 0 THEN <<>>
               ELSE After(bytes, dnsLength, NameFrom(bytes, dnsLength, dnsOffset + 4, MaxJumps),
                          asked - 1)
      <4> DEFINE i == dnsOffset + 4
                 n == asked - 1
      <4>1. i \in 0 .. dnsLength /\ n \in 0 .. MaxQuestions
        BY <2>2
      <4> HIDE DEF i, n
      <4>2. /\ QuestionsFrom(bytes, dnsLength, i, n) \in Names
            /\ QuestionsFrom(bytes, dnsLength, i, n) =
                 IF n = 0 THEN <<>>
                 ELSE After(bytes, dnsLength, NameFrom(bytes, dnsLength, i, MaxJumps), n)
        BY <3>1, <4>1, QuestionsUnfold
      <4> QED
        BY <4>2 DEF i, n
    <3>3. Remaining(bytes) = <<labels>> \o rest(bytes)
      BY <1>3, <1>5 DEF After
    <3> HIDE DEF rest
    <3>4. Remaining(bytes)' = rest(bytes)
      <4>1. CASE asked > 1
        <5> DEFINE next == NameFrom(bytes, dnsLength, dnsOffset + 4, MaxJumps)
        <5>1. /\ dnsStep' = "name" /\ cursor' = dnsOffset + 4 /\ jumped' = FALSE /\ jumps' = 0
              /\ labels' = <<>>
          BY <2>1, <4>1 DEF DecodeNameAt
        <5>2. next \in Name
          <6> DEFINE i == dnsOffset + 4
          <6>1. i \in 0 .. dnsLength
            BY <2>2
          <6> HIDE DEF i
          <6>2. NameFrom(bytes, dnsLength, i, MaxJumps) \in Name
            BY <2>2, <3>1, <6>1, NameUnfolds
          <6> QED
            BY <6>2 DEF i
        <5>3. NameFrom(bytes, dnsLength, cursor, MaxJumps - jumps)' = next
          <6>1. MaxJumps - jumps' = MaxJumps
            BY <1>2, <5>1
          <6> QED
            BY <1>1, <5>1, <6>1
        <5>4. Remaining(bytes)' =
                After(bytes, dnsLength',
                      Continued(NameFrom(bytes, dnsLength, cursor, MaxJumps - jumps))', asked')
          BY <5>1 DEF Remaining
        <5> HIDE DEF next
        <5>5. Continued(NameFrom(bytes, dnsLength, cursor, MaxJumps - jumps))' = next
          <6>1. Continued(NameFrom(bytes, dnsLength, cursor, MaxJumps - jumps))' =
                  [ok |-> next.ok, labels |-> <<>> \o next.labels, end |-> next.end]
            BY <5>1, <5>3 DEF Continued
          <6>2. <<>> \o next.labels = next.labels
            BY <5>2, ListFacts DEF Name
          <6> QED
            BY <5>2, <6>1, <6>2 DEF Name
        <5>6. asked - 1 # 0
          BY <1>2, <4>1
        <5> QED
          BY <1>1, <2>1, <3>2, <5>4, <5>5, <5>6 DEF next
      <4>2. CASE ~(asked > 1)
        BY <1>2, <2>1, <3>2, <4>2 DEF Remaining
      <4> QED
        BY <4>1, <4>2
    <3>5. Append(results, labels) \o rest(bytes) = results \o (<<labels>> \o rest(bytes))
      <4>1. rest(bytes) \in Seq(Seq(Nat)) /\ results \in Seq(Seq(Nat))
        BY <1>2, <3>2 DEF Names
      <4> QED
        BY <1>2, <4>1, ListFacts
    <3> QED
      BY <2>1, <3>3, <3>4, <3>5
  <2>5. Explained'
    BY <1>1, <1>2, <2>4, ExplainedStep
  <2>6. CASE asked > 1
    <3>1. /\ dnsStep' = "name" /\ cursor' \in 0 .. dnsLength' /\ jumps' \in 0 .. MaxJumps
          /\ labels' \in Seq(Nat) /\ asked' \in 1 .. MaxQuestions
      BY <1>1, <1>2, <2>1, <2>2, <2>6, EmptyList DEF DecodeNameAt
    <3> QED
      BY <1>1, <1>2, <2>3, <2>5, <3>1 DEF QuestionsInv
  <2>7. CASE ~(asked > 1)
    BY <1>1, <1>2, <2>1, <2>3, <2>5, <2>7 DEF QuestionsInv, nameVars
  <2> QED
    BY <2>6, <2>7
<1> QED
  BY <1>4, <1>5

LEMMA HeaderStep ==
  ASSUME DnsInv, QuestionsInv, ReadHeader
  PROVE  QuestionsInv'
<1>1. /\ dnsStep = "header" /\ DOMAIN octets = {} /\ results = <<>> /\ dnsLength \in Nat
      /\ jumps \in 0 .. MaxJumps /\ labels \in Seq(Nat) /\ MaxQuestions \in Nat /\ MaxJumps \in Nat
      /\ results \in Names
  BY DnsAssumption DEF ReadHeader, DnsInv, QuestionsInv
<1>2. CASE dnsLength < HeaderSize
  <2>1. ReturnsUnread
    BY <1>2 DEF ReadHeader
  <2> QED
    BY <1>1, <2>1 DEF ReturnsUnread, Returns, QuestionsInv, Explained, nameVars
<1>3. CASE ~(dnsLength < HeaderSize)
  <2>1. PICK high \in Octet, low \in Octet :
          /\ Keep(4, <<high, low>>)
          /\ IF 256 * high + low = 0 \/ 256 * high + low > MaxQuestions THEN Returns
             ELSE /\ DecodeNameAt(HeaderSize)
                  /\ asked' = 256 * high + low
                  /\ UNCHANGED <<dnsLength, results>>
    BY <1>3, Zenon DEF ReadHeader
  <2> DEFINE qdCount == 256 * high + low
  <2>2. qdCount \in Nat
    BY OctetBounds
  <2>3. DOMAIN octets' = {4, 5} /\ octets'[4] = high /\ octets'[5] = low
    <3> DEFINE new == [j \in 4 .. 5 |-> <<high, low>>[j - 4 + 1]]
    <3>1. octets' = Over(new, octets)
      BY <2>1 DEF Keep
    <3>2. DOMAIN new = {4, 5} /\ new[4] = high /\ new[5] = low
      OBVIOUS
    <3> HIDE DEF new
    <3> QED
      BY <1>1, <3>1, <3>2 DEF Over
  <2>4. dnsLength' = dnsLength /\ HeaderSize \in 0 .. dnsLength /\ DOMAIN octets' \subseteq 0 .. dnsLength - 1
    BY <1>1, <1>3, <2>1, <2>3 DEF HeaderSize, Returns
  <2>5. ASSUME NEW bytes, Completes(bytes)'
        PROVE  /\ IsMessage(bytes, dnsLength)
               /\ Questions(bytes, dnsLength) =
                    IF qdCount > MaxQuestions THEN <<>>
                    ELSE QuestionsFrom(bytes, dnsLength, HeaderSize, qdCount)
    BY <2>3, <2>4, <2>5 DEF Completes, Questions, QdCount
  <2> HIDE DEF qdCount
  <2>6. CASE qdCount = 0 \/ qdCount > MaxQuestions
    <3>1. dnsStep' = "done" /\ UNCHANGED <<nameVars, results>>
      BY <2>1, <2>6 DEF qdCount, Returns
    <3>2. ASSUME NEW bytes, Completes(bytes)'
          PROVE  Questions(bytes, dnsLength') = results' \o Remaining(bytes)'
      <4>1. Questions(bytes, dnsLength) = <<>>
        BY <1>1, <2>2, <2>4, <2>5, <2>6, <3>2, QuestionsUnfold
      <4> QED
        BY <1>1, <2>4, <3>1, <4>1 DEF Remaining
    <3> QED
      BY <1>1, <2>4, <3>1, <3>2 DEF QuestionsInv, Explained, nameVars
  <2>7. CASE ~(qdCount = 0 \/ qdCount > MaxQuestions)
    <3>1. /\ dnsStep' = "name" /\ cursor' = HeaderSize /\ jumped' = FALSE /\ jumps' = 0
          /\ labels' = <<>> /\ asked' = qdCount /\ results' = results
      BY <2>1, <2>7 DEF qdCount, DecodeNameAt
    <3>2. qdCount \in 1 .. MaxQuestions /\ qdCount \in 0 .. MaxQuestions /\ MaxJumps \in 0 .. MaxJumps
      BY <1>1, <2>2, <2>7
    <3>3. ASSUME NEW bytes, Completes(bytes)'
          PROVE  Questions(bytes, dnsLength') = results' \o Remaining(bytes)'
      <4> DEFINE name == NameFrom(bytes, dnsLength, HeaderSize, MaxJumps)
      <4>1. /\ Questions(bytes, dnsLength) \in Names
            /\ Questions(bytes, dnsLength) = After(bytes, dnsLength, name, qdCount)
        BY <2>4, <2>5, <2>7, <3>2, <3>3, QuestionsUnfold
      <4>2. name \in Name
        BY <2>4, <2>5, <3>2, <3>3, NameUnfolds
      <4>3. NameFrom(bytes, dnsLength, cursor, MaxJumps - jumps)' = name
        <5>1. MaxJumps - jumps' = MaxJumps
          BY <1>1, <3>1
        <5> QED
          BY <2>4, <3>1, <5>1
      <4>4. Remaining(bytes)' =
              After(bytes, dnsLength',
                    Continued(NameFrom(bytes, dnsLength, cursor, MaxJumps - jumps))', asked')
        BY <3>1 DEF Remaining
      <4> HIDE DEF name
      <4>5. Continued(NameFrom(bytes, dnsLength, cursor, MaxJumps - jumps))' = name
        <5>1. Continued(NameFrom(bytes, dnsLength, cursor, MaxJumps - jumps))' =
                [ok |-> name.ok, labels |-> <<>> \o name.labels, end |-> name.end]
          BY <3>1, <4>3 DEF Continued
        <5>2. <<>> \o name.labels = name.labels
          BY <4>2, ListFacts DEF Name
        <5> QED
          BY <4>2, <5>1, <5>2 DEF Name
      <4>6. Remaining(bytes)' = Questions(bytes, dnsLength)
        BY <2>4, <3>1, <4>1, <4>4, <4>5
      <4>7. <<>> \o Questions(bytes, dnsLength) = Questions(bytes, dnsLength)
        BY <4>1, ListFacts DEF Names
      <4> QED
        BY <1>1, <2>4, <3>1, <4>6, <4>7
    <3>4. cursor' \in 0 .. dnsLength' /\ jumps' \in 0 .. MaxJumps /\ labels' \in Seq(Nat)
      BY <1>1, <2>4, <3>1, EmptyList
    <3>5. 5 \in DOMAIN octets'
      BY <2>3
    <3> QED
      BY <1>1, <2>4, <3>1, <3>2, <3>3, <3>4, <3>5 DEF QuestionsInv, Explained
  <2> QED
    BY <2>6, <2>7
<1> QED
  BY <1>2, <1>3

LEMMA QuestionsStep == DnsInv /\ QuestionsInv /\ DnsNext => QuestionsInv'
BY HeaderStep, CutOffStep, PointerStep, EndOfNameStep, LabelStep, EndOfQuestionStep DEF DnsNext

LEMMA QuestionsInitially ==
  ASSUME NEW length
  PROVE  /\ DnsAt("idle", length) => QuestionsInv
         /\ \A s \in {"idle", "header"} : DnsBecomes(s, length) => QuestionsInv'
<1> USE DnsAssumption, EmptyList
<1>1. ASSUME DnsAt("idle", length) PROVE QuestionsInv
  BY <1>1 DEF DnsAt, QuestionsInv, Explained, Names
<1>2. ASSUME NEW s \in {"idle", "header"}, DnsBecomes(s, length) PROVE QuestionsInv'
  BY <1>2 DEF DnsBecomes, QuestionsInv, Explained, Names
<1> QED
  BY <1>1, <1>2

LEMMA QuestionsStutter == QuestionsInv /\ UNCHANGED dnsVars => QuestionsInv'
<1> SUFFICES ASSUME QuestionsInv, UNCHANGED dnsVars PROVE QuestionsInv'
  OBVIOUS
<1>1. /\ UNCHANGED <<dnsStep, dnsLength, octets, asked, dnsOffset, results>>
      /\ UNCHANGED <<cursor, jumped, postNameOffset, jumps, labels>>
  BY DEF dnsVars, nameVars
<1>2. \A bytes : Completes(bytes)' <=> Completes(bytes)
  BY <1>1 DEF Completes
<1>3. \A rest : Continued(rest)' = Continued(rest)
  BY <1>1 DEF Continued
<1>4. \A bytes : Remaining(bytes)' = Remaining(bytes)
  BY <1>1 DEF Remaining, Continued
<1>5. Explained'
  BY <1>1, <1>2, <1>4 DEF QuestionsInv, Explained
<1> QED
  BY <1>1, <1>5 DEF QuestionsInv

(* So in the end exactly the questions up to the first malformed one were  *)
(* found, whatever the bytes are that were not read.                       *)
UpToMalformed ==
  Answered => \A bytes : Completes(bytes) => results = Questions(bytes, dnsLength)

LEMMA QuestionsFound == QuestionsInv => UpToMalformed
<1> SUFFICES ASSUME QuestionsInv, Answered, NEW bytes, Completes(bytes)
             PROVE  results = Questions(bytes, dnsLength)
  BY DEF UpToMalformed
<1>1. Questions(bytes, dnsLength) = results \o <<>>
  BY DEF QuestionsInv, Explained, Remaining, Answered
<1> QED
  BY <1>1, ListFacts DEF QuestionsInv, Names

LEMMA MessageCompletes == DnsInv /\ QuestionsInv => Completes(Message)
<1> SUFFICES ASSUME DnsInv, QuestionsInv PROVE Completes(Message)
  OBVIOUS
<1>1. /\ DOMAIN octets \subseteq 0 .. dnsLength - 1
      /\ \A i \in DOMAIN octets : octets[i] \in 0 .. 255
  BY DnsAssumption DEF DnsInv, OctetsOK, QuestionsInv
<1>2. /\ DOMAIN Message = 0 .. dnsLength - 1
      /\ \A i \in DOMAIN Message : Message[i] = IF i \in DOMAIN octets THEN octets[i] ELSE 0
  BY <1>1 DEF Message, Over
<1> QED
  <2>1. dnsLength \in Nat
    BY DEF DnsInv
  <2>2. ASSUME NEW i \in DOMAIN Message
        PROVE  Message[i] \in 0 .. 255
    <3>1. CASE i \in DOMAIN octets
      <4>1. Message[i] = octets[i]
        BY <1>2, <3>1
      <4> QED
        BY <1>1, <3>1, <4>1
    <3>2. CASE i \notin DOMAIN octets
      <4>1. Message[i] = 0
        BY <1>2, <3>2
      <4> QED
        BY <4>1
    <3> QED
      BY <3>1, <3>2
  <2>3. DOMAIN octets \subseteq DOMAIN Message /\ \A i \in DOMAIN octets : Message[i] = octets[i]
    BY <1>1, <1>2
  <2> QED
    BY <1>2, <2>1, <2>2, <2>3 DEF Completes, IsMessage

LEMMA QuestionsFollow == DnsInv /\ QuestionsInv => QuestionsAsEncoded
BY QuestionsFound, MessageCompletes DEF UpToMalformed, QuestionsAsEncoded
-----------------------------------------------------------------------------
(* The composition: a step of the path is a step of its parts.             *)
PathInv ==
  /\ CaptureInv
  /\ SniInv
  /\ DnsInv
  /\ QuestionsInv
  /\ payloadLength # NoEnvelope => sniStep = "idle" /\ dnsStep = "idle"

LEMMA PathInitially == PathInit => PathInv
BY CaptureInitially, SniInitially, DnsInitially, QuestionsInitially DEF PathInit, PathInv

LEMMA DecodersStutter ==
  /\ SniInv /\ UNCHANGED sniVars => SniInv'
  /\ DnsInv /\ UNCHANGED dnsVars => DnsInv'
BY DEF SniInv, SniReadsInside, sniVars, DnsInv, DnsReadsInside, OctetsOK, dnsVars, nameVars

(* Only a decoder that was called takes steps.                             *)
LEMMA DecodeParts ==
  ASSUME Decode
  PROVE  /\ (SniNext /\ sniStep # "idle") \/ SniBecomes("idle", 0) \/ UNCHANGED sniVars
         /\ (DnsNext /\ dnsStep # "idle") \/ DnsBecomes("idle", 0) \/ UNCHANGED dnsVars
BY DEF Decode, DnsNext, ReadHeader, NameCutOff, Pointer, EndOfName, Label, NameByte,
       EndOfQuestion, SniNext, CheckRecordHeader, CheckHandshake, SkipSessionId, SkipCipherSuites,
       SkipCompressionMethods, EnterExtensions, NextExtension, ReturnName, Field, FieldMissing

LEMMA PathStep == PathInv /\ [PathNext]_pathVars => PathInv'
<1> SUFFICES ASSUME PathInv, [PathNext]_pathVars PROVE PathInv'
  OBVIOUS
<1> USE CaptureStep, DecodersStutter, QuestionsStutter DEF PathInv
<1>1. CASE UNCHANGED pathVars
  BY <1>1 DEF pathVars, sniVars, dnsVars, captureVars
<1>2. CASE IngestStep
  BY <1>2 DEF IngestStep, Free, CaptureNext, sniVars, dnsVars
<1>3. CASE SendEnvelope
  BY <1>3 DEF SendEnvelope, Free, CaptureNext, sniVars, dnsVars
<1>4. CASE InspectTls
  <2>1. payloadLength \in Nat
    BY <1>4, SniAssumption DEF InspectTls
  <2> QED
    BY <1>4, <2>1, SniInitially DEF InspectTls, Taken
<1>5. CASE InspectDns
  <2>1. payloadLength \in Nat
    BY <1>5, DnsAssumption DEF InspectDns
  <2> QED
    BY <1>5, <2>1, DnsInitially, QuestionsInitially DEF InspectDns, Taken
<1>6. CASE InspectNothing
  BY <1>6 DEF InspectNothing, Taken
<1>7. CASE Decode
  <2>1. CaptureInv'
    BY <1>7 DEF Decode
  <2>2. SniInv' /\ DnsInv'
    BY <1>7, DecodeParts, SniStep, DnsStep, SniInitially, DnsInitially
  <2>3. QuestionsInv'
    BY <1>7, DecodeParts, QuestionsStep, QuestionsInitially
  <2> QED
    BY <1>7, <2>1, <2>2, <2>3, DecodeParts DEF Decode, SniBecomes, sniVars, DnsBecomes, dnsVars
<1> QED
  BY <1>1, <1>2, <1>3, <1>4, <1>5, <1>6, <1>7 DEF PathNext

LEMMA PathInvariant == PathSpec => []PathInv
BY PathInitially, PathStep, PTL DEF PathSpec

(* The ingestion thread reads nothing but the bytes of the current packet, *)
(* from where its record starts, whatever lengths the headers claim.       *)
THEOREM CapturedBytesOnly == PathSpec => []ReadsCaptured
BY PathInvariant, PayloadFollows, PTL DEF PathInv

(* What a worker is handed is the data of the packet.                      *)
THEOREM PayloadsFaithful == PathSpec => []PayloadIsData
BY PathInvariant, PayloadFollows, PTL DEF PathInv

(* SniExtractor stays inside the payload, for any payload.                 *)
THEOREM SniInBounds == PathSpec => []SniReadsInside
<1>1. PathInv => SniReadsInside
  BY DEF PathInv, SniInv
<1> QED
  BY <1>1, PathInvariant, PTL

(* DnsParser stays inside the payload, for any payload.                    *)
THEOREM DnsInBounds == PathSpec => []DnsReadsInside
<1>1. PathInv => DnsReadsInside
  BY DEF PathInv, DnsInv
<1> QED
  BY <1>1, PathInvariant, PTL

(* Of a well-formed message the domains of all its questions are returned, *)
(* for every message and every limit.                                      *)
THEOREM DomainsAsEncoded == PathSpec => []QuestionsAsEncoded
<1>1. PathInv => QuestionsAsEncoded
  BY QuestionsFollow DEF PathInv
<1> QED
  BY <1>1, PathInvariant, PTL

(* Of a message of which a question is malformed those before it are, and  *)
(* nothing that was not read matters for that.                             *)
THEOREM MalformedKeepsPrefix == PathSpec => []UpToMalformed
<1>1. PathInv => UpToMalformed
  BY QuestionsFound DEF PathInv
<1> QED
  BY <1>1, PathInvariant, PTL

(* The loop over the TLS extensions comes to an end.                       *)
THEOREM ExtensionsEnd == PathSpec => SniAdvances
<1>1. ASSUME PathInv, [PathNext]_pathVars
      PROVE  [sniStep = "extension" /\ sniStep' # "done" =>
                sniOffset' >= sniOffset + 4 /\ sniOffset < sniLength]_sniVars
  <2>1. CASE UNCHANGED sniVars
    BY <2>1
  <2>2. CASE SniNext
    BY <1>1, <2>2, SniProgress DEF PathInv
  <2>3. CASE sniStep \in {"idle", "done"}
    BY <2>3
  <2>4. UNCHANGED sniVars \/ SniNext \/ sniStep \in {"idle", "done"}
    <3>1. CASE InspectTls
      BY <1>1, <3>1, SniAssumption DEF PathInv, InspectTls, NoEnvelope
    <3>2. CASE ~InspectTls
      BY <1>1, <3>2 DEF PathNext, pathVars, IngestStep, SendEnvelope, InspectDns,
                        InspectNothing, Decode
    <3> QED
      BY <3>1, <3>2
  <2> QED
    BY <2>1, <2>2, <2>3, <2>4
<1> QED
  BY <1>1, PathInvariant, PTL DEF PathSpec, SniAdvances

(* The next question is begun, the name of this one ends, or its decoding  *)
(* moves on by a jump or a label, which the limits allow only so often.    *)
Closer ==
  \/ 0 < asked' /\ asked' < asked
  \/ asked' = asked /\ dnsStep = "name" /\ dnsStep' = "tail"
  \/ /\ asked' = asked /\ dnsStep = "name" /\ dnsStep' = "name"
     /\ \/ jumps < jumps' /\ jumps' <= MaxJumps
        \/ jumps' = jumps /\ cursor < cursor' /\ cursor' <= dnsLength

(* The compression-pointer loops that dns_parser.h:18-19 speaks of: every  *)
(* step brings the decoder closer to its end.  (DnsEnds says what follows  *)
(* when it runs on.)                                                       *)
DnsMovesOn == [][dnsStep = "name" \/ dnsStep = "tail" => dnsStep' = "done" \/ Closer]_dnsVars

LEMMA DnsProgress ==
  ASSUME DnsInv, QuestionsInv, DnsNext, dnsStep \in {"name", "tail"}, dnsStep' # "done"
  PROVE  Closer
<1> USE DEF Closer
<1>1. /\ cursor \in Nat /\ jumps \in Nat /\ MaxJumps \in Nat /\ dnsLength \in Nat
      /\ asked \in 1 .. MaxQuestions /\ MaxQuestions \in Nat
  BY DnsAssumption DEF DnsInv, QuestionsInv
<1>2. CASE Pointer
  <2>1. PICK b \in Octet :
          /\ ~(CountedJump > MaxJumps) /\ NameByte(b)
          /\ \E low \in ByteAt(cursor + 1) : FollowPointer(b, low)
    BY <1>2 DEF Pointer, Returns
  <2>2. PICK low \in ByteAt(cursor + 1) : FollowPointer(b, low)
    BY <2>1
  <2> QED
    BY <1>1, <2>1, <2>2 DEF FollowPointer, NameByte, CountedJump, Returns
<1>3. CASE EndOfName
  BY <1>3 DEF EndOfName, NameByte
<1>4. CASE Label
  <2>1. PICK b \in Octet :
          /\ NameByte(b) /\ Fits(b) /\ cursor' = cursor + 1 + b
          /\ UNCHANGED <<dnsStep, asked, jumps>>
    BY <1>4 DEF Label, Returns
  <2>2. b \in Nat
    BY OctetBounds
  <2> QED
    BY <1>1, <2>1, <2>2 DEF Fits, NameByte
<1>5. CASE EndOfQuestion
  <2>1. asked' = asked - 1 /\ asked > 1
    BY <1>5 DEF EndOfQuestion
  <2> QED
    BY <1>1, <2>1
<1> QED
  BY <1>2, <1>3, <1>4, <1>5 DEF DnsNext, ReadHeader, NameCutOff, ReturnsUnread, Returns

(* Every call of extract_queries comes closer to its end with every step.  *)
THEOREM NoPointerLoop == PathSpec => DnsMovesOn
<1>1. ASSUME PathInv, [PathNext]_pathVars
      PROVE  [dnsStep = "name" \/ dnsStep = "tail" => dnsStep' = "done" \/ Closer]_dnsVars
  <2>1. CASE UNCHANGED dnsVars
    BY <2>1
  <2>2. CASE DnsNext
    BY <1>1, <2>2, DnsProgress DEF PathInv
  <2>3. CASE dnsStep \in {"idle", "done"}
    BY <2>3
  <2>4. UNCHANGED dnsVars \/ DnsNext \/ dnsStep \in {"idle", "done"}
    <3>1. CASE InspectDns
      BY <1>1, <3>1, DnsAssumption DEF PathInv, InspectDns, NoEnvelope
    <3>2. CASE ~InspectDns
      BY <1>1, <3>2 DEF PathNext, pathVars, IngestStep, SendEnvelope, InspectTls,
                        InspectNothing, Decode
    <3> QED
      BY <3>1, <3>2
  <2> QED
    BY <2>1, <2>2, <2>3, <2>4
<1> QED
  BY <1>1, PathInvariant, PTL DEF PathSpec, DnsMovesOn
=============================================================================
