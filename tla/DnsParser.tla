------------------------------ MODULE DnsParser ------------------------------
(***************************************************************************)
(* DnsParser (src/dns_parser.cpp): extract_queries and the decode_name it  *)
(* calls for each question, on a payload that anyone can have written.     *)
(* One step for each byte that decides how it goes on.                     *)
(*                                                                         *)
(* Data.  A compression pointer can lead back to bytes that were read, so  *)
(* a byte is chosen when it is first read and kept.  A name is the list of *)
(* its labels, a label the place where it was found.                       *)
(***************************************************************************)
EXTENDS Integers, Sequences, Overlay

CONSTANTS
  Octet,       (* the values bytes have, 0 .. 255 in the code              *)
  DnsPayload,  (* the lengths payloads have                                *)
  MaxJumps,    (* MAX_COMPRESSION_JUMPS, 16 in the code                    *)
  MaxQuestions (* MAX_QUESTIONS, 64 in the code                            *)

ASSUME DnsAssumption ==
  /\ Octet \subseteq 0 .. 255
  /\ DnsPayload \subseteq Nat
  /\ MaxJumps \in Nat
  /\ MaxQuestions \in Nat

VARIABLES
  dnsStep,    (* what is read next                                         *)
  dnsLength,  (* payload_length                                            *)
  octets,     (* the bytes chosen so far                                   *)
  asked,      (* the questions that are left: qd_count - i                 *)
  dnsOffset,  (* offset of extract_queries                                 *)
  cursor, jumped, postNameOffset, jumps,  (* the locals of decode_name     *)
  labels,     (* out_name                                                  *)
  results,    (* the domains found                                         *)
  dnsReads    (* the positions that this step read                         *)

nameVars == <<cursor, jumped, postNameOffset, jumps, labels>>
dnsVars == <<dnsStep, dnsLength, octets, asked, dnsOffset, nameVars, results, dnsReads>>

HeaderSize == 12  (* sizeof(DnsHeader)                                     *)

DnsAt(step, length) ==
  /\ dnsStep = step
  /\ dnsLength = length
  /\ octets = [i \in {} |-> 0]
  /\ asked = 0
  /\ dnsOffset = 0
  /\ cursor = 0 /\ jumped = FALSE /\ postNameOffset = 0 /\ jumps = 0 /\ labels = <<>>
  /\ results = <<>>
  /\ dnsReads = {}

(* The same for a step: extract_queries is called, or it has returned.     *)
DnsBecomes(step, length) ==
  /\ dnsStep' = step
  /\ dnsLength' = length
  /\ octets' = [i \in {} |-> 0]
  /\ asked' = 0
  /\ dnsOffset' = 0
  /\ cursor' = 0 /\ jumped' = FALSE /\ postNameOffset' = 0 /\ jumps' = 0 /\ labels' = <<>>
  /\ results' = <<>>
  /\ dnsReads' = {}

DnsInit == \E n \in DnsPayload : DnsAt("header", n)

IsPointer(b) == b >= 192

(* The byte at a position, chosen now if it was not before.                *)
ByteAt(i) == IF i \in DOMAIN octets THEN {octets[i]} ELSE Octet

(* The bytes from a position on, chosen or already known.                  *)
Keep(first, bytes) ==
  octets' = Over([i \in first .. first + Len(bytes) - 1 |-> bytes[i - first + 1]], octets)

(* The loop over the questions ends.                                       *)
Returns ==
  /\ dnsStep' = "done"
  /\ UNCHANGED <<dnsLength, asked, dnsOffset, nameVars, results>>

ReturnsUnread == dnsReads' = {} /\ Returns /\ UNCHANGED octets

(* decode_name is entered at the offset.                                   *)
DecodeNameAt(offset) ==
  /\ dnsStep' = "name"
  /\ dnsOffset' = offset
  /\ cursor' = offset
  /\ jumped' = FALSE
  /\ postNameOffset' = 0
  /\ jumps' = 0
  /\ labels' = <<>>
-----------------------------------------------------------------------------
ReadHeader ==
  /\ dnsStep = "header"
  /\ IF dnsLength < HeaderSize THEN ReturnsUnread
     ELSE /\ dnsReads' = {4, 5}
          /\ \E high \in Octet, low \in Octet :
               LET qdCount == 256 * high + low IN
               /\ Keep(4, <<high, low>>)
               /\ IF qdCount = 0 \/ qdCount > MaxQuestions THEN Returns
                  ELSE /\ DecodeNameAt(HeaderSize)
                       /\ asked' = qdCount
                       /\ UNCHANGED <<dnsLength, results>>

NameCutOff ==
  /\ dnsStep = "name"
  /\ cursor >= dnsLength
  /\ ReturnsUnread

(* The byte at the cursor.                                                 *)
NameByte(b) ==
  /\ dnsStep = "name"
  /\ cursor < dnsLength
  /\ b \in ByteAt(cursor)

(* faulty: counts one jump for each name *)
CountedOnce == IF jumped THEN jumps ELSE jumps + 1

CountedJump == jumps + 1

(* faulty: the question goes on behind the last pointer *)
AfterLastPointer == cursor + 2

(* The question goes on behind the first pointer of its name.              *)
AfterPointer == IF jumped THEN postNameOffset ELSE cursor + 2

FollowPointer(b, low) ==
  LET target == 256 * (b % 64) + low IN
  /\ dnsReads' = {cursor, cursor + 1}
  /\ Keep(cursor, <<b, low>>)
  /\ IF target >= dnsLength THEN Returns
     ELSE /\ cursor' = target
          /\ jumped' = TRUE
          /\ postNameOffset' = AfterPointer
          /\ jumps' = CountedJump
          /\ UNCHANGED <<dnsStep, dnsLength, asked, dnsOffset, labels, results>>

Pointer ==
  \E b \in Octet :
    /\ NameByte(b)
    /\ IsPointer(b)
    /\ IF cursor + 1 >= dnsLength \/ CountedJump > MaxJumps
       THEN dnsReads' = {cursor} /\ Keep(cursor, <<b>>) /\ Returns
       ELSE \E low \in ByteAt(cursor + 1) : FollowPointer(b, low)

(* The name is decoded; the question goes on behind it.                    *)
EndOfName ==
  /\ NameByte(0)
  /\ dnsReads' = {cursor}
  /\ Keep(cursor, <<0>>)
  /\ dnsStep' = "tail"
  /\ dnsOffset' = IF jumped THEN postNameOffset ELSE cursor + 1
  /\ UNCHANGED <<dnsLength, asked, nameVars, results>>

(* faulty: forgets the byte of the length *)
FitsFrom(len) == cursor + len <= dnsLength

(* A label has at most 63 bytes and lies in the payload.                   *)
Fits(len) == cursor + 1 + len <= dnsLength

Label ==
  \E len \in Octet :
    /\ NameByte(len)
    /\ len # 0 /\ ~IsPointer(len)
    /\ Keep(cursor, <<len>>)
    /\ IF len > 63 \/ ~Fits(len)
       THEN dnsReads' = {cursor} /\ Returns
       ELSE /\ dnsReads' = cursor .. cursor + len
            /\ labels' = Append(labels, cursor)
            /\ cursor' = cursor + 1 + len
            /\ UNCHANGED <<dnsStep, dnsLength, asked, dnsOffset, jumped, postNameOffset,
                           jumps, results>>

(* QTYPE, which is read, and QCLASS, which is skipped.                     *)
EndOfQuestion ==
  /\ dnsStep = "tail"
  /\ UNCHANGED <<octets, dnsLength>>
  /\ IF dnsOffset + 4 > dnsLength
     THEN /\ dnsReads' = {}
          /\ dnsStep' = "done"
          /\ UNCHANGED <<asked, dnsOffset, nameVars, results>>
     ELSE /\ dnsReads' = {dnsOffset, dnsOffset + 1}
          /\ results' = Append(results, labels)
          /\ asked' = asked - 1
          /\ IF asked > 1 THEN DecodeNameAt(dnsOffset + 4)
             ELSE dnsStep' = "done" /\ dnsOffset' = dnsOffset + 4 /\ UNCHANGED nameVars

DnsNext ==
  \/ ReadHeader
  \/ NameCutOff
  \/ Pointer
  \/ EndOfName
  \/ Label
  \/ EndOfQuestion

DnsSpec == DnsInit /\ [][DnsNext]_dnsVars /\ WF_dnsVars(DnsNext)
-----------------------------------------------------------------------------
(* dns_parser.h:18-19 ("Safe against out-of-bounds reads ... on hostile    *)
(* input"): no byte outside of the payload is read.                        *)
DnsReadsInside == dnsReads \subseteq 0 .. dnsLength - 1

(* dns_parser.h:18-19 ("... and compression-pointer loops"): every message *)
(* is done with after finitely many steps.                                 *)
DnsEnds == dnsStep = "header" ~> dnsStep = "done"

(* What RFC 1035 says a question is: the labels of a name that starts at i *)
(* with no more than j pointers, and the place where its encoding ends.    *)
Malformed == [ok |-> FALSE, labels |-> <<>>, end |-> 0]

NameFrom(bytes, length, i0, j0) ==
  LET from[p \in (0 .. length) \X (0 .. MaxJumps)] ==
        LET i == p[1]
            j == p[2]
            b == bytes[i]
            target == 256 * (b % 64) + bytes[i + 1]
        IN IF i \notin DOMAIN bytes THEN Malformed
           ELSE IF b = 0 THEN [ok |-> TRUE, labels |-> <<>>, end |-> i + 1]
           ELSE IF IsPointer(b)
           THEN IF j > 0 /\ i + 1 \in DOMAIN bytes /\ target < length
                THEN [from[<<target, j - 1>>] EXCEPT !.end = i + 2] ELSE Malformed
           ELSE IF b < 64 /\ i + 1 + b < length
           THEN [from[<<i + 1 + b, j>>] EXCEPT !.labels = <<i>> \o @] ELSE Malformed
  IN from[<<i0, j0>>]

(* The questions of a message from the one at i, n of them; none behind    *)
(* one that is malformed.                                                  *)
QuestionsFrom(bytes, length, i0, n0) ==
  LET from[p \in (0 .. length) \X (0 .. MaxQuestions)] ==
        LET n == p[2]
            name == NameFrom(bytes, length, p[1], MaxJumps)
        IN IF n = 0 \/ ~name.ok \/ name.end + 4 > length THEN <<>>
           ELSE <<name.labels>> \o from[<<name.end + 4, n - 1>>]
  IN from[<<i0, n0>>]

QdCount(bytes) == 256 * bytes[4] + bytes[5]

Questions(bytes, length) ==
  IF QdCount(bytes) > MaxQuestions THEN <<>>
  ELSE QuestionsFrom(bytes, length, HeaderSize, QdCount(bytes))

(* The header promises as many questions as there are.                     *)
WellFormed(bytes, length) == Len(Questions(bytes, length)) = QdCount(bytes)

(* The message, if the bytes that did not have to be read are zero.        *)
Message == Over(octets, [i \in 0 .. dnsLength - 1 |-> 0])

Answered == dnsStep = "done" /\ 5 \in DOMAIN octets

(* dns_parser.h:16-17, :24-27: of a well-formed message every question's   *)
(* domain is returned, in order and as it is encoded: a pointer stands for *)
(* the labels it leads to, and the next question starts where the encoding *)
(* of the name ends, not where the pointer led.                            *)
QuestionsAsEncoded ==
  Answered /\ WellFormed(Message, dnsLength) => results = Questions(Message, dnsLength)

(* dns_parser.h:17-18 ("Returns an empty vector if malformed or not DNS"). *)
MalformedYieldsNothing ==
  Answered /\ ~WellFormed(Message, dnsLength) => results = <<>>
=============================================================================
