---------------------------- MODULE SniExtractor ----------------------------
(***************************************************************************)
(* SniExtractor::extract_sni (src/sni_extractor.cpp) on a payload that     *)
(* anyone can have written: nearly every byte it looks at says how far it  *)
(* jumps next.  One step for each field.                                   *)
(*                                                                         *)
(* Data.  No byte is looked at twice, so what a byte holds is chosen when  *)
(* it is read; the payload is its length.  Offsets stay below 2^18 and do  *)
(* not wrap.                                                               *)
(***************************************************************************)
EXTENDS Integers

CONSTANTS
  TlsOctet,   (* the values bytes have, 0 .. 255 in the code               *)
  SniPayload  (* the lengths payloads have                                 *)

ASSUME SniAssumption == TlsOctet \subseteq 0 .. 255 /\ SniPayload \subseteq Nat

VARIABLES
  sniStep,    (* what is read next                                         *)
  sniLength,  (* payload_length                                            *)
  sniOffset,  (* offset                                                    *)
  extEnd,     (* ext_end                                                   *)
  sniReads    (* the positions that this step read                         *)

sniVars == <<sniStep, sniLength, sniOffset, extEnd, sniReads>>

(* uint16_t in network byte order.                                         *)
Short == {256 * high + low : high \in TlsOctet, low \in TlsOctet}

SniAt(step, length) ==
  /\ sniStep = step
  /\ sniLength = length
  /\ sniOffset = 0
  /\ extEnd = 0
  /\ sniReads = {}

(* The same for a step: extract_sni is called, or it has returned.         *)
SniBecomes(step, length) ==
  /\ sniStep' = step
  /\ sniLength' = length
  /\ sniOffset' = 0
  /\ extEnd' = 0
  /\ sniReads' = {}

SniInit == \E n \in SniPayload : SniAt("record", n)

(* The first byte a step reads and the number of them, and how the step    *)
(* ends: it returns "", or it moves on.                                    *)
Looks(first, n) == sniReads' = first .. first + n - 1

ReturnsNothing == sniStep' = "done" /\ UNCHANGED <<sniLength, sniOffset, extEnd>>

MovesTo(step, offset) ==
  sniStep' = step /\ sniOffset' = offset /\ UNCHANGED <<sniLength, extEnd>>

(* A field of n bytes at the offset, or nothing if it is not there.        *)
Field(step, n) ==
  /\ sniStep = step
  /\ sniOffset + n <= sniLength
  /\ Looks(sniOffset, n)

FieldMissing(step, n) ==
  /\ sniStep = step
  /\ sniOffset + n > sniLength
  /\ Looks(0, 0)
  /\ ReturnsNothing
-----------------------------------------------------------------------------
CheckRecordHeader ==
  /\ sniStep = "record"
  /\ IF sniLength < 5 THEN Looks(0, 0) /\ ReturnsNothing
     ELSE /\ Looks(0, 1)
          /\ \E type \in TlsOctet :
               IF type = 22 THEN MovesTo("handshake", 0) ELSE ReturnsNothing

CheckHandshake ==
  /\ sniStep = "handshake"
  /\ IF sniLength < 9 THEN Looks(0, 0) /\ ReturnsNothing
     ELSE /\ Looks(5, 1)
          /\ \E type \in TlsOctet :
               IF type = 1 THEN MovesTo("session", 43) ELSE ReturnsNothing

SkipSessionId ==
  \/ FieldMissing("session", 1)
  \/ Field("session", 1) /\ \E len \in TlsOctet : MovesTo("ciphers", sniOffset + 1 + len)

SkipCipherSuites ==
  \/ FieldMissing("ciphers", 2)
  \/ Field("ciphers", 2) /\ \E len \in Short : MovesTo("compression", sniOffset + 2 + len)

SkipCompressionMethods ==
  \/ FieldMissing("compression", 1)
  \/ Field("compression", 1) /\ \E len \in TlsOctet : MovesTo("block", sniOffset + 1 + len)

(* faulty: believes the length of the block *)
BlockEndClaimed(claimed) == claimed

(* The extensions end where they say or where the payload ends.            *)
BlockEnd(claimed) == IF claimed > sniLength THEN sniLength ELSE claimed

EnterExtensions ==
  \/ FieldMissing("block", 2)
  \/ /\ Field("block", 2)
     /\ \E total \in Short : extEnd' = BlockEnd(sniOffset + 2 + total)
     /\ sniStep' = "extension"
     /\ sniOffset' = sniOffset + 2
     /\ UNCHANGED sniLength

(* faulty: skips what an extension holds, and not its header *)
PastContents(len) == sniOffset + len

PastExtension(len) == sniOffset + 4 + len

(* The loop over the extensions, to the first one of type 0.               *)
NextExtension ==
  /\ sniStep = "extension"
  /\ IF sniOffset + 4 > extEnd THEN Looks(0, 0) /\ ReturnsNothing
     ELSE /\ Looks(sniOffset, 4)
          /\ \E type \in Short, len \in Short :
               IF type = 0 THEN MovesTo("name", sniOffset + 4)
               ELSE MovesTo("extension", PastExtension(len))

(* The name is copied byte by byte into the result.  Its own length counts *)
(* and that of the block, not that of the extension it is in.              *)
ReturnName ==
  /\ sniStep = "name"
  /\ IF sniOffset + 5 > extEnd THEN Looks(0, 0)
     ELSE \E len \in Short :
            Looks(sniOffset + 3, 2 + IF sniOffset + 5 + len <= extEnd THEN len ELSE 0)
  /\ ReturnsNothing

SniNext ==
  \/ CheckRecordHeader
  \/ CheckHandshake
  \/ SkipSessionId
  \/ SkipCipherSuites
  \/ SkipCompressionMethods
  \/ EnterExtensions
  \/ NextExtension
  \/ ReturnName

SniSpec == SniInit /\ [][SniNext]_sniVars /\ WF_sniVars(SniNext)
-----------------------------------------------------------------------------
(* sni_extractor.cpp:40 ("Safety bounds check"): whatever the lengths in   *)
(* the payload say, no byte outside of it is read.                         *)
SniReadsInside == sniReads \subseteq 0 .. sniLength - 1

(* The loop over the extensions ends for every payload: each turn gets     *)
(* past the header of an extension, an empty one too, and no turn begins   *)
(* behind the end of the payload.                                          *)
SniAdvances ==
  [][sniStep = "extension" /\ sniStep' # "done" =>
       sniOffset' >= sniOffset + 4 /\ sniOffset < sniLength]_sniVars
=============================================================================
