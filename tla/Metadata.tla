------------------------------ MODULE Metadata ------------------------------
(***************************************************************************)
(* The metadata frame of an RPC payload (object Metadata):                 *)
(*                                                                         *)
(*    short version | short n1, service | short n2, method                 *)
(*                  | short n3, tracing | metadata                         *)
(*                                                                         *)
(* A buffer is a sequence of bytes, a byte one of ByteSize values and a    *)
(* short two bytes.  Lengths are written as the low bits of an Int and read back *)
(* as a signed Short.  Names are the bytes of their UTF-8 encoding.        *)
(* What may throw returns a set: {result}, or {} when it throws.           *)
(*                                                                         *)
(* The definitions that nothing uses (WriteShortSwapped and the like) are  *)
(* faulty variants of the definitions that follow them.                    *)
(***************************************************************************)
EXTENDS Integers, Sequences

CONSTANT ByteSize  \* number of values of a byte (256 in the code)

ASSUME ByteSizeAssumption == ByteSize \in Nat \ {0} /\ ByteSize % 2 = 0

VERSION == 1

SHORT_BYTES == 2

UNSIGNED_SHORT_MAX_VALUE == ByteSize * ByteSize - 1

(* Short.MAX_VALUE: the largest length that is read as it was written.     *)
SIGNED_SHORT_MAX_VALUE == ByteSize * (ByteSize \div 2) - 1

-----------------------------------------------------------------------------
(* Netty's ByteBuf; offsets count from 0.                                  *)

WriteShortSwapped(n) == <<n % ByteSize, (n \div ByteSize) % ByteSize>>

WriteShort(n) == <<(n \div ByteSize) % ByteSize, n % ByteSize>>

Bytes(buf, offset, length) ==
  IF offset >= 0 /\ length >= 0 /\ offset + length <= Len(buf)
    THEN {SubSeq(buf, offset + 1, offset + length)}
    ELSE {}

ToSigned(n) ==
  IF n > SIGNED_SHORT_MAX_VALUE THEN n - ByteSize * ByteSize ELSE n

GetShort(buf, offset) ==
  {ToSigned(b[1] * ByteSize + b[2]) : b \in Bytes(buf, offset, SHORT_BYTES)}

-----------------------------------------------------------------------------
AcceptsAnyLength(i) == {i}

requireUnsignedShort(i) == {n \in {i} : n <= UNSIGNED_SHORT_MAX_VALUE}

Frame(service, serviceLength, method, methodLength, tracing, metadata) ==
  WriteShort(VERSION)
    \o WriteShort(serviceLength) \o service
    \o WriteShort(methodLength) \o method
    \o WriteShort(Len(tracing)) \o tracing
    \o metadata

(* The length of the tracing bytes is not checked.                         *)
encode(service, method, tracing, metadata) ==
  {Frame(service, serviceLength, method, methodLength, tracing, metadata) :
   serviceLength \in requireUnsignedShort(Len(service)),
   methodLength \in requireUnsignedShort(Len(method))}

(* 0x7FFF clears the sign bit.                                             *)
getVersion(buf) ==
  {n % (SIGNED_SHORT_MAX_VALUE + 1) : n \in GetShort(buf, 0)}

(* The offset behind the length-prefixed field that starts at an offset.   *)
Skip(buf, offset) ==
  {offset + SHORT_BYTES + n : n \in GetShort(buf, offset)}

Field(buf, offset) ==
  UNION {Bytes(buf, offset + SHORT_BYTES, n) : n \in GetShort(buf, offset)}

getService(buf) == Field(buf, SHORT_BYTES)

MethodOffsetFixed(buf) ==
  {2 * SHORT_BYTES : n \in GetShort(buf, SHORT_BYTES)}

MethodOffset(buf) == Skip(buf, SHORT_BYTES)

getMethod(buf) == UNION {Field(buf, o) : o \in MethodOffset(buf)}

TracingOffset(buf) == UNION {Skip(buf, o) : o \in MethodOffset(buf)}

(* A length that is not positive reads as no tracing.                      *)
TracingField(buf, offset) ==
  UNION {IF n > 0 THEN Bytes(buf, offset + SHORT_BYTES, n) ELSE {<<>>} :
         n \in GetShort(buf, offset)}

getTracing(buf) == UNION {TracingField(buf, o) : o \in TracingOffset(buf)}

MetadataOffset(buf) == UNION {Skip(buf, o) : o \in TracingOffset(buf)}

getMetadata(buf) ==
  UNION {IF Len(buf) - o > 0 THEN Bytes(buf, o, Len(buf) - o) ELSE {<<>>} :
         o \in MetadataOffset(buf)}
=============================================================================
