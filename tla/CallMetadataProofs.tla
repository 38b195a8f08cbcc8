------------------------- MODULE CallMetadataProofs -------------------------
(***************************************************************************)
(* Proofs about Metadata and CallMetadata, for bytes of any size, names,   *)
(* maps and metadata of any length and buffers of any capacity.            *)
(***************************************************************************)
EXTENDS CallMetadata, SequenceTheorems, TLAPS

Byte == 0 .. ByteSize - 1

(* The field that starts at an offset of g is s, as far as g goes.         *)
Begins(g, o, s) ==
  /\ o + 1 <= Len(g) => g[o + 1] = WriteShort(Len(s))[1]
  /\ o + 2 <= Len(g) => g[o + 2] = WriteShort(Len(s))[2]
  /\ \A i \in 1 .. Len(s) : o + 2 + i <= Len(g) => g[o + 2 + i] = s[i]

(* And g goes to its end.                                                  *)
Encoded(g, o, s) == Begins(g, o, s) /\ o + 2 + Len(s) <= Len(g)

-----------------------------------------------------------------------------
(* A length is written as two bytes that stand for its low bits: all of it *)
(* if it is accepted, and never more than it.                              *)
LEMMA ShortBytes ==
  ASSUME NEW n \in Nat
  PROVE  /\ WriteShort(n) \in Seq(Byte) /\ Len(WriteShort(n)) = 2
         /\ WriteShort(n)[1] * ByteSize + WriteShort(n)[2] \in 0 .. n
         /\ n <= UNSIGNED_SHORT_MAX_VALUE =>
              WriteShort(n)[1] * ByteSize + WriteShort(n)[2] = n
<1> DEFINE q == n \div ByteSize
           r == n % ByteSize
<1>1. ByteSize \in Nat /\ ByteSize >= 1
  BY ByteSizeAssumption
<1>2. q \in Nat /\ r \in Byte /\ q % ByteSize \in Byte
  BY <1>1 DEF Byte
<1>3. n = q * ByteSize + r
  BY <1>1
<1>4. WriteShort(n) = <<q % ByteSize, r>>
  BY DEF WriteShort
<1>5. q % ByteSize <= q
  BY <1>1, <1>2
<1> HIDE DEF q, r
<1>6. (q % ByteSize) * ByteSize <= q * ByteSize
  BY <1>1, <1>2, <1>5 DEF Byte
<1>7. (q % ByteSize) * ByteSize \in Nat /\ q * ByteSize \in Nat
  BY <1>1, <1>2 DEF Byte
<1>8. (q % ByteSize) * ByteSize + r \in 0 .. n
  BY <1>2, <1>3, <1>6, <1>7 DEF Byte
<1>9. n <= UNSIGNED_SHORT_MAX_VALUE => q % ByteSize = q
  <2>1. n <= UNSIGNED_SHORT_MAX_VALUE => q < ByteSize
    BY <1>1, <1>2, <1>3 DEF Byte, UNSIGNED_SHORT_MAX_VALUE
  <2> QED
    BY <2>1, <1>1, <1>2
<1>10. WriteShort(n) \in Seq(Byte) /\ Len(WriteShort(n)) = 2
       /\ WriteShort(n)[1] = q % ByteSize /\ WriteShort(n)[2] = r
  BY <1>2, <1>4
<1> QED
  BY <1>3, <1>8, <1>9, <1>10

LEMMA SignedRange ==
  /\ SIGNED_SHORT_MAX_VALUE \in Nat \ {0} /\ UNSIGNED_SHORT_MAX_VALUE \in Nat
  /\ SIGNED_SHORT_MAX_VALUE <= UNSIGNED_SHORT_MAX_VALUE
<1>1. ByteSize \in Nat /\ ByteSize >= 2
  BY ByteSizeAssumption
<1>2. ByteSize \div 2 \in Nat /\ ByteSize \div 2 >= 1 /\ ByteSize \div 2 <= ByteSize
  BY <1>1
<1>3. ByteSize * (ByteSize \div 2) \in Nat /\ ByteSize * (ByteSize \div 2) >= ByteSize
  BY <1>1, <1>2
<1>4. ByteSize * (ByteSize \div 2) <= ByteSize * ByteSize /\ ByteSize * ByteSize \in Nat
  BY <1>1, <1>2
<1> QED
  BY <1>1, <1>3, <1>4 DEF SIGNED_SHORT_MAX_VALUE, UNSIGNED_SHORT_MAX_VALUE

(* What a length that was written is read as.                              *)
LEMMA ReadLength ==
  ASSUME NEW g \in Seq(Byte), NEW o \in Nat, NEW n \in Nat,
         o + 1 <= Len(g) => g[o + 1] = WriteShort(n)[1],
         o + 2 <= Len(g) => g[o + 2] = WriteShort(n)[2]
  PROVE  \/ GetShort(g, o) = {} /\ o + 2 > Len(g)
         \/ \E k \in 0 .. n :
              /\ o + 2 <= Len(g)
              /\ GetShort(g, o) = {ToSigned(k)}
              /\ n <= UNSIGNED_SHORT_MAX_VALUE => k = n
<1>1. CASE o + 2 > Len(g)
  <2>1. Bytes(g, o, SHORT_BYTES) = {}
    BY <1>1 DEF Bytes, SHORT_BYTES
  <2> QED
    BY <1>1, <2>1 DEF GetShort
<1>2. CASE o + 2 <= Len(g)
  <2> DEFINE b == SubSeq(g, o + 1, o + 2)
  <2>1. Bytes(g, o, SHORT_BYTES) = {b}
    BY <1>2 DEF Bytes, SHORT_BYTES
  <2>2. b[1] = g[o + 1] /\ b[2] = g[o + 2]
    BY <1>2
  <2> HIDE DEF b
  <2>3. GetShort(g, o) = {ToSigned(WriteShort(n)[1] * ByteSize + WriteShort(n)[2])}
    BY <1>2, <2>1, <2>2 DEF GetShort
  <2> QED
    BY <1>2, <2>3, ShortBytes
<1> QED
  BY <1>1, <1>2

(* A reader of a field returns what was written or throws, and returns it  *)
(* if it is all there and at most Short.MAX_VALUE long.                    *)
LEMMA FieldRead ==
  ASSUME NEW g \in Seq(Byte), NEW o \in Nat, NEW s \in Seq(Byte), Begins(g, o, s),
         Len(s) <= UNSIGNED_SHORT_MAX_VALUE
  PROVE  /\ Field(g, o) \subseteq {s}
         /\ Field(g, o) # {} => Short(s) /\ o + 2 + Len(s) <= Len(g)
         /\ Short(s) /\ o + 2 + Len(s) <= Len(g) => Field(g, o) = {s}
         /\ Short(s) /\ o + 2 <= Len(g) => Skip(g, o) = {o + 2 + Len(s)}
<1>1. \/ GetShort(g, o) = {} /\ o + 2 > Len(g)
      \/ o + 2 <= Len(g) /\ GetShort(g, o) = {ToSigned(Len(s))}
  BY ReadLength DEF Begins
<1>2. Len(s) \in Nat /\ Len(g) \in Nat
  OBVIOUS
<1>3. CASE GetShort(g, o) = {} /\ o + 2 > Len(g)
  BY <1>2, <1>3 DEF Field
<1>4. CASE o + 2 <= Len(g) /\ GetShort(g, o) = {ToSigned(Len(s))}
  <2>1. Field(g, o) = Bytes(g, o + 2, ToSigned(Len(s)))
    BY <1>4 DEF Field, SHORT_BYTES
  <2>2. Skip(g, o) = {o + 2 + ToSigned(Len(s))}
    BY <1>4 DEF Skip, SHORT_BYTES
  <2>3. CASE ~Short(s)
    <3>1. ToSigned(Len(s)) \in Int /\ ToSigned(Len(s)) < 0
      <4>1. ByteSize * ByteSize \in Int /\ Len(s) <= ByteSize * ByteSize - 1
        BY ByteSizeAssumption DEF UNSIGNED_SHORT_MAX_VALUE
      <4>2. Len(s) > SIGNED_SHORT_MAX_VALUE
        BY <2>3, <1>2, SignedRange DEF Short
      <4>3. ToSigned(Len(s)) = Len(s) - ByteSize * ByteSize
        BY <4>2 DEF ToSigned
      <4> QED
        BY <4>1, <4>3, <1>2
    <3>2. Field(g, o) = {}
      BY <2>1, <3>1 DEF Bytes
    <3> QED
      BY <2>3, <3>2
  <2>4. CASE Short(s)
    <3>1. ToSigned(Len(s)) = Len(s)
      BY <2>4, <1>2, SignedRange DEF ToSigned, Short
    <3>2. CASE o + 2 + Len(s) > Len(g)
      BY <2>1, <2>2, <2>4, <3>1, <3>2, <1>2 DEF Bytes
    <3>3. CASE o + 2 + Len(s) <= Len(g)
      <4> DEFINE t == SubSeq(g, o + 2 + 1, o + 2 + Len(s))
      <4>1. t = s
        <5>1. t \in Seq(Byte) /\ Len(t) = Len(s)
          BY <3>3, <1>2
        <5>2. \A i \in 1 .. Len(s) : t[i] = g[o + 2 + i]
          BY <3>3, <1>2
        <5>3. \A i \in 1 .. Len(s) : o + 2 + i <= Len(g)
          BY <3>3, <1>2
        <5>4. \A i \in 1 .. Len(t) : t[i] = s[i]
          BY <5>1, <5>2, <5>3 DEF Begins
        <5> HIDE DEF t
        <5> QED
          BY <5>1, <5>4, SeqEqual
      <4>2. Field(g, o) = {t}
        BY <2>1, <3>1, <3>3, <1>2 DEF Bytes
      <4> QED
        BY <4>1, <4>2, <2>2, <3>1, <3>3, <2>4
    <3> QED
      BY <3>2, <3>3, <1>2
  <2> QED
    BY <2>3, <2>4
<1> QED
  BY <1>1, <1>3, <1>4

(* The length of the tracing bytes is not checked: what is read is what    *)
(* was written, or a part of it from the start.                            *)
LEMMA TracingRead ==
  ASSUME NEW g \in Seq(Byte), NEW o \in Nat, NEW s \in Seq(Byte), Encoded(g, o, s)
  PROVE  /\ \E j \in 0 .. Len(s) : TracingField(g, o) = {SubSeq(s, 1, j)}
         /\ Short(s) => TracingField(g, o) = {s} /\ Skip(g, o) = {o + 2 + Len(s)}
<1>1. Len(s) \in Nat /\ Len(g) \in Nat /\ o + 2 + Len(s) <= Len(g)
  BY DEF Encoded
<1>2. PICK k \in 0 .. Len(s) :
        /\ GetShort(g, o) = {ToSigned(k)}
        /\ Len(s) <= UNSIGNED_SHORT_MAX_VALUE => k = Len(s)
  <2> DEFINE n == Len(s)
  <2>1. /\ o + 1 <= Len(g) => g[o + 1] = WriteShort(n)[1]
        /\ o + 2 <= Len(g) => g[o + 2] = WriteShort(n)[2]
    BY DEF Encoded, Begins
  <2>2. ~(o + 2 > Len(g)) /\ n \in Nat
    BY <1>1
  <2> HIDE DEF n
  <2>3. \E k \in 0 .. n : /\ GetShort(g, o) = {ToSigned(k)}
                          /\ n <= UNSIGNED_SHORT_MAX_VALUE => k = n
    BY <2>1, <2>2, ReadLength
  <2> QED
    BY <2>3 DEF n
<1>3. TracingField(g, o) =
        IF ToSigned(k) > 0 THEN Bytes(g, o + 2, ToSigned(k)) ELSE {<<>>}
  BY <1>2 DEF TracingField, SHORT_BYTES
<1>4. ToSigned(k) \in Int /\ ToSigned(k) <= Len(s)
  <2>1. ByteSize * ByteSize \in Nat /\ k \in Nat
    BY ByteSizeAssumption
  <2> QED
    BY <2>1, <1>1, SignedRange DEF ToSigned
<1>5. ASSUME NEW j \in 0 .. Len(s)
      PROVE  Bytes(g, o + 2, j) = {SubSeq(s, 1, j)}
  <2> DEFINE t == SubSeq(g, o + 2 + 1, o + 2 + j)
             u == SubSeq(s, 1, j)
  <2>1. t \in Seq(Byte) /\ Len(t) = j /\ u \in Seq(Byte) /\ Len(u) = j
    BY <1>1
  <2>2. \A i \in 1 .. j : t[i] = g[o + 2 + i] /\ u[i] = s[i]
    BY <1>1
  <2>3. \A i \in 1 .. j : g[o + 2 + i] = s[i]
    BY <1>1 DEF Encoded, Begins
  <2>4. Bytes(g, o + 2, j) = {t}
    BY <1>1 DEF Bytes
  <2> HIDE DEF t, u
  <2>5. t = u
    BY <2>1, <2>2, <2>3, SeqEqual
  <2> QED
    BY <2>4, <2>5 DEF u
<1>6. SubSeq(s, 1, 0) = <<>> /\ SubSeq(s, 1, Len(s)) = s
  BY <1>1
<1>7. \E j \in 0 .. Len(s) : TracingField(g, o) = {SubSeq(s, 1, j)}
  <2>1. CASE ToSigned(k) > 0
    <3>1. ToSigned(k) \in 0 .. Len(s)
      BY <2>1, <1>1, <1>4
    <3> QED
      BY <2>1, <3>1, <1>3, <1>5
  <2>2. CASE ~(ToSigned(k) > 0)
    <3>1. 0 \in 0 .. Len(s)
      BY <1>1
    <3> QED
      BY <2>2, <3>1, <1>3, <1>6
  <2> QED
    BY <2>1, <2>2
<1>8. ASSUME Short(s)
      PROVE  TracingField(g, o) = {s} /\ Skip(g, o) = {o + 2 + Len(s)}
  <2>1. k = Len(s) /\ ToSigned(k) = Len(s)
    BY <1>1, <1>2, <1>8, SignedRange DEF Short, ToSigned
  <2>2. CASE Len(s) > 0
    <3>1. TracingField(g, o) = {SubSeq(s, 1, Len(s))}
      BY <1>1, <1>3, <1>5, <2>1, <2>2
    <3> QED
      BY <3>1, <1>2, <1>6, <2>1 DEF Skip, SHORT_BYTES
  <2>3. CASE Len(s) = 0
    <3>1. s = <<>>
      BY <2>3
    <3> QED
      BY <3>1, <1>2, <1>3, <2>1, <2>3 DEF Skip, SHORT_BYTES
  <2> QED
    BY <2>2, <2>3, <1>1
<1> QED
  BY <1>7, <1>8

LEMMA Appended ==
  ASSUME NEW g \in Seq(Byte), NEW t \in Seq(Byte)
  PROVE  /\ g \o t \in Seq(Byte) /\ Len(g \o t) = Len(g) + Len(t)
         /\ \A i \in 1 .. Len(g) : (g \o t)[i] = g[i]
         /\ \A i \in 1 .. Len(t) : (g \o t)[Len(g) + i] = t[i]
  OBVIOUS

(* A field that is written behind a header is there, and stays there.      *)
LEMMA FieldWritten ==
  ASSUME NEW h \in Seq(Byte), NEW s \in Seq(Byte)
  PROVE  /\ h \o WriteShort(Len(s)) \o s \in Seq(Byte)
         /\ Len(h \o WriteShort(Len(s)) \o s) = Len(h) + 2 + Len(s)
         /\ Encoded(h \o WriteShort(Len(s)) \o s, Len(h), s)
         /\ \A i \in 1 .. Len(h) : (h \o WriteShort(Len(s)) \o s)[i] = h[i]
<1> DEFINE w == WriteShort(Len(s))
           hw == h \o w
           g == hw \o s
<1>1. Len(s) \in Nat /\ Len(h) \in Nat
  OBVIOUS
<1>2. w \in Seq(Byte) /\ Len(w) = 2
  BY <1>1, ShortBytes
<1> HIDE DEF w
<1>3. hw \in Seq(Byte) /\ Len(hw) = Len(h) + 2
      /\ hw[Len(h) + 1] = w[1] /\ hw[Len(h) + 2] = w[2]
      /\ \A i \in 1 .. Len(h) : hw[i] = h[i]
  <2>1. /\ hw \in Seq(Byte) /\ Len(hw) = Len(h) + Len(w)
        /\ \A i \in 1 .. Len(h) : hw[i] = h[i]
        /\ \A i \in 1 .. Len(w) : hw[Len(h) + i] = w[i]
    BY <1>2, Appended
  <2> HIDE DEF hw
  <2>2. 1 \in 1 .. Len(w) /\ 2 \in 1 .. Len(w)
    BY <1>2
  <2> QED
    BY <1>2, <2>1, <2>2
<1> HIDE DEF hw
<1>4. g \in Seq(Byte) /\ Len(g) = Len(h) + 2 + Len(s)
  BY <1>1, <1>3
<1>5. g[Len(h) + 1] = hw[Len(h) + 1] /\ g[Len(h) + 2] = hw[Len(h) + 2]
  BY <1>1, <1>3
<1>6. \A i \in 1 .. Len(s) : g[Len(h) + 2 + i] = s[i]
  BY <1>1, <1>3
<1> HIDE DEF g
<1>7. Encoded(g, Len(h), s)
  <2>1. w = WriteShort(Len(s))
    BY DEF w
  <2> QED
    <3>1. g[Len(h) + 1] = WriteShort(Len(s))[1] /\ g[Len(h) + 2] = WriteShort(Len(s))[2]
      BY <2>1, <1>3, <1>5
    <3>2. Begins(g, Len(h), s)
      BY <3>1, <1>6 DEF Begins
    <3> QED
      BY <3>2, <1>1, <1>4 DEF Encoded
<1>8. \A i \in 1 .. Len(h) : g[i] = h[i]
  <2>1. \A i \in 1 .. Len(hw) : g[i] = hw[i]
    BY <1>3, Appended DEF g
  <2> QED
    BY <2>1, <1>1, <1>3
<1> QED
  BY <1>4, <1>7, <1>8 DEF g, hw, w

LEMMA FieldKept ==
  ASSUME NEW g \in Seq(Byte), NEW t \in Seq(Byte), NEW o \in Nat, NEW s \in Seq(Byte),
         Encoded(g, o, s)
  PROVE  Encoded(g \o t, o, s)
<1>1. /\ Len(g) \in Nat /\ Len(t) \in Nat /\ Len(s) \in Nat
      /\ Len(g \o t) = Len(g) + Len(t) /\ o + 2 + Len(s) <= Len(g)
  BY DEF Encoded
<1>2. \A i \in 1 .. Len(g) : (g \o t)[i] = g[i]
  BY <1>1
<1>3. (g \o t)[o + 1] = g[o + 1] /\ (g \o t)[o + 2] = g[o + 2]
  BY <1>1, <1>2
<1>4. \A i \in 1 .. Len(s) : o + 2 + i \in 1 .. Len(g)
  BY <1>1
<1>5. \A i \in 1 .. Len(s) : (g \o t)[o + 2 + i] = g[o + 2 + i]
  BY <1>2, <1>4
<1>6. \A i \in 1 .. Len(s) : g[o + 2 + i] = s[i]
  BY <1>1, <1>4 DEF Encoded, Begins
<1> QED
  BY <1>1, <1>3, <1>5, <1>6 DEF Encoded, Begins

LEMMA FieldKeptByField ==
  ASSUME NEW g \in Seq(Byte), NEW t \in Seq(Byte), NEW o \in Nat, NEW s \in Seq(Byte),
         Encoded(g, o, s)
  PROVE  Encoded(g \o WriteShort(Len(t)) \o t, o, s)
<1> DEFINE w == WriteShort(Len(t))
           gw == g \o w
<1>1. Len(t) \in Nat
  OBVIOUS
<1>2. w \in Seq(Byte)
  BY <1>1, ShortBytes
<1> HIDE DEF w
<1>3. gw \in Seq(Byte) /\ Encoded(gw, o, s)
  BY <1>2, FieldKept, Appended
<1> HIDE DEF gw
<1>4. Encoded(gw \o t, o, s)
  BY <1>3, FieldKept
<1> QED
  BY <1>4 DEF gw, w

(* The fields of a frame, one behind the other.                            *)
Layout(f, service, method, bytes, metadata) ==
  /\ f \in Seq(Byte)
  /\ Len(service) <= UNSIGNED_SHORT_MAX_VALUE /\ Len(method) <= UNSIGNED_SHORT_MAX_VALUE
  /\ Len(f) = 8 + Len(service) + Len(method) + Len(bytes) + Len(metadata)
  /\ f[1] = WriteShort(VERSION)[1] /\ f[2] = WriteShort(VERSION)[2]
  /\ Encoded(f, 2, service)
  /\ Encoded(f, 4 + Len(service), method)
  /\ Encoded(f, 6 + Len(service) + Len(method), bytes)
  /\ \A i \in 1 .. Len(metadata) :
       f[8 + Len(service) + Len(method) + Len(bytes) + i] = metadata[i]

(* encode writes every field, and accepts no longer route.                 *)
LEMMA FrameLayout ==
  ASSUME NEW service \in Seq(Byte), NEW method \in Seq(Byte), NEW bytes \in Seq(Byte),
         NEW metadata \in Seq(Byte), NEW f \in encode(service, method, bytes, metadata)
  PROVE  Layout(f, service, method, bytes, metadata)
<1> DEFINE h1 == WriteShort(VERSION)
           h2 == h1 \o WriteShort(Len(service)) \o service
           h3 == h2 \o WriteShort(Len(method)) \o method
           h4 == h3 \o WriteShort(Len(bytes)) \o bytes
<1>1. /\ f = h4 \o metadata
      /\ Len(service) <= UNSIGNED_SHORT_MAX_VALUE /\ Len(method) <= UNSIGNED_SHORT_MAX_VALUE
  <2>1. PICK n1 \in requireUnsignedShort(Len(service)), n2 \in requireUnsignedShort(Len(method)) :
          f = Frame(service, n1, method, n2, bytes, metadata)
    BY DEF encode
  <2>2. n1 = Len(service) /\ Len(service) <= UNSIGNED_SHORT_MAX_VALUE
    BY DEF requireUnsignedShort
  <2>3. n2 = Len(method) /\ Len(method) <= UNSIGNED_SHORT_MAX_VALUE
    BY DEF requireUnsignedShort
  <2>4. h4 \o metadata = Frame(service, Len(service), method, Len(method), bytes, metadata)
    BY DEF Frame
  <2> QED
    BY <2>1, <2>2, <2>3, <2>4
<1>2. Len(service) \in Nat /\ Len(method) \in Nat /\ Len(bytes) \in Nat /\ Len(metadata) \in Nat
  OBVIOUS
<1>3. h1 \in Seq(Byte) /\ Len(h1) = 2
  BY ShortBytes DEF VERSION
<1> HIDE DEF h1
<1>4. /\ h2 \in Seq(Byte) /\ Len(h2) = 4 + Len(service)
      /\ Encoded(h2, 2, service) /\ h2[1] = h1[1] /\ h2[2] = h1[2]
  <2>1. /\ h2 \in Seq(Byte) /\ Len(h2) = Len(h1) + 2 + Len(service)
        /\ Encoded(h2, Len(h1), service) /\ \A i \in 1 .. Len(h1) : h2[i] = h1[i]
    BY <1>3, FieldWritten
  <2> HIDE DEF h2
  <2> QED
    BY <2>1, <1>2, <1>3
<1> HIDE DEF h2
<1>5. /\ h3 \in Seq(Byte) /\ Len(h3) = 6 + Len(service) + Len(method)
      /\ Encoded(h3, 2, service) /\ Encoded(h3, 4 + Len(service), method)
      /\ h3[1] = h1[1] /\ h3[2] = h1[2]
  <2>1. /\ h3 \in Seq(Byte) /\ Len(h3) = Len(h2) + 2 + Len(method)
        /\ Encoded(h3, Len(h2), method) /\ \A i \in 1 .. Len(h2) : h3[i] = h2[i]
    BY <1>4, FieldWritten
  <2>2. Encoded(h3, 2, service)
    BY <1>4, FieldKeptByField
  <2> HIDE DEF h3
  <2> QED
    BY <2>1, <2>2, <1>2, <1>4
<1> HIDE DEF h3
<1>6. /\ h4 \in Seq(Byte) /\ Len(h4) = 8 + Len(service) + Len(method) + Len(bytes)
      /\ Encoded(h4, 2, service) /\ Encoded(h4, 4 + Len(service), method)
      /\ Encoded(h4, 6 + Len(service) + Len(method), bytes)
      /\ h4[1] = h1[1] /\ h4[2] = h1[2]
  <2>1. /\ h4 \in Seq(Byte) /\ Len(h4) = Len(h3) + 2 + Len(bytes)
        /\ Encoded(h4, Len(h3), bytes) /\ \A i \in 1 .. Len(h3) : h4[i] = h3[i]
    BY <1>5, FieldWritten
  <2>2. Encoded(h4, 2, service)
    BY <1>5, FieldKeptByField
  <2>3. Encoded(h4, 4 + Len(service), method)
    BY <1>2, <1>5, FieldKeptByField
  <2> HIDE DEF h4
  <2> QED
    BY <2>1, <2>2, <2>3, <1>2, <1>5
<1> HIDE DEF h4
<1>7. /\ f \in Seq(Byte) /\ Len(f) = Len(h4) + Len(metadata)
      /\ \A i \in 1 .. Len(h4) : f[i] = h4[i]
      /\ \A i \in 1 .. Len(metadata) : f[Len(h4) + i] = metadata[i]
  <2>1. /\ h4 \o metadata \in Seq(Byte) /\ Len(h4 \o metadata) = Len(h4) + Len(metadata)
        /\ \A i \in 1 .. Len(h4) : (h4 \o metadata)[i] = h4[i]
        /\ \A i \in 1 .. Len(metadata) : (h4 \o metadata)[Len(h4) + i] = metadata[i]
    BY <1>6, Appended
  <2> QED
    BY <1>1, <2>1
<1>8. Encoded(f, 2, service)
  BY <1>1, <1>6, FieldKept
<1>9. Encoded(f, 4 + Len(service), method)
  BY <1>1, <1>2, <1>6, FieldKept
<1>10. Encoded(f, 6 + Len(service) + Len(method), bytes)
  BY <1>1, <1>2, <1>6, FieldKept
<1>11. f[1] = h1[1] /\ f[2] = h1[2]
  BY <1>2, <1>6, <1>7
<1> QED
  BY <1>1, <1>2, <1>6, <1>7, <1>8, <1>9, <1>10, <1>11 DEF h1, Layout

(* What each reader makes of a frame.                                      *)
LEMMA FrameRead ==
  ASSUME NEW service \in Seq(Byte), NEW method \in Seq(Byte), NEW bytes \in Seq(Byte),
         NEW metadata \in Seq(Byte), NEW f \in encode(service, method, bytes, metadata)
  PROVE  /\ getVersion(f) = {VERSION}
         /\ getService(f) \subseteq {service}
         /\ getService(f) # {} => Short(service)
         /\ Short(service) =>
              /\ getService(f) = {service}
              /\ getMethod(f) \subseteq {method}
              /\ getMethod(f) # {} => Short(method)
         /\ Short(service) /\ Short(method) =>
              /\ getMethod(f) = {method}
              /\ \E j \in 0 .. Len(bytes) : getTracing(f) = {SubSeq(bytes, 1, j)}
         /\ Short(service) /\ Short(method) /\ Short(bytes) =>
              getTracing(f) = {bytes} /\ getMetadata(f) = {metadata}
<1> DEFINE o2 == 4 + Len(service)
           o3 == 6 + Len(service) + Len(method)
           o4 == 8 + Len(service) + Len(method) + Len(bytes)
<1>1. Len(service) \in Nat /\ Len(method) \in Nat /\ Len(bytes) \in Nat /\ Len(metadata) \in Nat
  OBVIOUS
<1>2. /\ f \in Seq(Byte)
      /\ Len(service) <= UNSIGNED_SHORT_MAX_VALUE /\ Len(method) <= UNSIGNED_SHORT_MAX_VALUE
      /\ Len(f) = o4 + Len(metadata)
      /\ f[1] = WriteShort(VERSION)[1] /\ f[2] = WriteShort(VERSION)[2]
      /\ Encoded(f, 2, service) /\ Encoded(f, o2, method) /\ Encoded(f, o3, bytes)
      /\ \A i \in 1 .. Len(metadata) : f[o4 + i] = metadata[i]
  <2>1. Layout(f, service, method, bytes, metadata)
    BY FrameLayout, Zenon
  <2> QED
    BY <2>1 DEF Layout
<1>2a. 2 \in Nat /\ o2 \in Nat /\ o3 \in Nat /\ o4 \in Nat
  BY <1>1
<1> HIDE DEF o2, o3, o4
<1>3. getVersion(f) = {VERSION}
  <2>1. GetShort(f, 0) = {ToSigned(1)}
    <3> DEFINE z == 0
               n == 1
    <3>1. z \in Nat /\ n \in Nat /\ n <= UNSIGNED_SHORT_MAX_VALUE
      BY SignedRange
    <3>2. /\ z + 1 <= Len(f) => f[z + 1] = WriteShort(n)[1]
          /\ z + 2 <= Len(f) => f[z + 2] = WriteShort(n)[2]
      BY <1>2 DEF VERSION
    <3>3. ~(z + 2 > Len(f))
      BY <1>1, <1>2 DEF o4
    <3> HIDE DEF z, n
    <3>4. \E k \in 0 .. n : GetShort(f, z) = {ToSigned(k)} /\ k = n
      BY <1>2, <3>1, <3>2, <3>3, ReadLength
    <3> QED
      BY <3>4 DEF z, n
  <2>2. ToSigned(1) = 1
    BY SignedRange DEF ToSigned
  <2>3. 1 % (SIGNED_SHORT_MAX_VALUE + 1) = 1
    <3> DEFINE m == SIGNED_SHORT_MAX_VALUE + 1
               q == 1 \div m
    <3>1. m \in Nat /\ m >= 2
      BY SignedRange
    <3> HIDE DEF m
    <3>2. q \in Int /\ 1 = q * m + (1 % m) /\ (1 % m) \in 0 .. m - 1
      BY <3>1
    <3> HIDE DEF q
    <3> DEFINE x == q * m
               r == 1 % m
    <3>3. x \in Int /\ (q >= 1 => x >= m) /\ (q <= -1 => x <= -m)
      BY <3>1, <3>2
    <3>4. 1 = x + r /\ r \in 0 .. m - 1
      BY <3>2
    <3> HIDE DEF x, r
    <3>5. q = 0
      BY <3>1, <3>2, <3>3, <3>4
    <3>6. x = 0
      BY <3>1, <3>5 DEF x
    <3>7. r = 1
      BY <3>1, <3>4, <3>6
    <3> QED
      BY <3>7 DEF m, r
  <2> QED
    BY <2>1, <2>2, <2>3 DEF getVersion, VERSION
<1>4. /\ getService(f) \subseteq {service}
      /\ getService(f) # {} => Short(service)
      /\ Short(service) => getService(f) = {service} /\ MethodOffset(f) = {o2}
  <2>1. /\ Field(f, 2) \subseteq {service}
        /\ Field(f, 2) # {} => Short(service)
        /\ Short(service) => Field(f, 2) = {service} /\ Skip(f, 2) = {2 + 2 + Len(service)}
    <3>1. Begins(f, 2, service) /\ 2 + 2 + Len(service) <= Len(f) /\ 2 + 2 <= Len(f)
      BY <1>1, <1>2 DEF Encoded
    <3> QED
      BY <3>1, <1>2, <1>2a, FieldRead
  <2> QED
    BY <2>1, <1>1 DEF getService, MethodOffset, SHORT_BYTES, o2
<1>5. ASSUME Short(service)
      PROVE  /\ getMethod(f) \subseteq {method}
             /\ getMethod(f) # {} => Short(method)
             /\ Short(method) => getMethod(f) = {method} /\ TracingOffset(f) = {o3}
  <2>1. getMethod(f) = Field(f, o2) /\ TracingOffset(f) = Skip(f, o2)
    BY <1>4, <1>5 DEF getMethod, TracingOffset
  <2>2. /\ Field(f, o2) \subseteq {method}
        /\ Field(f, o2) # {} => Short(method)
        /\ Short(method) => Field(f, o2) = {method} /\ Skip(f, o2) = {o2 + 2 + Len(method)}
    <3>1. Begins(f, o2, method) /\ o2 + 2 + Len(method) <= Len(f) /\ o2 + 2 <= Len(f)
      BY <1>1, <1>2, <1>2a DEF Encoded
    <3> QED
      BY <3>1, <1>2, <1>2a, FieldRead
  <2>3. o2 + 2 + Len(method) = o3
    BY <1>1 DEF o2, o3
  <2> QED
    BY <2>1, <2>2, <2>3
<1>6. ASSUME Short(service), Short(method)
      PROVE  /\ \E j \in 0 .. Len(bytes) : getTracing(f) = {SubSeq(bytes, 1, j)}
             /\ Short(bytes) => getTracing(f) = {bytes} /\ MetadataOffset(f) = {o4}
  <2>1. getTracing(f) = TracingField(f, o3) /\ MetadataOffset(f) = Skip(f, o3)
    BY <1>5, <1>6 DEF getTracing, MetadataOffset
  <2>2. /\ \E j \in 0 .. Len(bytes) : TracingField(f, o3) = {SubSeq(bytes, 1, j)}
        /\ Short(bytes) => TracingField(f, o3) = {bytes} /\ Skip(f, o3) = {o3 + 2 + Len(bytes)}
    <3>1. f \in Seq(Byte) /\ o3 \in Nat /\ Encoded(f, o3, bytes)
      BY <1>2, <1>2a
    <3>2. \E j \in 0 .. Len(bytes) : TracingField(f, o3) = {SubSeq(bytes, 1, j)}
      BY <3>1, TracingRead
    <3>3. Short(bytes) => TracingField(f, o3) = {bytes} /\ Skip(f, o3) = {o3 + 2 + Len(bytes)}
      BY <3>1, TracingRead
    <3> QED
      BY <3>2, <3>3
  <2>3. o3 + 2 + Len(bytes) = o4
    BY <1>1 DEF o3, o4
  <2> QED
    BY <2>1, <2>2, <2>3, Zenon
<1>7. ASSUME Short(service), Short(method), Short(bytes)
      PROVE  getMetadata(f) = {metadata}
  <2>1. MetadataOffset(f) = {o4} /\ o4 \in Nat /\ Len(f) - o4 = Len(metadata)
    BY <1>1, <1>2, <1>2a, <1>6, <1>7
  <2>2. getMetadata(f) =
          IF Len(metadata) > 0 THEN Bytes(f, o4, Len(metadata)) ELSE {<<>>}
    <3>1. getMetadata(f) = IF Len(f) - o4 > 0 THEN Bytes(f, o4, Len(f) - o4) ELSE {<<>>}
      BY <2>1 DEF getMetadata
    <3> QED
      BY <2>1, <3>1
  <2>3. CASE Len(metadata) = 0
    BY <2>2, <2>3
  <2>4. CASE Len(metadata) > 0
    <3> DEFINE t == SubSeq(f, o4 + 1, o4 + Len(metadata))
    <3>1. Bytes(f, o4, Len(metadata)) = {t}
      BY <2>1, <1>1, <1>2 DEF Bytes
    <3>2. /\ t \in Seq(Byte) /\ Len(t) = Len(metadata)
          /\ \A i \in 1 .. Len(metadata) : t[i] = f[o4 + i]
      BY <2>1, <1>1, <1>2
    <3> HIDE DEF t
    <3>3. t = metadata
      BY <3>2, <1>2, SeqEqual
    <3> QED
      BY <3>1, <3>3, <2>2, <2>4
  <2> QED
    BY <2>3, <2>4, <1>1
<1> QED
  BY <1>3, <1>4, <1>5, <1>6, <1>7
-----------------------------------------------------------------------------
(* The inductive invariant.  First, the types, and that a frame is made    *)
(* when the map is written and holds what was written.                     *)

Typed ==
  /\ call \in [service : Seq(Byte), method : Seq(Byte), metadata : Seq(Byte)]
  /\ DOMAIN map \subseteq Seq(Byte) /\ map \in [DOMAIN map -> Seq(Byte)]
  /\ todo \subseteq DOMAIN map
  /\ buf \in Seq(Byte) /\ capacity \in Nat /\ overrun \in BOOLEAN
  /\ pc \in {"write", "sent", "read", "done", "failed"}

Framed ==
  /\ frame # {} => todo = {} /\ frame = encode(call.service, call.method, buf, call.metadata)
  /\ pc = "write" => frame = {}
  /\ pc \in {"sent", "read"} => frame # {}

(* A buffer g is a row of entries of the map m: at is where each begins.   *)
Value(k, o) == o + 2 + Len(k)

End(m, k, o) == o + 4 + Len(k) + Len(m[k])

EntryAt(g, m, k, o) ==
  /\ Accepted(k) /\ Encoded(g, o, k)
  /\ Accepted(m[k]) /\ Encoded(g, Value(k, o), m[k])

Apart(m, at, k, l) == End(m, k, at[k]) <= at[l] \/ End(m, l, at[l]) <= at[k]

(* Where an entry begins or the buffer ends.                               *)
Boundary(g, at, o) == o = Len(g) \/ \E l \in DOMAIN at : at[l] = o

Tiled(g, m, at) ==
  /\ \A k \in DOMAIN at : EntryAt(g, m, k, at[k]) /\ Boundary(g, at, End(m, k, at[k]))
  /\ \A k, l \in DOMAIN at : k = l \/ Apart(m, at, k, l)
  /\ Boundary(g, at, 0)

Before(m, at, p) == [k \in {l \in DOMAIN at : at[l] < p} |-> m[k]]

Empty == [k \in {} |-> <<>>]

(* Of the first q bytes of a row g, t are left after p were read, which is *)
(* up to the start of an entry, and r is the map of the entries before it. *)
Parsed(g, m, at, t, r, p, q) ==
  /\ Boundary(g, at, p)
  /\ t = SubSeq(g, p + 1, q)
  /\ r = Before(m, at, p)

ServerInv ==
  /\ frame = {} \/ pc = "sent" => read = Empty /\ tracing = <<>> /\ context = {}
  /\ read # Empty \/ pc = "read" => Short(call.service)

Served(at) ==
  \E q \in 0 .. Len(buf) : \E p \in 0 .. q :
    /\ Parsed(buf, map, at, tracing, read, p, q)
    /\ pc = "read" /\ Short(buf) => q = Len(buf)

Arranged ==
  ~overrun =>
    \E at \in [DOMAIN map \ todo -> 0 .. Len(buf)] :
      Tiled(buf, map, at) /\ (ShortRoute => Served(at))

-----------------------------------------------------------------------------
(* Writing an entry.                                                       *)

LEMMA WritableEnough ==
  ASSUME NEW cap \in Nat, NEW size \in Nat, NEW c \in EnsureWritable(cap, size)
  PROVE  c \in Nat /\ c >= size
BY InputsAssumption DEF EnsureWritable

(* A string is written behind the capacity only if it is longer than what  *)
(* was reserved for it.                                                    *)
LEMMA StringWritten ==
  ASSUME NEW bytes \in Seq(Byte), NEW cap \in Nat, NEW over \in BOOLEAN,
         NEW string \in Seq(Byte), NEW reserved \in Nat,
         NEW w \in WriteString([bytes |-> bytes, cap |-> cap, over |-> over], string, reserved)
  PROVE  /\ w = [bytes |-> w.bytes, cap |-> w.cap, over |-> w.over]
         /\ w.bytes = bytes \o WriteShort(Len(string)) \o string
         /\ w.bytes \in Seq(Byte) /\ w.cap \in Nat /\ w.over \in BOOLEAN
         /\ w.over => over \/ Len(string) > reserved
<1> DEFINE size == Len(bytes) + SHORT_BYTES
           all == bytes \o WriteShort(Len(string)) \o string
<1>1. size \in Nat /\ Len(string) \in Nat
  BY DEF SHORT_BYTES
<1>2. all \in Seq(Byte)
  BY FieldWritten
<1>3. PICK c \in UNION {EnsureWritable(d, size + reserved) : d \in EnsureWritable(cap, size)} :
        w = [bytes |-> all, cap |-> c, over |-> over \/ size + Len(string) > c]
  BY DEF WriteString
<1> HIDE DEF size, all
<1>4. PICK d \in EnsureWritable(cap, size) : c \in EnsureWritable(d, size + reserved)
  BY <1>3
<1>5. c \in Nat /\ c >= size + reserved
  <2>1. d \in Nat
    BY <1>1, WritableEnough
  <2>2. size + reserved \in Nat
    BY <1>1
  <2> QED
    BY <2>1, <2>2, <1>4, WritableEnough
<1>6. w.over <=> over \/ size + Len(string) > c
  BY <1>3
<1> QED
  BY <1>1, <1>2, <1>3, <1>5, <1>6 DEF all

(* An entry that is written behind the capacity has a value that is longer *)
(* than its key.                                                           *)
LEMMA EntryWritten ==
  ASSUME Typed, NEW key \in todo, NEW b \in WrittenEntry(key, Len(key), Len(key))
  PROVE  /\ b.bytes = buf \o WriteShort(Len(key)) \o key \o WriteShort(Len(map[key])) \o map[key]
         /\ b.bytes \in Seq(Byte) /\ b.cap \in Nat /\ b.over \in BOOLEAN
         /\ b.over => Len(map[key]) > Len(key)
<1>1. /\ buf \in Seq(Byte) /\ capacity \in Nat /\ key \in Seq(Byte) /\ map[key] \in Seq(Byte)
      /\ Len(key) \in Nat /\ Len(map[key]) \in Nat
  BY DEF Typed
<1>2. PICK a \in WriteString([bytes |-> buf, cap |-> capacity, over |-> FALSE], key, Len(key)) :
        b \in WriteString(a, map[key], Len(key))
  BY DEF WrittenEntry
<1>3. /\ a = [bytes |-> a.bytes, cap |-> a.cap, over |-> a.over]
      /\ a.bytes = buf \o WriteShort(Len(key)) \o key
      /\ a.bytes \in Seq(Byte) /\ a.cap \in Nat /\ a.over \in BOOLEAN
      /\ a.over => FALSE \/ Len(key) > Len(key)
  BY <1>1, <1>2, StringWritten
<1>4. ~a.over
  BY <1>1, <1>3
<1>5. b \in WriteString([bytes |-> a.bytes, cap |-> a.cap, over |-> a.over], map[key], Len(key))
  BY <1>2, <1>3
<1> DEFINE bytes == a.bytes
           cap == a.cap
           over == a.over
           value == map[key]
           reserved == Len(key)
<1>6. /\ b.bytes = bytes \o WriteShort(Len(value)) \o value
      /\ b.bytes \in Seq(Byte) /\ b.cap \in Nat /\ b.over \in BOOLEAN
      /\ b.over => over \/ Len(value) > reserved
  <2>1. /\ bytes \in Seq(Byte) /\ cap \in Nat /\ over \in BOOLEAN
        /\ value \in Seq(Byte) /\ reserved \in Nat
    BY <1>1, <1>3
  <2>2. b \in WriteString([bytes |-> bytes, cap |-> cap, over |-> over], value, reserved)
    BY <1>5
  <2> HIDE DEF bytes, cap, over, value, reserved
  <2> QED
    BY <2>1, <2>2, StringWritten
<1> QED
  BY <1>3, <1>4, <1>6

(* What one iteration of mapToByteBuf does: it appends the entry, or it    *)
(* writes behind the capacity, or it throws.                               *)
Appends(key) ==
  /\ buf' = buf \o WriteShort(Len(key)) \o key \o WriteShort(Len(map[key])) \o map[key]
  /\ todo' = todo \ {key}
  /\ UNCHANGED <<overrun, pc>>

Overruns(key) ==
  /\ overrun' /\ Len(map[key]) > Len(key)
  /\ todo' \subseteq todo
  /\ pc' \in {pc, "failed"}

Throws == pc' = "failed" /\ UNCHANGED <<buf, todo, overrun>>

LEMMA WriteStep ==
  ASSUME Typed, mapToByteBuf
  PROVE  /\ \E key \in todo : /\ Accepted(key) /\ Accepted(map[key])
                              /\ Appends(key) \/ Overruns(key) \/ Throws
         /\ buf' \in Seq(Byte) /\ capacity' \in Nat /\ overrun' \in BOOLEAN
         /\ pc = "write" /\ UNCHANGED <<call, map, frame, tracing, read, context>>
<1>1. pc = "write" /\ UNCHANGED <<call, map, frame, tracing, read, context>>
  BY DEF mapToByteBuf, server
<1>2. PICK key \in todo : Accepted(key) /\ Accepted(map[key]) /\ WriteEntry(key)
  BY DEF mapToByteBuf
<1>3. buf \in Seq(Byte) /\ capacity \in Nat /\ overrun \in BOOLEAN
  BY DEF Typed
<1>4. ASSUME NEW b \in WrittenEntry(key, Len(key), Len(key)),
             capacity' = b.cap, overrun' = (overrun \/ b.over),
             \/ /\ buf' = b.bytes
                /\ todo' = todo \ {key}
                /\ UNCHANGED pc
             \/ /\ b.over
                /\ buf' = [j \in DOMAIN b.bytes |-> IF j > b.cap THEN 0 ELSE b.bytes[j]]
                /\ todo' = todo \ {key}
                /\ UNCHANGED pc
             \/ /\ b.over
                /\ pc' = "failed"
                /\ UNCHANGED <<buf, todo>>
      PROVE  /\ Appends(key) \/ Overruns(key)
             /\ buf' \in Seq(Byte) /\ capacity' \in Nat /\ overrun' \in BOOLEAN
  <2>1. /\ b.bytes = buf \o WriteShort(Len(key)) \o key \o WriteShort(Len(map[key])) \o map[key]
        /\ b.bytes \in Seq(Byte) /\ b.cap \in Nat /\ b.over \in BOOLEAN
        /\ b.over => Len(map[key]) > Len(key)
    BY EntryWritten
  <2> DEFINE g == [j \in DOMAIN b.bytes |-> IF j > b.cap THEN 0 ELSE b.bytes[j]]
  <2>2. g \in Seq(Byte)
    <3> DEFINE t == b.bytes
               c == b.cap
               n == Len(t)
    <3>0. 0 \in Byte /\ t \in Seq(Byte)
      BY <2>1, ByteSizeAssumption DEF Byte
    <3>1. g = [j \in DOMAIN t |-> IF j > c THEN 0 ELSE t[j]]
      OBVIOUS
    <3> HIDE DEF g, t, c
    <3>2. n \in Nat /\ DOMAIN t = 1 .. n /\ \A j \in 1 .. n : t[j] \in Byte
      BY <3>0
    <3> HIDE DEF n
    <3>3. g \in [1 .. n -> Byte]
      BY <3>0, <3>1, <3>2
    <3> QED
      BY <3>2, <3>3
  <2> HIDE DEF g
  <2>3. buf' \in Seq(Byte)
    BY <1>3, <1>4, <2>1, <2>2 DEF g
  <2>4. capacity' \in Nat /\ overrun' \in BOOLEAN
    BY <1>3, <1>4, <2>1
  <2>5. CASE b.over
    <3>1. overrun' /\ todo' \subseteq todo /\ pc' \in {pc, "failed"}
      BY <1>4, <2>5
    <3> QED
      BY <2>1, <2>3, <2>4, <2>5, <3>1 DEF Overruns
  <2>6. CASE ~b.over
    <3>1. buf' = b.bytes /\ todo' = todo \ {key} /\ pc' = pc /\ overrun' = overrun
      BY <1>3, <1>4, <2>6
    <3> QED
      BY <2>1, <2>3, <2>4, <3>1 DEF Appends
  <2> QED
    BY <2>5, <2>6
<1>5. ASSUME pc' = "failed", UNCHANGED <<buf, todo, capacity, overrun>>
      PROVE  /\ Throws
             /\ buf' \in Seq(Byte) /\ capacity' \in Nat /\ overrun' \in BOOLEAN
  BY <1>3, <1>5 DEF Throws
<1>6. /\ Appends(key) \/ Overruns(key) \/ Throws
      /\ buf' \in Seq(Byte) /\ capacity' \in Nat /\ overrun' \in BOOLEAN
  <2>1. CASE \E b \in WrittenEntry(key, Len(key), Len(key)) :
               /\ capacity' = b.cap
               /\ overrun' = (overrun \/ b.over)
               /\ \/ /\ buf' = b.bytes
                     /\ todo' = todo \ {key}
                     /\ UNCHANGED pc
                  \/ /\ b.over
                     /\ buf' = [j \in DOMAIN b.bytes |-> IF j > b.cap THEN 0 ELSE b.bytes[j]]
                     /\ todo' = todo \ {key}
                     /\ UNCHANGED pc
                  \/ /\ b.over
                     /\ pc' = "failed"
                     /\ UNCHANGED <<buf, todo>>
    BY <2>1, <1>4
  <2>2. CASE pc' = "failed" /\ UNCHANGED <<buf, todo, capacity, overrun>>
    BY <2>2, <1>5
  <2> QED
    BY <1>2, <2>1, <2>2 DEF WriteEntry, WriteEntryWith
<1> QED
  BY <1>1, <1>2, <1>6

-----------------------------------------------------------------------------
(* The frame holds what was written, and the limits of the buffer hold.    *)

ClientInv == Typed /\ Framed /\ OverrunOnlyByValue

LEMMA InitClient == Init => ClientInv
<1> SUFFICES ASSUME Init PROVE ClientInv
  OBVIOUS
<1>1. PICK in \in Inputs :
        /\ call = [service |-> in.service, method |-> in.method, metadata |-> in.metadata]
        /\ map = in.map
  BY DEF Init
<1>2. /\ in.service \in Seq(Byte) /\ in.method \in Seq(Byte) /\ in.metadata \in Seq(Byte)
      /\ DOMAIN map \subseteq Seq(Byte) /\ map \in [DOMAIN map -> Seq(Byte)]
      /\ InitialCapacity \in Nat
  BY <1>1, InputsAssumption DEF Byte
<1>3. todo = DOMAIN map /\ buf = <<>> /\ capacity = InitialCapacity /\ overrun = FALSE
      /\ pc = "write" /\ frame = {}
  BY DEF Init
<1>4. Typed
  <2>1. call \in [service : Seq(Byte), method : Seq(Byte), metadata : Seq(Byte)]
    BY <1>1, <1>2
  <2>2. buf \in Seq(Byte)
    BY <1>3
  <2> QED
    BY <2>1, <2>2, <1>2, <1>3 DEF Typed
<1> QED
  BY <1>3, <1>4 DEF ClientInv, Framed, OverrunOnlyByValue

(* The responder and the server leave what the client wrote alone.         *)
Serves == ServiceUnreadable \/ deserializeTracingMetadata \/ byteBufToMap \/ Extract

LEMMA ServerStep ==
  ASSUME Typed, Framed, Serves
  PROVE  /\ UNCHANGED <<call, map, todo, buf, capacity, overrun, frame>>
         /\ pc \in {"sent", "read"} /\ frame # {} /\ pc' \in {"read", "done", "failed"}
<1>1. CASE ServiceUnreadable
  BY <1>1 DEF ServiceUnreadable, client, Framed
<1>2. CASE deserializeTracingMetadata
  BY <1>2 DEF deserializeTracingMetadata, client, Framed
<1>3. CASE byteBufToMap
  BY <1>3 DEF byteBufToMap, client, Framed
<1>4. CASE Extract
  BY <1>4 DEF Extract, client, Framed
<1> QED
  BY <1>1, <1>2, <1>3, <1>4 DEF Serves

LEMMA NextSplit == Next <=> mapToByteBuf \/ RequireThrows \/ Encode \/ Serves
  BY DEF Next, Serves

LEMMA NextClient == ClientInv /\ [Next]_vars => ClientInv'
<1> SUFFICES ASSUME ClientInv, [Next]_vars PROVE ClientInv'
  OBVIOUS
<1> USE DEF ClientInv
<1>1. CASE mapToByteBuf
  <2>1. PICK key \in todo : /\ Accepted(key) /\ Accepted(map[key])
                            /\ Appends(key) \/ Overruns(key) \/ Throws
    BY <1>1, WriteStep
  <2>2. /\ buf' \in Seq(Byte) /\ capacity' \in Nat /\ overrun' \in BOOLEAN
        /\ pc = "write" /\ UNCHANGED <<call, map, frame, tracing, read, context>>
    BY <1>1, WriteStep
  <2>3. /\ todo' \subseteq todo /\ pc' \in {"write", "failed"}
        /\ overrun' => overrun \/ Len(map[key]) > Len(key)
    BY <2>1, <2>2 DEF Appends, Overruns, Throws
  <2>4. Typed'
    BY <2>2, <2>3 DEF Typed
  <2>5. Framed'
    BY <2>2, <2>3 DEF Framed
  <2>6. OverrunOnlyByValue'
    BY <2>2, <2>3 DEF OverrunOnlyByValue, Typed
  <2> QED
    BY <2>4, <2>5, <2>6
<1>2. CASE RequireThrows
  BY <1>2 DEF RequireThrows, client, Typed, Framed, OverrunOnlyByValue
<1>3. CASE Encode
  <2>1. UNCHANGED <<call, map, todo, buf, capacity, overrun>> /\ pc' \in {"failed", "sent"}
    BY <1>3 DEF Encode
  <2>2. Framed'
    BY <1>3 DEF Encode, Framed
  <2> QED
    BY <2>1, <2>2 DEF Typed, OverrunOnlyByValue
<1>4. CASE Serves
  <2>1. /\ UNCHANGED <<call, map, todo, buf, capacity, overrun, frame>>
        /\ frame # {} /\ pc' \in {"read", "done", "failed"}
    BY <1>4, ServerStep
  <2> QED
    BY <2>1 DEF Typed, Framed, OverrunOnlyByValue
<1>5. CASE UNCHANGED vars
  BY <1>5 DEF vars, client, server, Typed, Framed, OverrunOnlyByValue
<1> QED
  BY <1>1, <1>2, <1>3, <1>4, <1>5, NextSplit

LEMMA ClientInvariant == Spec => []ClientInv
<1>1. Init => ClientInv
  BY InitClient
<1>2. ClientInv /\ [Next]_vars => ClientInv'
  BY NextClient
<1> QED
  BY <1>1, <1>2, PTL DEF Spec

(* What the readers make of the frame of the call.                         *)
LEMMA FrameOfCall ==
  ASSUME ClientInv, NEW f \in frame
  PROVE  /\ getVersion(f) = {VERSION}
         /\ getService(f) \subseteq {call.service}
         /\ getService(f) # {} => Short(call.service)
         /\ Short(call.service) =>
              /\ getService(f) = {call.service}
              /\ getMethod(f) \subseteq {call.method}
              /\ getMethod(f) # {} => Short(call.method)
         /\ ShortRoute =>
              /\ getMethod(f) = {call.method}
              /\ \E j \in 0 .. Len(buf) : getTracing(f) = {SubSeq(buf, 1, j)}
         /\ ShortRoute /\ Short(buf) =>
              getTracing(f) = {buf} /\ getMetadata(f) = {call.metadata}
<1> DEFINE service == call.service
           method == call.method
           metadata == call.metadata
<1>1. /\ service \in Seq(Byte) /\ method \in Seq(Byte) /\ metadata \in Seq(Byte)
      /\ buf \in Seq(Byte) /\ f \in encode(service, method, buf, metadata)
  BY DEF ClientInv, Typed, Framed
<1>2. ShortRoute <=> Short(service) /\ Short(method)
  BY DEF ShortRoute
<1> HIDE DEF service, method, metadata
<1>3. /\ getVersion(f) = {VERSION}
      /\ getService(f) \subseteq {service}
      /\ getService(f) # {} => Short(service)
  BY <1>1, FrameRead
<1>4. Short(service) =>
        /\ getService(f) = {service}
        /\ getMethod(f) \subseteq {method}
        /\ getMethod(f) # {} => Short(method)
  BY <1>1, FrameRead
<1>5. Short(service) /\ Short(method) =>
        /\ getMethod(f) = {method}
        /\ \E j \in 0 .. Len(buf) : getTracing(f) = {SubSeq(buf, 1, j)}
  BY <1>1, FrameRead
<1>6. Short(service) /\ Short(method) /\ Short(buf) =>
        getTracing(f) = {buf} /\ getMetadata(f) = {metadata}
  BY <1>1, FrameRead
<1> QED
  BY <1>2, <1>3, <1>4, <1>5, <1>6 DEF service, method, metadata

(* The server's readers return what the client gave to encode, for names,  *)
(* tracing bytes and metadata of any content.                              *)
THEOREM FrameRoundTrip == Spec => []RoundTrip
<1>1. ClientInv => RoundTrip
  <2> SUFFICES ASSUME ClientInv, NEW f \in frame, ShortRoute, Short(buf)
               PROVE  /\ getVersion(f) = {VERSION}
                      /\ getService(f) = {call.service}
                      /\ getMethod(f) = {call.method}
                      /\ getTracing(f) = {buf}
                      /\ getMetadata(f) = {call.metadata}
    BY DEF RoundTrip
  <2>1. getVersion(f) = {VERSION} /\ getTracing(f) = {buf} /\ getMetadata(f) = {call.metadata}
    BY FrameOfCall
  <2>2. getService(f) = {call.service} /\ getMethod(f) = {call.method}
    BY FrameOfCall DEF ShortRoute
  <2> QED
    BY <2>1, <2>2
<1> QED
  BY <1>1, ClientInvariant, PTL

(* No call is routed to a service or a method that it does not name,       *)
(* whatever the lengths of its names.                                      *)
THEOREM RoutedRight == Spec => []NeverMisrouted
<1>1. ClientInv => NeverMisrouted
  BY FrameOfCall DEF NeverMisrouted
<1> QED
  BY <1>1, ClientInvariant, PTL

(* The client's buffer is overrun only by a value longer than its key.     *)
THEOREM OverrunNeedsLongValue == Spec => []OverrunOnlyByValue
<1>1. ClientInv => OverrunOnlyByValue
  BY DEF ClientInv
<1> QED
  BY <1>1, ClientInvariant, PTL

-----------------------------------------------------------------------------
(* The buffer stays a row of entries.                                      *)

LEMMA RowGrows ==
  ASSUME NEW g \in Seq(Byte), NEW W \in SUBSET Seq(Byte), NEW at \in [W -> 0 .. Len(g)],
         NEW m, NEW key \in Seq(Byte), key \notin W,
         m[key] \in Seq(Byte), \A l \in W : m[l] \in Seq(Byte),
         Accepted(key), Accepted(m[key]), Tiled(g, m, at)
  PROVE  LET g2  == g \o WriteShort(Len(key)) \o key \o WriteShort(Len(m[key])) \o m[key]
             at2 == [l \in W \union {key} |-> IF l = key THEN Len(g) ELSE at[l]]
         IN  at2 \in [W \union {key} -> 0 .. Len(g2)] /\ Tiled(g2, m, at2)
<1> DEFINE value == m[key]
           h == g \o WriteShort(Len(key)) \o key
           g2 == h \o WriteShort(Len(value)) \o value
           at2 == [l \in W \union {key} |-> IF l = key THEN Len(g) ELSE at[l]]
<1>1. Len(g) \in Nat /\ Len(key) \in Nat /\ value \in Seq(Byte) /\ Len(value) \in Nat
  OBVIOUS
<1>2. h \in Seq(Byte) /\ Len(h) = Len(g) + 2 + Len(key) /\ Encoded(h, Len(g), key)
  BY FieldWritten
<1>3. SUFFICES at2 \in [W \union {key} -> 0 .. Len(g2)] /\ Tiled(g2, m, at2)
  OBVIOUS
<1>4. DOMAIN at = W /\ \A l \in W : at[l] \in Nat /\ at[l] <= Len(g)
  BY <1>1
<1>5. /\ DOMAIN at2 = W \union {key} /\ at2[key] = Len(g)
      /\ \A l \in W : at2[l] = at[l]
  OBVIOUS
<1>6. \A l \in W : Len(l) \in Nat /\ Len(m[l]) \in Nat
  OBVIOUS
<1> HIDE DEF h, value, at2
<1>7. /\ g2 \in Seq(Byte) /\ Len(g2) = Len(h) + 2 + Len(value)
      /\ Encoded(g2, Len(h), value)
  BY <1>1, <1>2, FieldWritten
<1>8. Encoded(g2, Len(g), key)
  BY <1>1, <1>2, FieldKeptByField
<1> HIDE DEF g2
<1>9. Len(g2) = Len(g) + 4 + Len(key) + Len(value) /\ Len(h) = Value(key, Len(g))
  BY <1>1, <1>2, <1>7 DEF Value
<1>10. at2 \in [W \union {key} -> 0 .. Len(g2)]
  BY <1>1, <1>4, <1>9 DEF at2
<1>11. EntryAt(g2, m, key, at2[key]) /\ Boundary(g2, at2, End(m, key, at2[key]))
  <2>1. EntryAt(g2, m, key, Len(g))
    BY <1>7, <1>8, <1>9 DEF EntryAt, value
  <2>2. End(m, key, Len(g)) = Len(g2)
    BY <1>9 DEF End, value
  <2> QED
    BY <1>5, <2>1, <2>2 DEF Boundary
<1>12. ASSUME NEW o \in Int, Boundary(g, at, o)
       PROVE  Boundary(g2, at2, o)
  BY <1>4, <1>5, <1>12 DEF Boundary
<1>13. ASSUME NEW l \in W
       PROVE  EntryAt(g2, m, l, at2[l]) /\ Boundary(g2, at2, End(m, l, at2[l]))
  <2>1. EntryAt(g, m, l, at[l]) /\ Boundary(g, at, End(m, l, at[l]))
    BY <1>4 DEF Tiled
  <2>2. at[l] \in Nat /\ Value(l, at[l]) \in Nat /\ End(m, l, at[l]) \in Int
    BY <1>4, <1>6 DEF Value, End
  <2>3. l \in Seq(Byte) /\ m[l] \in Seq(Byte)
    OBVIOUS
  <2>4. Encoded(h, at[l], l) /\ Encoded(h, Value(l, at[l]), m[l])
    <3>1. Encoded(g, at[l], l) /\ Encoded(g, Value(l, at[l]), m[l])
      BY <2>1 DEF EntryAt
    <3> DEFINE o1 == at[l]
               o2 == Value(l, at[l])
               v == m[l]
    <3>2. o1 \in Nat /\ o2 \in Nat /\ v \in Seq(Byte) /\ Encoded(g, o1, l) /\ Encoded(g, o2, v)
      BY <2>2, <2>3, <3>1
    <3> HIDE DEF o1, o2, v
    <3>3. Encoded(h, o1, l) /\ Encoded(h, o2, v)
      BY <2>3, <3>2, FieldKeptByField DEF h
    <3> QED
      BY <3>3 DEF o1, o2, v
  <2>5. Encoded(g2, at[l], l) /\ Encoded(g2, Value(l, at[l]), m[l])
    <3> DEFINE o1 == at[l]
               o2 == Value(l, at[l])
               v == m[l]
    <3>2. o1 \in Nat /\ o2 \in Nat /\ v \in Seq(Byte) /\ Encoded(h, o1, l) /\ Encoded(h, o2, v)
      BY <2>2, <2>3, <2>4
    <3> HIDE DEF o1, o2, v
    <3>3. Encoded(g2, o1, l) /\ Encoded(g2, o2, v)
      BY <1>1, <1>2, <2>3, <3>2, FieldKeptByField DEF g2
    <3> QED
      BY <3>3 DEF o1, o2, v
  <2>6. EntryAt(g2, m, l, at[l])
    BY <2>1, <2>5 DEF EntryAt
  <2>7. Boundary(g2, at2, End(m, l, at[l]))
    BY <2>1, <2>2, <1>12
  <2> QED
    BY <2>6, <2>7, <1>5
<1>14. ASSUME NEW l \in W
       PROVE  End(m, l, at2[l]) <= at2[key]
  <2>1. Encoded(g, Value(l, at[l]), m[l])
    BY <1>4 DEF Tiled, EntryAt
  <2> QED
    BY <2>1, <1>4, <1>5, <1>6 DEF Encoded, End, Value
<1>15. ASSUME NEW k \in DOMAIN at2, NEW l \in DOMAIN at2, k # l
       PROVE  Apart(m, at2, k, l)
  <2>1. CASE k = key \/ l = key
    BY <2>1, <1>5, <1>14, <1>15 DEF Apart
  <2>2. CASE k \in W /\ l \in W
    <3>1. Apart(m, at, k, l)
      BY <2>2, <1>4, <1>15 DEF Tiled
    <3> QED
      BY <3>1, <2>2, <1>5 DEF Apart
  <2> QED
    BY <2>1, <2>2, <1>5
<1>16. Boundary(g2, at2, 0)
  BY <1>12 DEF Tiled
<1>17. \A k \in DOMAIN at2 : EntryAt(g2, m, k, at2[k]) /\ Boundary(g2, at2, End(m, k, at2[k]))
  BY <1>5, <1>11, <1>13
<1>18. Tiled(g2, m, at2)
  BY <1>15, <1>16, <1>17 DEF Tiled
<1> QED
  BY <1>10, <1>18

-----------------------------------------------------------------------------
(* Reading an entry from what the server was given of the buffer.          *)

LEMMA Cut ==
  ASSUME NEW g \in Seq(Byte), NEW q \in 0 .. Len(g), NEW p \in 0 .. q, NEW d \in Nat,
         NEW s \in Seq(Byte), Encoded(g, p + d, s)
  PROVE  /\ SubSeq(g, p + 1, q) \in Seq(Byte) /\ Len(SubSeq(g, p + 1, q)) = q - p
         /\ Begins(SubSeq(g, p + 1, q), d, s)
<1> DEFINE t == SubSeq(g, p + 1, q)
<1>1. Len(g) \in Nat /\ Len(s) \in Nat /\ p \in Nat /\ q \in Nat /\ p <= q /\ q <= Len(g)
  OBVIOUS
<1>2. t \in Seq(Byte) /\ Len(t) = q - p /\ \A i \in 1 .. (q - p) : t[i] = g[p + i]
  BY <1>1
<1> HIDE DEF t
<1>3. d + 1 <= Len(t) => t[d + 1] = WriteShort(Len(s))[1]
  <2>1. d + 1 <= Len(t) => t[d + 1] = g[p + (d + 1)] /\ p + (d + 1) = p + d + 1 /\ p + d + 1 <= Len(g)
    BY <1>1, <1>2
  <2> QED
    BY <2>1 DEF Encoded, Begins
<1>4. d + 2 <= Len(t) => t[d + 2] = WriteShort(Len(s))[2]
  <2>1. d + 2 <= Len(t) => t[d + 2] = g[p + (d + 2)] /\ p + (d + 2) = p + d + 2 /\ p + d + 2 <= Len(g)
    BY <1>1, <1>2
  <2> QED
    BY <2>1 DEF Encoded, Begins
<1>5. ASSUME NEW i \in 1 .. Len(s), d + 2 + i <= Len(t)
      PROVE  t[d + 2 + i] = s[i]
  <2>1. t[d + 2 + i] = g[p + (d + 2 + i)] /\ p + (d + 2 + i) = p + d + 2 + i /\ p + d + 2 + i <= Len(g)
    BY <1>1, <1>2, <1>5
  <2> QED
    BY <2>1 DEF Encoded, Begins
<1> QED
  BY <1>2, <1>3, <1>4, <1>5 DEF Begins, t

LEMMA StringRead ==
  ASSUME NEW t \in Seq(Byte), NEW o \in Nat, NEW s \in Seq(Byte), Begins(t, o, s), Accepted(s)
  PROVE  \/ ReadString(t, o) = {} /\ ~(Short(s) /\ o + 2 + Len(s) <= Len(t))
         \/ /\ ReadString(t, o) = {[string |-> s, end |-> o + 2 + Len(s)]}
            /\ o + 2 + Len(s) <= Len(t)
<1>1. Len(s) <= UNSIGNED_SHORT_MAX_VALUE
  BY DEF Accepted, requireUnsignedShort
<1>2. /\ Field(t, o) \subseteq {s}
      /\ Field(t, o) # {} => o + 2 + Len(s) <= Len(t)
      /\ Short(s) /\ o + 2 + Len(s) <= Len(t) => Field(t, o) = {s}
  BY <1>1, FieldRead
<1>3. CASE Field(t, o) = {}
  BY <1>2, <1>3 DEF ReadString
<1>4. CASE Field(t, o) = {s}
  BY <1>2, <1>4 DEF ReadString, SHORT_BYTES
<1> QED
  BY <1>2, <1>3, <1>4

LEMMA EntryRead ==
  ASSUME NEW t \in Seq(Byte), NEW k \in Seq(Byte), NEW v \in Seq(Byte),
         Begins(t, 0, k), Begins(t, 2 + Len(k), v), Accepted(k), Accepted(v)
  PROVE  \/ Entry(t) = {} /\ ~(Short(k) /\ Short(v) /\ 4 + Len(k) + Len(v) <= Len(t))
         \/ /\ Entry(t) = {[key |-> k, value |-> v, end |-> 4 + Len(k) + Len(v)]}
            /\ 4 + Len(k) + Len(v) <= Len(t)
<1> DEFINE z == 0
           o == 2 + Len(k)
<1>1. z \in Nat /\ o \in Nat /\ Len(k) \in Nat /\ Len(v) \in Nat /\ Len(t) \in Nat
  OBVIOUS
<1>2. z + 2 + Len(k) = o /\ o + 2 + Len(v) = 4 + Len(k) + Len(v)
  BY <1>1
<1>3. Begins(t, z, k) /\ Begins(t, o, v) /\ Entry(t) =
        UNION {{[key |-> a.string, value |-> b.string, end |-> b.end] :
                  b \in ReadString(t, a.end)} : a \in ReadString(t, z)}
  BY DEF Entry
<1> HIDE DEF z, o
<1>4. \/ ReadString(t, z) = {} /\ ~(Short(k) /\ o <= Len(t))
      \/ ReadString(t, z) = {[string |-> k, end |-> o]}
  BY <1>1, <1>2, <1>3, StringRead
<1>5. \/ ReadString(t, o) = {} /\ ~(Short(v) /\ o + 2 + Len(v) <= Len(t))
      \/ /\ ReadString(t, o) = {[string |-> v, end |-> o + 2 + Len(v)]}
         /\ o + 2 + Len(v) <= Len(t)
  BY <1>1, <1>3, StringRead
<1>6. CASE ReadString(t, z) = {} /\ ~(Short(k) /\ o <= Len(t))
  <2>1. Entry(t) = {}
    BY <1>3, <1>6
  <2>2. 4 + Len(k) + Len(v) <= Len(t) => o <= Len(t)
    BY <1>1, <1>2
  <2> QED
    BY <1>6, <2>1, <2>2
<1>7. CASE ReadString(t, z) = {[string |-> k, end |-> o]}
  <2>1. Entry(t) = {[key |-> k, value |-> b.string, end |-> b.end] : b \in ReadString(t, o)}
    BY <1>3, <1>7
  <2>2. CASE ReadString(t, o) = {}
    BY <2>1, <2>2, <1>2, <1>5
  <2>3. CASE /\ ReadString(t, o) = {[string |-> v, end |-> o + 2 + Len(v)]}
             /\ o + 2 + Len(v) <= Len(t)
    <3> DEFINE e == o + 2 + Len(v)
    <3>1. e = 4 + Len(k) + Len(v) /\ e <= Len(t)
      BY <1>2, <2>3
    <3> HIDE DEF e
    <3>2. ReadString(t, o) = {[string |-> v, end |-> e]}
      BY <2>3 DEF e
    <3>3. Entry(t) = {[key |-> k, value |-> v, end |-> e]}
      BY <2>1, <3>2
    <3> QED
      BY <3>1, <3>3
  <2> QED
    BY <1>5, <2>2, <2>3
<1> QED
  BY <1>4, <1>6, <1>7

(* Before anything is read.                                                *)
LEMMA Unread ==
  ASSUME NEW g \in Seq(Byte), NEW W, NEW at \in [W -> 0 .. Len(g)], NEW m, Tiled(g, m, at),
         NEW q \in 0 .. Len(g), NEW t, t = SubSeq(g, 1, q)
  PROVE  0 \in 0 .. q /\ Parsed(g, m, at, t, Empty, 0, q)
<1>1. Len(g) \in Nat /\ q \in Nat /\ DOMAIN at = W
  OBVIOUS
<1>2. \A l \in W : at[l] \in Nat
  BY <1>1
<1>3. {l \in DOMAIN at : at[l] < 0} = {}
  BY <1>1, <1>2
<1>4. Before(m, at, 0) = Empty
  <2> DEFINE D == {l \in DOMAIN at : at[l] < 0}
  <2>1. D = {} /\ Before(m, at, 0) = [k \in D |-> m[k]]
    BY <1>3 DEF Before
  <2> HIDE DEF D
  <2> QED
    BY <2>1 DEF Empty
<1>5. Boundary(g, at, 0)
  BY DEF Tiled
<1> QED
  BY <1>1, <1>4, <1>5 DEF Parsed

(* The entry that is next can only be read as it was written, and can be   *)
(* read if the rest of the row is there.                                   *)
LEMMA EntryParsed ==
  ASSUME NEW g \in Seq(Byte), NEW W \in SUBSET Seq(Byte), NEW at \in [W -> 0 .. Len(g)],
         NEW m, \A l \in W : m[l] \in Seq(Byte), Tiled(g, m, at),
         NEW t, NEW r, NEW q \in 0 .. Len(g), NEW p \in 0 .. q,
         Parsed(g, m, at, t, r, p, q), t # <<>>
  PROVE  /\ Short(g) /\ q = Len(g) => Entry(t) # {}
         /\ \A e \in Entry(t) :
              /\ p + e.end \in 0 .. q
              /\ Parsed(g, m, at, SubSeq(t, e.end + 1, Len(t)), Put(r, e.key, e.value), p + e.end, q)
<1>1. /\ Len(g) \in Nat /\ p \in Nat /\ q \in Nat /\ p <= q /\ q <= Len(g)
      /\ DOMAIN at = W /\ \A l \in W : at[l] \in Nat /\ Len(l) \in Nat /\ Len(m[l]) \in Nat
  OBVIOUS
<1>2. t = SubSeq(g, p + 1, q) /\ r = Before(m, at, p)
  BY DEF Parsed
<1>3. p < q
  <2>1. p = q => t = <<>>
    BY <1>1, <1>2
  <2> QED
    BY <1>1, <2>1
<1>4. PICK k \in W : at[k] = p
  BY <1>1, <1>3 DEF Parsed, Boundary
<1> DEFINE v == m[k]
           end == 4 + Len(k) + Len(v)
<1>5. k \in Seq(Byte) /\ v \in Seq(Byte) /\ Len(k) \in Nat /\ Len(v) \in Nat
  BY <1>1
<1>6. /\ Accepted(k) /\ Encoded(g, p, k) /\ Accepted(v) /\ Encoded(g, p + 2 + Len(k), v)
      /\ Boundary(g, at, End(m, k, p))
  BY <1>1, <1>4 DEF Tiled, EntryAt, Value
<1>7. /\ t \in Seq(Byte) /\ Len(t) = q - p
      /\ Begins(t, 0, k) /\ Begins(t, 2 + Len(k), v)
  <2> DEFINE z == 0
             d == 2 + Len(k)
  <2>1. z \in Nat /\ d \in Nat /\ p + z = p /\ p + d = p + 2 + Len(k)
    BY <1>1, <1>5
  <2> HIDE DEF z, d, v
  <2>2. Encoded(g, p + z, k) /\ Encoded(g, p + d, v)
    BY <1>6, <2>1
  <2>3. t \in Seq(Byte) /\ Len(t) = q - p /\ Begins(t, z, k)
    BY <1>2, <1>5, <2>1, <2>2, Cut
  <2>4. Begins(t, d, v)
    BY <1>2, <1>5, <2>1, <2>2, Cut
  <2> QED
    BY <2>3, <2>4 DEF z, d
<1> HIDE DEF v
<1>8. \/ Entry(t) = {} /\ ~(Short(k) /\ Short(v) /\ end <= Len(t))
      \/ Entry(t) = {[key |-> k, value |-> v, end |-> end]} /\ end <= Len(t)
  BY <1>5, <1>6, <1>7, EntryRead
<1>9. Short(g) /\ q = Len(g) => Short(k) /\ Short(v) /\ end <= Len(t)
  <2>1. p + 2 + Len(k) + 2 + Len(v) <= Len(g)
    BY <1>6 DEF Encoded
  <2> QED
    BY <2>1, <1>1, <1>5, <1>7, SignedRange DEF Short
<1>10. end \in Nat /\ End(m, k, p) = p + end
  <2>1. End(m, k, p) = p + 4 + Len(k) + Len(v)
    BY DEF End, v
  <2> QED
    BY <2>1, <1>1, <1>5
<1> HIDE DEF end
<1>11. ASSUME end <= Len(t)
       PROVE  /\ p + end \in 0 .. q
              /\ Parsed(g, m, at, SubSeq(t, end + 1, Len(t)), Put(r, k, v), p + end, q)
  <2>1. p + end \in Nat /\ p + end <= q
    BY <1>1, <1>7, <1>10, <1>11
  <2>2. SubSeq(t, end + 1, Len(t)) = SubSeq(g, p + end + 1, q)
    <3> DEFINE x == SubSeq(t, end + 1, Len(t))
               y == SubSeq(g, p + end + 1, q)
    <3>1. /\ x \in Seq(Byte) /\ Len(x) = Len(t) - end
          /\ \A i \in 1 .. (Len(t) - end) : x[i] = t[end + i]
      BY <1>7, <1>10, <1>11
    <3>2. /\ y \in Seq(Byte) /\ Len(y) = q - (p + end)
          /\ \A i \in 1 .. (q - (p + end)) : y[i] = g[p + end + i]
      BY <1>1, <1>10, <2>1
    <3>3. \A i \in 1 .. (q - p) : t[i] = g[p + i]
      BY <1>1, <1>2
    <3> HIDE DEF x, y
    <3>4. Len(x) = Len(y) /\ Len(t) - end = q - (p + end)
      BY <1>1, <1>7, <1>10, <3>1, <3>2
    <3>5. ASSUME NEW i \in 1 .. Len(x) PROVE x[i] = y[i]
      <4>1. i \in 1 .. (Len(t) - end) /\ i \in 1 .. (q - (p + end)) /\ end + i \in 1 .. (q - p)
            /\ p + (end + i) = p + end + i
        BY <1>1, <1>7, <1>10, <1>11, <3>1, <3>4
      <4> QED
        BY <4>1, <3>1, <3>2, <3>3
    <3>6. x = y
      BY <3>1, <3>2, <3>4, <3>5, SeqEqual
    <3> QED
      BY <3>6 DEF x, y
  <2>3. Put(r, k, v) = Before(m, at, p + end)
    <3> DEFINE D == {l \in W : at[l] < p}
               E == {l \in W : at[l] < p + end}
    <3>1. E = D \union {k}
      <4>1. ASSUME NEW l \in W, l # k
            PROVE  at[l] < p + end <=> at[l] < p
        <5>1. End(m, k, at[k]) <= at[l] \/ End(m, l, at[l]) <= at[k]
          BY <4>1, <1>1 DEF Tiled, Apart
        <5>2. End(m, l, at[l]) \in Int /\ End(m, l, at[l]) > at[l] /\ at[l] \in Nat
          BY <1>1 DEF End
        <5>3. p + end <= at[l] \/ at[l] < p
          BY <5>1, <5>2, <1>1, <1>4, <1>10
        <5> QED
          BY <5>2, <5>3, <1>1, <1>10
      <4>2. at[k] < p + end
        BY <1>1, <1>4, <1>5, <1>10 DEF end
      <4> QED
        BY <4>1, <4>2
    <3>2. r = [l \in D |-> m[l]] /\ Before(m, at, p + end) = [l \in E |-> m[l]]
      BY <1>1, <1>2 DEF Before
    <3> HIDE DEF D, E
    <3>3. Put(r, k, v) = [l \in D \union {k} |-> IF l = k THEN v ELSE r[l]]
      BY <3>2 DEF Put
    <3>4. \A l \in D \union {k} : (IF l = k THEN v ELSE r[l]) = m[l]
      BY <3>2 DEF v
    <3> QED
      BY <3>1, <3>2, <3>3, <3>4
  <2>4. Boundary(g, at, p + end)
    BY <1>6, <1>10
  <2> QED
    <3>1. p + end \in 0 .. q
      BY <2>1, <1>1
    <3>2. Parsed(g, m, at, SubSeq(t, end + 1, Len(t)), Put(r, k, v), p + end, q)
      BY <2>2, <2>3, <2>4, Zenon DEF Parsed
    <3> QED
      BY <3>1, <3>2
<1>12. \A e \in Entry(t) : e.key = k /\ e.value = v /\ e.end = end /\ end <= Len(t)
  BY <1>8
<1> QED
  BY <1>8, <1>9, <1>11, <1>12

(* When all of it is read.                                                 *)
LEMMA AllParsed ==
  ASSUME NEW g \in Seq(Byte), NEW W \in SUBSET Seq(Byte), NEW at \in [W -> 0 .. Len(g)],
         NEW m \in [W -> Seq(Byte)], Tiled(g, m, at),
         NEW r, NEW p \in 0 .. Len(g), Parsed(g, m, at, <<>>, r, p, Len(g))
  PROVE  r = m
<1>1. /\ Len(g) \in Nat /\ p \in Nat /\ p <= Len(g) /\ DOMAIN at = W
      /\ \A l \in W : at[l] \in Nat /\ Len(l) \in Nat /\ Len(m[l]) \in Nat
  OBVIOUS
<1>2. p = Len(g)
  <2> DEFINE x == SubSeq(g, p + 1, Len(g))
  <2>1. x = <<>> /\ Len(x) = Len(g) - p
    BY <1>1 DEF Parsed
  <2> HIDE DEF x
  <2> QED
    BY <1>1, <2>1
<1>3. ASSUME NEW l \in W PROVE at[l] < p
  <2>1. Encoded(g, at[l], l)
    BY <1>1 DEF Tiled, EntryAt
  <2> QED
    BY <2>1, <1>1, <1>2 DEF Encoded
<1>4. {l \in DOMAIN at : at[l] < p} = W
  BY <1>1, <1>3
<1>5. r = [k \in W |-> m[k]]
  BY <1>4 DEF Parsed, Before
<1> QED
  BY <1>5

-----------------------------------------------------------------------------
(* What the server reads is what the client wrote.                         *)

IInv == ClientInv /\ ServerInv /\ Arranged /\ ArrivesWhole

(* Most steps leave the buffer and what is read of it alone.               *)
LEMMA ArrangedKept ==
  ASSUME Arranged, UNCHANGED <<call, map, todo, buf, overrun, tracing, read>>,
         pc' # "read" \/ pc' = pc
  PROVE  Arranged'
<1> SUFFICES ASSUME ~overrun'
             PROVE  \E at \in [DOMAIN map \ todo -> 0 .. Len(buf)] :
                      Tiled(buf, map, at) /\ (ShortRoute' => Served(at)')
  BY DEF Arranged
<1>1. PICK at \in [DOMAIN map \ todo -> 0 .. Len(buf)] :
        Tiled(buf, map, at) /\ (ShortRoute => Served(at))
  BY DEF Arranged
<1>2. ShortRoute' <=> ShortRoute
  BY DEF ShortRoute
<1>3. Served(at) => Served(at)'
  BY DEF Served
<1> QED
  BY <1>1, <1>2, <1>3

LEMMA InitIInv == Init => IInv
<1> SUFFICES ASSUME Init PROVE IInv
  OBVIOUS
<1>1. ClientInv
  BY InitClient
<1>2. /\ todo = DOMAIN map /\ frame = {} /\ buf = <<>> /\ pc = "write"
      /\ tracing = <<>> /\ read = Empty /\ context = {}
  BY DEF Init, Empty
<1>3. ServerInv
  BY <1>2 DEF ServerInv
<1>4. ArrivesWhole
  BY <1>2 DEF ArrivesWhole
<1>5. Arranged
  <2> DEFINE at == [k \in {} |-> 0]
  <2>1. buf \in Seq(Byte) /\ Len(buf) = 0 /\ DOMAIN map \ todo = {}
    BY <1>1, <1>2 DEF ClientInv, Typed
  <2>2. at \in [{} -> 0 .. Len(buf)] /\ DOMAIN at = {}
    OBVIOUS
  <2> HIDE DEF at
  <2>3. Tiled(buf, map, at)
    BY <2>1, <2>2 DEF Tiled, Boundary
  <2>4. 0 \in 0 .. Len(buf) /\ tracing = SubSeq(buf, 1, 0) /\ buf \in Seq(Byte)
    BY <1>2, <2>1
  <2>5. Parsed(buf, map, at, tracing, read, 0, 0) /\ 0 \in 0 .. 0
    <3>1. Parsed(buf, map, at, tracing, Empty, 0, 0) /\ 0 \in 0 .. 0
      BY <2>2, <2>3, <2>4, Unread
    <3> QED
      BY <1>2, <3>1
  <2>6. Served(at)
    BY <1>2, <2>4, <2>5 DEF Served
  <2> QED
    BY <2>1, <2>2, <2>3, <2>6 DEF Arranged
<1> QED
  BY <1>1, <1>3, <1>4, <1>5 DEF IInv

LEMMA WriteIInv ==
  ASSUME IInv, mapToByteBuf
  PROVE  ServerInv' /\ Arranged' /\ ArrivesWhole'
<1> USE DEF IInv, ClientInv
<1>1. PICK key \in todo : /\ Accepted(key) /\ Accepted(map[key])
                          /\ Appends(key) \/ Overruns(key) \/ Throws
  BY WriteStep
<1>2. /\ buf' \in Seq(Byte)
      /\ pc = "write" /\ UNCHANGED <<call, map, frame, tracing, read, context>>
  BY WriteStep
<1>3. pc' \in {"write", "failed"}
  BY <1>1, <1>2 DEF Appends, Overruns, Throws
<1>4. frame = {} /\ read = Empty /\ tracing = <<>> /\ context = {}
  BY <1>2 DEF Framed, ServerInv
<1>5. ServerInv' /\ ArrivesWhole'
  BY <1>2, <1>3, <1>4 DEF ServerInv, ArrivesWhole
<1>6. CASE Overruns(key)
  BY <1>5, <1>6 DEF Overruns, Arranged
<1>7. CASE Throws
  <2>1. Arranged'
    BY <1>2, <1>7, ArrangedKept DEF Throws
  <2> QED
    BY <1>5, <2>1
<1>8. CASE Appends(key)
  <2> SUFFICES ASSUME ~overrun' PROVE Arranged'
    BY <1>5 DEF Arranged
  <2> DEFINE W == DOMAIN map \ todo
             g2 == buf \o WriteShort(Len(key)) \o key \o WriteShort(Len(map[key])) \o map[key]
  <2>1. PICK at \in [W -> 0 .. Len(buf)] : Tiled(buf, map, at)
    BY <1>8 DEF Arranged, Appends
  <2>2. /\ buf \in Seq(Byte) /\ W \in SUBSET Seq(Byte) /\ key \in Seq(Byte) /\ key \notin W
        /\ map[key] \in Seq(Byte) /\ \A l \in W : map[l] \in Seq(Byte)
    BY DEF Typed
  <2>3. DOMAIN map' \ todo' = W \union {key} /\ buf' = g2
    BY <1>2, <1>8 DEF Appends, Typed
  <2> HIDE DEF W
  <2>4. PICK at2 \in [W \union {key} -> 0 .. Len(g2)] : Tiled(g2, map, at2)
    BY <1>1, <2>1, <2>2, RowGrows
  <2> HIDE DEF g2
  <2>5. Tiled(buf', map', at2) /\ at2 \in [DOMAIN map' \ todo' -> 0 .. Len(buf')]
    BY <1>2, <2>3, <2>4
  <2>6. 0 \in 0 .. Len(g2) /\ tracing' = SubSeq(g2, 1, 0) /\ read' = Empty /\ g2 \in Seq(Byte)
    BY <1>2, <1>4, <2>3
  <2>7. Parsed(g2, map, at2, tracing', Empty, 0, 0) /\ 0 \in 0 .. 0
    BY <2>4, <2>6, Unread
  <2>8. Served(at2)'
    <3>1. Parsed(buf', map', at2, tracing', read', 0, 0)
      BY <1>2, <2>3, <2>6, <2>7
    <3> QED
      BY <1>3, <2>3, <2>6, <2>7, <3>1 DEF Served
  <2> QED
    BY <2>5, <2>8 DEF Arranged
<1> QED
  BY <1>1, <1>5, <1>6, <1>7, <1>8

LEMMA SendIInv ==
  ASSUME IInv, RequireThrows \/ Encode
  PROVE  ServerInv' /\ Arranged' /\ ArrivesWhole'
<1> USE DEF IInv, ClientInv
<1>1. /\ pc = "write" /\ pc' \in {"sent", "failed"} /\ (frame' # {} => pc' = "sent")
      /\ UNCHANGED <<call, map, todo, buf, overrun, tracing, read, context>>
  BY DEF RequireThrows, Encode, client, server, Framed
<1>2. read = Empty /\ tracing = <<>> /\ context = {}
  BY <1>1 DEF Framed, ServerInv
<1>3. Arranged'
  BY <1>1, ArrangedKept
<1> QED
  BY <1>1, <1>2, <1>3 DEF ServerInv, ArrivesWhole

LEMMA RouteIInv ==
  ASSUME IInv, ServiceUnreadable \/ deserializeTracingMetadata
  PROVE  ServerInv' /\ Arranged' /\ ArrivesWhole'
<1> USE DEF IInv, ClientInv
<1>1. /\ UNCHANGED <<call, map, todo, buf, overrun, frame, read, context>>
      /\ pc = "sent" /\ frame # {} /\ pc' \in {"read", "done", "failed"}
  BY DEF ServiceUnreadable, deserializeTracingMetadata, client, server, Framed
<1>2. read = Empty /\ tracing = <<>> /\ context = {}
  BY <1>1 DEF ServerInv
<1>3. PICK f \in frame :
        \/ getService(f) = {} /\ pc' = "failed" /\ UNCHANGED tracing
        \/ /\ getService(f) # {}
           /\ \/ pc' = "done" /\ UNCHANGED tracing
              \/ pc' = "read" /\ tracing' \in getTracing(f)
              \/ getTracing(f) = {} /\ pc' = "failed" /\ UNCHANGED tracing
  BY <1>1 DEF ServiceUnreadable, deserializeTracingMetadata, server
<1>4. /\ getService(f) # {} => Short(call.service)
      /\ ShortRoute => /\ getService(f) # {}
                       /\ \E j \in 0 .. Len(buf) : getTracing(f) = {SubSeq(buf, 1, j)}
      /\ ShortRoute /\ Short(buf) => getTracing(f) = {buf}
  <2>1. getService(f) # {} => Short(call.service)
    BY FrameOfCall
  <2>2. ShortRoute => getService(f) # {}
    BY FrameOfCall DEF ShortRoute
  <2>3. ShortRoute => \E j \in 0 .. Len(buf) : getTracing(f) = {SubSeq(buf, 1, j)}
    BY FrameOfCall
  <2>4. ShortRoute /\ Short(buf) => getTracing(f) = {buf}
    BY FrameOfCall
  <2> QED
    BY <2>1, <2>2, <2>3, <2>4
<1>5. tracing' = <<>> \/ pc' = "read"
  BY <1>2, <1>3
<1>6. ServerInv'
  BY <1>1, <1>2, <1>3, <1>4 DEF ServerInv
<1>7. ArrivesWhole'
  <2>1. ShortRoute => pc' # "failed"
    BY <1>3, <1>4
  <2> QED
    BY <1>1, <1>2, <2>1 DEF ArrivesWhole, ShortRoute
<1>8. CASE UNCHANGED tracing /\ pc' # "read"
  BY <1>1, <1>6, <1>7, <1>8, ArrangedKept
<1>9. CASE pc' = "read" /\ tracing' \in getTracing(f)
  <2> SUFFICES ASSUME ~overrun' PROVE Arranged'
    BY <1>6, <1>7 DEF Arranged
  <2>1. PICK at \in [DOMAIN map \ todo -> 0 .. Len(buf)] : Tiled(buf, map, at)
    BY <1>1 DEF Arranged
  <2>2. buf \in Seq(Byte) /\ Len(buf) \in 0 .. Len(buf) /\ SubSeq(buf, 1, Len(buf)) = buf
    BY DEF Typed
  <2>3. ASSUME ShortRoute
        PROVE  Served(at)'
    <3>1. PICK q \in 0 .. Len(buf) : tracing' = SubSeq(buf, 1, q) /\ (Short(buf) => q = Len(buf))
      BY <1>4, <1>9, <2>2, <2>3
    <3>2. Parsed(buf, map, at, tracing', Empty, 0, q) /\ 0 \in 0 .. q
      BY <2>1, <2>2, <3>1, Unread
    <3> QED
      BY <1>1, <1>2, <3>1, <3>2 DEF Served
  <2> QED
    BY <1>1, <2>1, <2>3 DEF Arranged, ShortRoute
<1> QED
  BY <1>3, <1>8, <1>9

LEMMA ReadIInv ==
  ASSUME IInv, byteBufToMap
  PROVE  ServerInv' /\ Arranged' /\ ArrivesWhole'
<1> USE DEF IInv, ClientInv
<1>1. /\ UNCHANGED <<call, map, todo, buf, overrun, frame, context>>
      /\ pc = "read" /\ frame # {} /\ tracing # <<>>
  BY DEF byteBufToMap, client, Framed
<1>2. CASE \E e \in Entry(tracing) :
             /\ read' = Put(read, e.key, e.value)
             /\ tracing' = SubSeq(tracing, e.end + 1, Len(tracing))
             /\ UNCHANGED pc
  <2>1. ServerInv' /\ ArrivesWhole'
    BY <1>1, <1>2 DEF ServerInv, ArrivesWhole, ShortRoute
  <2> SUFFICES ASSUME ~overrun' PROVE Arranged'
    BY <2>1 DEF Arranged
  <2>2. PICK e \in Entry(tracing) :
          /\ read' = Put(read, e.key, e.value)
          /\ tracing' = SubSeq(tracing, e.end + 1, Len(tracing))
          /\ UNCHANGED pc
    BY <1>2
  <2> DEFINE W == DOMAIN map \ todo
  <2>3. PICK at \in [W -> 0 .. Len(buf)] : Tiled(buf, map, at) /\ (ShortRoute => Served(at))
    BY <1>1 DEF Arranged
  <2>4. buf \in Seq(Byte) /\ W \in SUBSET Seq(Byte) /\ \A l \in W : map[l] \in Seq(Byte)
    BY DEF Typed
  <2>5. ASSUME ShortRoute PROVE Served(at)'
    <3>0. PICK q \in 0 .. Len(buf) : \E p \in 0 .. q :
            /\ Parsed(buf, map, at, tracing, read, p, q)
            /\ Short(buf) => q = Len(buf)
      BY <1>1, <2>3, <2>5 DEF Served
    <3>1. PICK p \in 0 .. q :
            /\ Parsed(buf, map, at, tracing, read, p, q)
            /\ Short(buf) => q = Len(buf)
      BY <3>0
    <3> HIDE DEF W
    <3>2. /\ p + e.end \in 0 .. q
          /\ Parsed(buf, map, at, tracing', read', p + e.end, q)
      BY <1>1, <2>2, <2>3, <2>4, <3>1, EntryParsed
    <3> QED
      BY <1>1, <3>1, <3>2 DEF Served
  <2> QED
    BY <1>1, <2>3, <2>5 DEF Arranged, ShortRoute
<1>3. CASE Entry(tracing) = {} /\ pc' = "failed" /\ UNCHANGED <<read, tracing>>
  <2>1. Arranged'
    BY <1>1, <1>3, ArrangedKept
  <2>2. ServerInv'
    BY <1>1, <1>3 DEF ServerInv
  <2>3. ASSUME ~overrun, ShortRoute, Short(buf) PROVE FALSE
    <3> DEFINE W == DOMAIN map \ todo
    <3>1. PICK at \in [W -> 0 .. Len(buf)] : Tiled(buf, map, at) /\ Served(at)
      BY <2>3 DEF Arranged
    <3>2. buf \in Seq(Byte) /\ W \in SUBSET Seq(Byte) /\ \A l \in W : map[l] \in Seq(Byte)
      BY DEF Typed
    <3>3. PICK p \in 0 .. Len(buf) : Parsed(buf, map, at, tracing, read, p, Len(buf))
      BY <1>1, <2>3, <3>1 DEF Served
    <3> DEFINE q == Len(buf)
    <3>4. q \in 0 .. Len(buf) /\ p \in 0 .. q /\ Parsed(buf, map, at, tracing, read, p, q)
      BY <3>2, <3>3
    <3> HIDE DEF W, q
    <3>5. Entry(tracing) # {}
      <4>1. Short(buf) /\ q = Len(buf) => Entry(tracing) # {}
        BY <1>1, <3>1, <3>2, <3>4, EntryParsed
      <4> QED
        BY <2>3, <4>1 DEF q
    <3> QED
      BY <1>3, <3>5
  <2>4. ArrivesWhole'
    BY <1>1, <1>3, <2>3 DEF ArrivesWhole, ShortRoute
  <2> QED
    BY <2>1, <2>2, <2>4
<1> QED
  BY <1>2, <1>3 DEF byteBufToMap

LEMMA ExtractIInv ==
  ASSUME IInv, Extract
  PROVE  ServerInv' /\ Arranged' /\ ArrivesWhole'
<1> USE DEF IInv, ClientInv
<1>1. /\ UNCHANGED <<call, map, todo, buf, overrun, frame, tracing, read>>
      /\ pc = "read" /\ frame # {} /\ tracing = <<>> /\ pc' \in {"done", "failed"}
  BY DEF Extract, client, Framed
<1>2. Arranged'
  BY <1>1, ArrangedKept
<1>3. ServerInv'
  BY <1>1 DEF ServerInv
<1>4. ASSUME ~overrun, ShortRoute, Short(buf) PROVE read = map
  <2> DEFINE W == DOMAIN map \ todo
  <2>1. PICK at \in [W -> 0 .. Len(buf)] : Tiled(buf, map, at) /\ Served(at)
    BY <1>4 DEF Arranged
  <2>2. buf \in Seq(Byte) /\ W \in SUBSET Seq(Byte) /\ map \in [W -> Seq(Byte)]
    BY <1>1 DEF Typed, Framed
  <2>3. PICK p \in 0 .. Len(buf) : Parsed(buf, map, at, tracing, read, p, Len(buf))
    BY <1>1, <1>4, <2>1 DEF Served
  <2> HIDE DEF W
  <2> QED
    BY <1>1, <2>1, <2>2, <2>3, AllParsed
<1>5. (\A m \in context' : m = read \/ m \in context) /\ (pc' = "failed" => DOMAIN read # {})
  BY DEF Extract
<1>6. DOMAIN read # {} => read # [k \in {} |-> <<>>]
  OBVIOUS
<1>7. ArrivesWhole'
  BY <1>1, <1>4, <1>5, <1>6 DEF ArrivesWhole, ShortRoute
<1> QED
  BY <1>2, <1>3, <1>7

LEMMA NextIInv == IInv /\ [Next]_vars => IInv'
<1> SUFFICES ASSUME IInv, [Next]_vars PROVE IInv'
  OBVIOUS
<1>1. ClientInv'
  BY NextClient DEF IInv
<1>2. ServerInv' /\ Arranged' /\ ArrivesWhole'
  <2>1. CASE mapToByteBuf
    BY <2>1, WriteIInv
  <2>2. CASE RequireThrows \/ Encode
    BY <2>2, SendIInv
  <2>3. CASE ServiceUnreadable \/ deserializeTracingMetadata
    BY <2>3, RouteIInv
  <2>4. CASE byteBufToMap
    BY <2>4, ReadIInv
  <2>5. CASE Extract
    BY <2>5, ExtractIInv
  <2>6. CASE UNCHANGED vars
    <3>1. UNCHANGED <<call, map, todo, buf, overrun, frame, pc, tracing, read, context>>
      BY <2>6 DEF vars, client, server
    <3>2. Arranged'
      BY <3>1, ArrangedKept DEF IInv
    <3> QED
      BY <3>1, <3>2 DEF IInv, ServerInv, ArrivesWhole, ShortRoute
  <2> QED
    BY <2>1, <2>2, <2>3, <2>4, <2>5, <2>6 DEF Next
<1> QED
  BY <1>1, <1>2 DEF IInv

LEMMA IInvariant == Spec => []IInv
<1>1. Init => IInv
  BY InitIInv
<1>2. IInv /\ [Next]_vars => IInv'
  BY NextIInv
<1> QED
  BY <1>1, <1>2, PTL DEF Spec

(* A tracing map that fits arrives whole, for maps of any size whose       *)
(* entries were written in any order: byteBufToMap neither throws nor      *)
(* stops early on what mapToByteBuf wrote.                                 *)
THEOREM MapArrivesWhole == Spec => []ArrivesWhole
<1>1. IInv => ArrivesWhole
  BY DEF IInv
<1> QED
  BY <1>1, IInvariant, PTL

(* A server that finds the method of the call has no key and no value that *)
(* the client's map does not have, even if the frame cuts the map off.     *)
THEOREM MapNotInvented == Spec => []NothingInvented
<1>1. IInv => NothingInvented
  <2> SUFFICES ASSUME IInv, ~overrun, \A f \in frame : getMethod(f) # {}, NEW k \in DOMAIN read
               PROVE  k \in DOMAIN map /\ read[k] = map[k]
    BY DEF NothingInvented
  <2> USE DEF IInv, ClientInv
  <2>1. read # Empty
    BY DEF Empty
  <2>2. PICK f \in frame : getMethod(f) # {}
    BY <2>1 DEF ServerInv
  <2>3. Short(call.service)
    BY <2>1 DEF ServerInv
  <2>4. ShortRoute
    BY <2>2, <2>3, FrameOfCall DEF ShortRoute
  <2>5. PICK at \in [DOMAIN map \ todo -> 0 .. Len(buf)] : Served(at)
    BY <2>4 DEF Arranged
  <2>6. PICK p : read = Before(map, at, p)
    BY <2>5 DEF Served, Parsed
  <2> QED
    BY <2>5, <2>6 DEF Before
<1> QED
  BY <1>1, IInvariant, PTL
=============================================================================
