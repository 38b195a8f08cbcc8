--------------------------- MODULE MCCallMetadata ---------------------------
(***************************************************************************)
(* Instances of CallMetadata, with lengths around the limits of a short of *)
(* two 2-bit bytes (7 read as signed, 15 accepted) and around those of the *)
(* buffer: every map of at most two entries under a short route, and       *)
(* routes of every length with maps of at most one entry.  The bytes of a  *)
(* name are all the same and differ between service and method, so that a  *)
(* reader that strays into another field returns something else.           *)
(***************************************************************************)
EXTENDS CallMetadata

CONSTANTS KeyLengths, ValueLengths, NameLengths, BodyLengths

String(n, first) == [j \in 1 .. n |-> (first + j) % ByteSize]

Fill(n, byte) == [j \in 1 .. n |-> byte]

Keys == {String(n, 0) : n \in KeyLengths}

Values == {String(n, first) : n \in ValueLengths, first \in {0, 2}}

MapsOf(size, values) ==
  UNION {[ks -> values] : ks \in {ks \in SUBSET Keys : Cardinality(ks) <= size}}

Input(m, s, t, d) ==
  [map |-> m, service |-> Fill(s, 1), method |-> Fill(t, 2), metadata |-> Fill(d, 3)]

AllInputs ==
  {Input(m, 1, 1, 1) : m \in MapsOf(2, Values)} \union
  {Input(m, s, t, d) : m \in MapsOf(1, {String(n, 0) : n \in {1, 12}}),
                       s \in NameLengths, t \in NameLengths, d \in BodyLengths}
=============================================================================
