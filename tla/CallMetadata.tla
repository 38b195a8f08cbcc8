---------------------------- MODULE CallMetadata ----------------------------
(***************************************************************************)
(* What a call carries beside its message, from the client to the server:  *)
(* mapToByteBuf writes the map the client's tracer injected into, encode   *)
(* puts it into a frame with the route and the caller's metadata, the      *)
(* responder reads the service, and deserializeTracingMetadata with        *)
(* byteBufToMap reads the map for the server's tracer (objects Metadata    *)
(* and Tracing).                                                           *)
(*                                                                         *)
(* Strings are the bytes of their UTF-8 encoding.  The buffer of the       *)
(* client has a capacity, and ByteBufUtil.reserveAndWriteUtf8 writes       *)
(* behind it if more is written than was reserved.  What then happens      *)
(* depends on the kind of buffer: the write throws, the bytes stay where   *)
(* they are, or they are lost when the buffer is moved.                    *)
(*                                                                         *)
(* ReservesNothing and LengthOfKey are faulty variants of the definitions  *)
(* that follow them.                                                       *)
(***************************************************************************)
EXTENDS Metadata, FiniteSets

CONSTANTS
  Inputs,           \* [map, service, method, metadata]; the map is from strings to strings
  InitialCapacity,  \* of a buffer (256 in the code)
  Capacities        \* that a buffer can be given

ASSUME InputsAssumption ==
  /\ \A in \in Inputs :
       /\ {in.service, in.method, in.metadata} \subseteq Seq(0 .. ByteSize - 1)
       /\ DOMAIN in.map \subseteq Seq(0 .. ByteSize - 1)
       /\ in.map \in [DOMAIN in.map -> Seq(0 .. ByteSize - 1)]
  /\ InitialCapacity \in Capacities /\ Capacities \subseteq Nat

VARIABLES
  call,      \* the route of the call and the caller's metadata
  map,       \* the map of the client
  todo,      \* keys that mapToByteBuf has not written yet
  buf,       \* its buffer
  capacity,  \* the buffer's capacity
  overrun,   \* whether bytes were written behind the capacity
  pc,        \* "write", "sent", "read", "done", or "failed" by an exception
  frame,     \* what encode returned, {} until then
  tracing,   \* what the server has not read of the tracing field
  read,      \* the map of the server
  context    \* what deserializeTracingMetadata returned: none or an extract of a map

client == <<call, map, todo, buf, capacity, overrun, frame>>
server == <<tracing, read, context>>
vars   == <<client, pc, server>>

-----------------------------------------------------------------------------
(* Netty's AbstractByteBuf.ensureWritable0 and ByteBufUtil.                *)

(* The least capacity that is enough; there is none behind maxCapacity.    *)
EnsureWritable(cap, size) ==
  IF size <= cap THEN {cap}
  ELSE {c \in Capacities : c >= size /\ \A d \in Capacities : d >= size => c <= d}

(* The length as a short and the bytes, for which `reserved` bytes are     *)
(* reserved; b is [bytes, cap, over].                                      *)
WriteString(b, string, reserved) ==
  LET size == Len(b.bytes) + SHORT_BYTES IN
    {[bytes |-> b.bytes \o WriteShort(Len(string)) \o string,
      cap   |-> cap,
      over  |-> b.over \/ size + Len(string) > cap] :
     cap \in UNION {EnsureWritable(c, size + reserved) : c \in EnsureWritable(b.cap, size)}}

-----------------------------------------------------------------------------
(* mapToByteBuf, one iteration for each entry, in the order of a HashMap.  *)

WrittenEntry(key, reservedForKey, reservedForValue) ==
  UNION {WriteString(b, map[key], reservedForValue) :
           b \in WriteString([bytes |-> buf, cap |-> capacity, over |-> FALSE],
                             key, reservedForKey)}

WriteEntryWith(key, reservedForKey, reservedForValue) ==
  \/ \E b \in WrittenEntry(key, reservedForKey, reservedForValue) :
       /\ capacity' = b.cap
       /\ overrun' = (overrun \/ b.over)
       /\ \/ /\ buf' = b.bytes
             /\ todo' = todo \ {key}
             /\ UNCHANGED pc
          \/ /\ b.over
             /\ buf' = [j \in DOMAIN b.bytes |-> IF j > b.cap THEN 0 ELSE b.bytes[j]]
             /\ todo' = todo \ {key}
             /\ UNCHANGED pc
          \/ /\ b.over
             /\ pc' = "failed"
             /\ UNCHANGED <<buf, todo>>
  \/ /\ WrittenEntry(key, reservedForKey, reservedForValue) = {}
     /\ pc' = "failed"
     /\ UNCHANGED <<buf, todo, capacity, overrun>>

Accepted(string) == requireUnsignedShort(Len(string)) # {}

ReservesNothing(key) == WriteEntryWith(key, 0, 0)

WriteEntry(key) == WriteEntryWith(key, Len(key), Len(key))

mapToByteBuf ==
  /\ pc = "write"
  /\ \E key \in todo :
       /\ Accepted(key) /\ Accepted(map[key])
       /\ WriteEntry(key)
  /\ UNCHANGED <<call, map, frame, server>>

RequireThrows ==
  /\ pc = "write"
  /\ \E key \in todo : ~(Accepted(key) /\ Accepted(map[key]))
  /\ pc' = "failed"
  /\ UNCHANGED <<client, server>>

Encode ==
  /\ pc = "write" /\ todo = {}
  /\ frame' = encode(call.service, call.method, buf, call.metadata)
  /\ pc' = IF frame' = {} THEN "failed" ELSE "sent"
  /\ UNCHANGED <<call, map, todo, buf, capacity, overrun, server>>

-----------------------------------------------------------------------------
(* RequestHandlingRSocket reads the service, and the server the tracing    *)
(* bytes if it has a tracer.                                               *)

ServiceUnreadable ==
  /\ pc = "sent"
  /\ \A f \in frame : getService(f) = {}
  /\ pc' = "failed"
  /\ UNCHANGED <<client, server>>

deserializeTracingMetadata ==
  /\ pc = "sent"
  /\ \E f \in frame :
       /\ getService(f) # {}
       /\ \/ /\ pc' = "done"
             /\ UNCHANGED tracing
          \/ /\ pc' = "read"
             /\ tracing' \in getTracing(f)
          \/ /\ getTracing(f) = {}
             /\ pc' = "failed"
             /\ UNCHANGED tracing
  /\ UNCHANGED <<client, read, context>>

(* Reads a string: what it is and how many bytes it took.                  *)
LengthOfKey(bytes, offset) ==
  {[string |-> s, end |-> offset + SHORT_BYTES + Len(s)] :
     s \in UNION {Bytes(bytes, offset + SHORT_BYTES, n) : n \in GetShort(bytes, 0)}}

ReadString(bytes, offset) ==
  {[string |-> s, end |-> offset + SHORT_BYTES + Len(s)] : s \in Field(bytes, offset)}

Entry(bytes) ==
  UNION {{[key |-> k.string, value |-> v.string, end |-> v.end] :
            v \in ReadString(bytes, k.end)} : k \in ReadString(bytes, 0)}

Put(m, key, value) ==
  [k \in DOMAIN m \union {key} |-> IF k = key THEN value ELSE m[k]]

byteBufToMap ==
  /\ pc = "read" /\ tracing # <<>>
  /\ \/ \E e \in Entry(tracing) :
          /\ read' = Put(read, e.key, e.value)
          /\ tracing' = SubSeq(tracing, e.end + 1, Len(tracing))
          /\ UNCHANGED pc
     \/ /\ Entry(tracing) = {}
        /\ pc' = "failed"
        /\ UNCHANGED <<read, tracing>>
  /\ UNCHANGED <<client, context>>

(* tracer.extract may find no context in the map, which is not allowed for *)
(* the result type SpanContext.                                            *)
Extract ==
  /\ pc = "read" /\ tracing = <<>>
  /\ \/ /\ pc' = "done"
        /\ context' = IF DOMAIN read = {} THEN {} ELSE {read}
     \/ /\ DOMAIN read # {}
        /\ pc' = "failed"
        /\ UNCHANGED context
  /\ UNCHANGED <<client, tracing, read>>

Init ==
  /\ \E in \in Inputs :
       /\ call = [service |-> in.service, method |-> in.method, metadata |-> in.metadata]
       /\ map = in.map
  /\ todo = DOMAIN map /\ frame = {}
  /\ buf = <<>> /\ capacity = InitialCapacity /\ overrun = FALSE
  /\ pc = "write"
  /\ tracing = <<>> /\ read = [k \in {} |-> <<>>] /\ context = {}

Next ==
  \/ mapToByteBuf \/ RequireThrows \/ Encode
  \/ ServiceUnreadable \/ deserializeTracingMetadata \/ byteBufToMap \/ Extract

Spec == Init /\ [][Next]_vars

-----------------------------------------------------------------------------
Short(field) == Len(field) <= SIGNED_SHORT_MAX_VALUE

ShortRoute == Short(call.service) /\ Short(call.method)

(* Every reader returns what encode was given, if every field is at most   *)
(* Short.MAX_VALUE long.                                                   *)
RoundTrip ==
  \A f \in frame :
    ShortRoute /\ Short(buf) =>
      /\ getVersion(f) = {VERSION}
      /\ getService(f) = {call.service}
      /\ getMethod(f) = {call.method}
      /\ getTracing(f) = {buf}
      /\ getMetadata(f) = {call.metadata}

(* Whatever lengths encode accepts, a call is never routed to a service or *)
(* a method other than the one it names: RequestHandlingRSocket reads the  *)
(* service first, the server reads the method after it, and each either    *)
(* gets the name that was written or throws.                               *)
NeverMisrouted ==
  \A f \in frame :
    /\ getService(f) \subseteq {call.service}
    /\ getService(f) # {} => getMethod(f) \subseteq {call.method}

(* Names that pass requireUnsignedShort, that is, that are not "larger     *)
(* than 16 bits", can be read back.                                        *)
AcceptedIsReadable ==
  \A f \in frame : getService(f) = {call.service}

(* A map that fits in the frame's tracing field arrives whole: reading it  *)
(* neither throws nor returns early.                                       *)
ArrivesWhole ==
  frame # {} /\ ShortRoute /\ Short(buf) /\ ~overrun =>
    /\ pc = "failed" => read = map /\ map # [k \in {} |-> <<>>]
    /\ \A m \in context : m = map

(* Whatever lengths the client accepts and however the frame cuts the      *)
(* bytes off, a server that finds the method of the call gives its tracer  *)
(* no key that the client's did not write, and no other value for one.     *)
NothingInvented ==
  ~overrun /\ (\A f \in frame : getMethod(f) # {}) =>
    \A k \in DOMAIN read : k \in DOMAIN map /\ read[k] = map[k]

(* No bytes are written behind the buffer's capacity while the values are  *)
(* not longer than their keys, whatever the order of the entries.          *)
OverrunOnlyByValue ==
  overrun => \E k \in DOMAIN map : Len(map[k]) > Len(k)

(* A map whose keys and values requireUnsignedShort accepts, being no      *)
(* "larger than 16 bits", is written within the buffer.                    *)
AcceptedIsWritten ==
  (\A k \in DOMAIN map : Accepted(k) /\ Accepted(map[k])) => ~overrun
=============================================================================
