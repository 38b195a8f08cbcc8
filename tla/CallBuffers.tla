---------------------------- MODULE CallBuffers ----------------------------
(***************************************************************************)
(* The reference-counted buffers behind the payloads that generated code   *)
(* sends: mapToByteBuf, Metadata.encode and serialize allocate, the        *)
(* payload takes a copy, and the generated code releases.  A call is       *)
(* "deferred" (a client method with one payload per subscription),         *)
(* "channel" (a payload per message of a client-streaming method) or       *)
(* "respond" (a payload per answer of a server).  Every call is given a    *)
(* buffer of metadata by its caller; calls may be given the same one.      *)
(*                                                                         *)
(* ReleasesTracing, EncodeConsumes and SerializeLeaks are faulty variants  *)
(* of the definitions that follow them.                                    *)
(***************************************************************************)
EXTENDS Integers, Sequences, FiniteSets

CONSTANTS
  Calls,         \* calls
  Kind,          \* the kind of each
  MaxPayloads,   \* bound on the payloads a call starts to make
  EMPTY_BUFFER,  \* Unpooled.EMPTY_BUFFER, which is not counted
  NoBuffer       \* of a variable that refers to none

Variable == {"tracingMetadata", "metadataBuf", "data"}

(* The buffer that a call's n-th payload allocates for a variable.         *)
Buffer == Calls \X (1 .. MaxPayloads) \X Variable

ASSUME CallsAssumption ==
  /\ Kind \in [Calls -> {"deferred", "channel", "respond"}]
  /\ MaxPayloads \in Nat
  /\ {EMPTY_BUFFER, NoBuffer} \intersect Buffer = {} /\ EMPTY_BUFFER # NoBuffer

VARIABLES
  step,      \* each call's position in its program
  started,   \* payloads each call has started
  once,      \* whether a channel has sent the metadata
  held,      \* the call's variables: the buffer in each, or NoBuffer
  refs,      \* reference count of each allocated buffer
  unread,    \* whether the caller's metadata can still be read
  payload,   \* what the payload under construction holds
  sent,      \* payloads sent by each call
  failures   \* exceptions of each call: the instructions that threw

vars == <<step, started, once, held, refs, unread, payload, sent, failures>>

NoPayload == [data |-> FALSE, metadata |-> FALSE]

-----------------------------------------------------------------------------
(* The statements that matter, in the order of the generated code.         *)

ReleasesTracing ==
  <<"mapToByteBuf", "tracingMetadata", "encode", "serialize", "DefaultPayload",
    "metadataBuf", "data", "send">>

Deferred ==
  <<"mapToByteBuf", "encode", "serialize", "DefaultPayload", "tracingMetadata",
    "metadataBuf", "data", "send">>

Channel ==
  <<"serialize", "encode", "DefaultPayload", "metadataBuf", "data", "send">>

Respond == <<"serialize", "DefaultPayload", "data", "send">>

Program(kind) ==
  CASE kind = "deferred" -> Deferred
    [] kind = "channel" -> Channel
    [] kind = "respond" -> Respond

(* The variables whose buffers a statement reads or releases: encode reads *)
(* the tracing bytes, of which a channel has none, and the payload is made *)
(* of a message and, but for an answer, of metadata.                       *)
Uses(kind, instruction) ==
  CASE instruction = "encode" /\ kind = "deferred" -> {"tracingMetadata"}
    [] instruction = "DefaultPayload" /\ kind = "respond" -> {"data"}
    [] instruction = "DefaultPayload" /\ kind # "respond" -> {"data", "metadataBuf"}
    [] instruction \in Variable -> {instruction}
    [] OTHER -> {}

At(c, instruction) ==
  step[c] \in DOMAIN Program(Kind[c]) /\ Program(Kind[c])[step[c]] = instruction

Idle(c) == step[c] = 0

New(c, v) == <<c, started[c], v>>

Live(b) == b = EMPTY_BUFFER \/ (b \in Buffer /\ refs[b] > 0)

(* Allocates the buffer of a variable and goes on.                         *)
Allocate(c, v) ==
  /\ refs' = [refs EXCEPT ![New(c, v)] = 1]
  /\ held' = [held EXCEPT ![c][v] = New(c, v)]
  /\ step' = [step EXCEPT ![c] = @ + 1]
  /\ UNCHANGED failures

(* An exception: the call's variables are gone, what they refer to is not. *)
Throw(c, instruction, count) ==
  /\ refs' = count
  /\ held' = [held EXCEPT ![c] = [v \in Variable |-> NoBuffer]]
  /\ step' = [step EXCEPT ![c] = 0]
  /\ failures' = [failures EXCEPT ![c] = @ \union {<<started[c], instruction>>}]

-----------------------------------------------------------------------------
(* A subscription, a message of a channel, an answer.                      *)
Start(c) ==
  /\ Idle(c) /\ started[c] < MaxPayloads
  /\ started' = [started EXCEPT ![c] = @ + 1]
  /\ step' = [step EXCEPT ![c] = 1]
  /\ payload' = [payload EXCEPT ![c] = NoPayload]
  /\ UNCHANGED <<once, held, refs, unread, sent, failures>>

(* An empty map needs no buffer; a string that is too long throws when the *)
(* buffer is there already.                                                *)
MapToByteBuf(c) ==
  /\ At(c, "mapToByteBuf")
  /\ \/ Allocate(c, "tracingMetadata")
     \/ /\ held' = [held EXCEPT ![c].tracingMetadata = EMPTY_BUFFER]
        /\ step' = [step EXCEPT ![c] = @ + 1]
        /\ UNCHANGED <<refs, failures>>
     \/ Throw(c, "mapToByteBuf", [refs EXCEPT ![New(c, "tracingMetadata")] = 1])
  /\ UNCHANGED <<started, once, unread, payload, sent>>

EncodeConsumes(c) ==
  /\ \/ /\ Allocate(c, "metadataBuf")
        /\ payload' = [payload EXCEPT ![c].metadata = unread]
        /\ unread' = FALSE
     \/ /\ Throw(c, "encode", [refs EXCEPT ![New(c, "metadataBuf")] = 1])
        /\ UNCHANGED <<payload, unread>>

(* Metadata.encode copies the caller's metadata by index: its reader index *)
(* stays where it is.                                                      *)
encode(c) ==
  /\ \/ /\ Allocate(c, "metadataBuf")
        /\ payload' = [payload EXCEPT ![c].metadata = unread]
     \/ /\ Throw(c, "encode", [refs EXCEPT ![New(c, "metadataBuf")] = 1])
        /\ UNCHANGED payload
  /\ UNCHANGED unread

Encode(c) ==
  /\ At(c, "encode")
  /\ Kind[c] = "channel" => ~once[c]
  /\ once' = [once EXCEPT ![c] = Kind[c] = "channel"]
  /\ encode(c)
  /\ UNCHANGED <<started, sent>>

(* Messages of a channel after the first.                                  *)
NoMetadata(c) ==
  /\ At(c, "encode") /\ Kind[c] = "channel" /\ once[c]
  /\ held' = [held EXCEPT ![c].metadataBuf = EMPTY_BUFFER]
  /\ step' = [step EXCEPT ![c] = @ + 1]
  /\ UNCHANGED <<started, once, refs, unread, payload, sent, failures>>

SerializeLeaks(c) ==
  /\ At(c, "serialize")
  /\ \/ Allocate(c, "data")
     \/ Throw(c, "serialize", [refs EXCEPT ![New(c, "data")] = 1])
  /\ UNCHANGED <<started, once, unread, payload, sent>>

(* serialize, and the server's serializer, release what they allocated     *)
(* when writeTo throws.                                                    *)
Serialize(c) ==
  /\ At(c, "serialize")
  /\ \/ Allocate(c, "data")
     \/ Throw(c, "serialize", refs)
  /\ UNCHANGED <<started, once, unread, payload, sent>>

(* Copies both buffers; a server's answer has no metadata.                 *)
DefaultPayload(c) ==
  /\ At(c, "DefaultPayload")
  /\ payload' = [payload EXCEPT ![c].data = Live(held[c].data)]
  /\ step' = [step EXCEPT ![c] = @ + 1]
  /\ UNCHANGED <<started, once, held, refs, unread, sent, failures>>

(* Releasing EMPTY_BUFFER does nothing.                                    *)
Release(c) ==
  \E v \in Variable :
    /\ At(c, v)
    /\ LET b == held[c][v] IN
         refs' = IF b = EMPTY_BUFFER THEN refs ELSE [refs EXCEPT ![b] = @ - 1]
    /\ step' = [step EXCEPT ![c] = @ + 1]
    /\ UNCHANGED <<started, once, held, unread, payload, sent, failures>>

Send(c) ==
  /\ At(c, "send")
  /\ sent' = [sent EXCEPT ![c] = Append(@, payload[c])]
  /\ held' = [held EXCEPT ![c] = [v \in Variable |-> NoBuffer]]
  /\ step' = [step EXCEPT ![c] = 0]
  /\ UNCHANGED <<started, once, refs, unread, payload, failures>>

Init ==
  /\ step = [c \in Calls |-> 0]
  /\ started = [c \in Calls |-> 0]
  /\ once = [c \in Calls |-> FALSE]
  /\ held = [c \in Calls |-> [v \in Variable |-> NoBuffer]]
  /\ refs = [b \in Buffer |-> 0]
  /\ unread = TRUE
  /\ payload = [c \in Calls |-> NoPayload]
  /\ sent = [c \in Calls |-> <<>>]
  /\ failures = [c \in Calls |-> {}]

Next ==
  \E c \in Calls :
    \/ Start(c) \/ MapToByteBuf(c) \/ Encode(c) \/ NoMetadata(c)
    \/ Serialize(c) \/ DefaultPayload(c) \/ Release(c) \/ Send(c)

Spec == Init /\ [][Next]_vars

-----------------------------------------------------------------------------
(* Whatever failed in earlier payloads and however calls interleave, every *)
(* statement of the generated code finds the buffers that it reads or      *)
(* releases live, and none is released more often than it was allocated.   *)
NoUseAfterRelease ==
  /\ \A b \in Buffer : refs[b] \in {0, 1}
  /\ \A c \in Calls : step[c] \in DOMAIN Program(Kind[c]) =>
       \A v \in Uses(Kind[c], Program(Kind[c])[step[c]]) : Live(held[c][v])

Leaked(c, n) == {v \in Variable : refs[<<c, n, v>>] > 0}

(* A payload that is sent leaves no buffer behind, whatever failed before  *)
(* it, and neither does a message that cannot be serialized, but for the   *)
(* metadata that a deferred call has encoded by then.                      *)
LeaksOnlyByFailure ==
  \A c \in Calls :
    Idle(c) => \A n \in 1 .. started[c] :
      /\ Leaked(c, n) # {} => \E i \in {"mapToByteBuf", "encode", "serialize"} :
                                <<n, i>> \in failures[c]
      /\ <<n, "serialize">> \in failures[c] =>
           /\ "data" \notin Leaked(c, n)
           /\ Kind[c] # "deferred" => Leaked(c, n) = {}
      /\ Cardinality(Leaked(c, n)) <= 2

(* Calls that are given the same metadata, and resubscriptions of one,     *)
(* each send it: every payload of a deferred call carries it, and of a     *)
(* channel's payloads none but the first that reaches encode.              *)
MetadataForEveryAttempt ==
  \A c \in Calls :
    \A n \in 1 .. Len(sent[c]) :
      /\ sent[c][n].data
      /\ Kind[c] = "deferred" => sent[c][n].metadata
      /\ Kind[c] = "channel" =>
           sent[c][n].metadata =
             (n = 1 /\ \A f \in failures[c] : f[2] # "encode")
=============================================================================
