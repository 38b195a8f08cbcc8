-------------------------- MODULE CallBuffersProofs --------------------------
(***************************************************************************)
(* Proofs about CallBuffers: no buffer is used after its release, buffers  *)
(* leak only by a failure, and every attempt carries its metadata, for any *)
(* number of calls and payloads.                                           *)
(***************************************************************************)
EXTENDS CallBuffers, FiniteSetTheorems, TLAPS

Instruction == {"mapToByteBuf", "encode", "serialize"}

Payload == [data : BOOLEAN, metadata : BOOLEAN]

Typed ==
  /\ step \in [Calls -> 0 .. 8]
  /\ started \in [Calls -> 0 .. MaxPayloads]
  /\ once \in [Calls -> BOOLEAN]
  /\ held \in [Calls -> [Variable -> Buffer \union {EMPTY_BUFFER, NoBuffer}]]
  /\ refs \in [Buffer -> {0, 1}]
  /\ unread = TRUE
  /\ payload \in [Calls -> Payload]
  /\ sent \in [Calls -> Seq(Payload)]
  /\ failures \in [Calls -> SUBSET ((1 .. MaxPayloads) \X Instruction)]

(* The statement that allocates v for the payload has run, and the one     *)
(* that releases it has not.                                               *)
Owns(c, v) ==
  \/ /\ Kind[c] = "deferred"
     /\ \/ v = "tracingMetadata" /\ step[c] \in 2 .. 5
        \/ v = "metadataBuf" /\ step[c] \in 3 .. 6
        \/ v = "data" /\ step[c] \in 4 .. 7
  \/ /\ Kind[c] = "channel"
     /\ \/ v = "metadataBuf" /\ step[c] \in 3 .. 4
        \/ v = "data" /\ step[c] \in 2 .. 5
  \/ /\ Kind[c] = "respond"
     /\ v = "data" /\ step[c] \in 2 .. 3

(* Every buffer of the payload under construction is owned by a variable,  *)
(* or there is none.                                                       *)
Owned(c) ==
  /\ step[c] # 0 => started[c] # 0
  /\ Kind[c] = "respond" => held[c]["metadataBuf"] = NoBuffer
  /\ step[c] # 0 => \A v \in Variable :
       IF Owns(c, v)
         THEN \/ held[c][v] = New(c, v) /\ refs[New(c, v)] = 1
              \/ held[c][v] = EMPTY_BUFFER /\ refs[New(c, v)] = 0 /\ v # "data"
         ELSE refs[New(c, v)] = 0

(* A payload that was sent or given up has no buffers but those its        *)
(* failure left, and one that was not started has none.                    *)
Left(c) ==
  /\ \A f \in failures[c] : f[1] <= started[c] /\ (f[1] = started[c] => step[c] = 0)
  /\ \A n \in 1 .. MaxPayloads : n > started[c] =>
       \A v \in Variable : refs[<<c, n, v>>] = 0
  /\ \A n \in 1 .. MaxPayloads : n < started[c] \/ (n = started[c] /\ step[c] = 0) =>
       /\ \A v \in Variable : refs[<<c, n, v>>] = 1 =>
            \E i \in Instruction : <<n, i>> \in failures[c]
       /\ <<n, "serialize">> \in failures[c] =>
            /\ refs[<<c, n, "data">>] = 0
            /\ Kind[c] # "deferred" => \A v \in Variable : refs[<<c, n, v>>] = 0
       /\ Kind[c] = "deferred" => refs[<<c, n, "data">>] = 0
       /\ Kind[c] # "deferred" => refs[<<c, n, "tracingMetadata">>] = 0

NoEncodeFailure(c) == \A f \in failures[c] : f[2] # "encode"

(* What the payload under construction holds, and which one of a channel   *)
(* has the metadata.                                                       *)
Filled(c) ==
  /\ Kind[c] = "deferred" =>
       /\ step[c] >= 3 => payload[c].metadata
       /\ step[c] >= 5 => payload[c].data
  /\ Kind[c] = "channel" =>
       /\ step[c] \in 1 .. 2 => ~payload[c].metadata
       /\ step[c] >= 3 => (payload[c].metadata <=> sent[c] = <<>> /\ NoEncodeFailure(c))
       /\ step[c] >= 4 => payload[c].data
       /\ ~once[c] => sent[c] = <<>> /\ NoEncodeFailure(c) /\ step[c] <= 2
       /\ once[c] /\ step[c] <= 2 => sent[c] # <<>> \/ ~NoEncodeFailure(c)
  /\ Kind[c] = "respond" => (step[c] >= 3 => payload[c].data)

SentRight(c) ==
  \A n \in 1 .. Len(sent[c]) :
    /\ sent[c][n].data
    /\ Kind[c] = "deferred" => sent[c][n].metadata
    /\ Kind[c] = "channel" => (sent[c][n].metadata <=> n = 1 /\ NoEncodeFailure(c))

CallInv(c) == Owned(c) /\ Left(c) /\ Filled(c) /\ SentRight(c)

IInv == Typed /\ \A c \in Calls : CallInv(c)

-----------------------------------------------------------------------------
(* Where the statements stand in the three programs.                       *)
LEMMA AtStep ==
  ASSUME NEW c \in Calls
  PROVE  /\ At(c, "mapToByteBuf") => Kind[c] = "deferred" /\ step[c] = 1
         /\ At(c, "encode") => Kind[c] \in {"deferred", "channel"} /\ step[c] = 2
         /\ At(c, "serialize") =>
              \/ Kind[c] = "deferred" /\ step[c] = 3
              \/ Kind[c] \in {"channel", "respond"} /\ step[c] = 1
         /\ At(c, "DefaultPayload") =>
              \/ Kind[c] = "deferred" /\ step[c] = 4
              \/ Kind[c] = "channel" /\ step[c] = 3
              \/ Kind[c] = "respond" /\ step[c] = 2
         /\ At(c, "tracingMetadata") => Kind[c] = "deferred" /\ step[c] = 5
         /\ At(c, "metadataBuf") =>
              \/ Kind[c] = "deferred" /\ step[c] = 6
              \/ Kind[c] = "channel" /\ step[c] = 4
         /\ At(c, "data") =>
              \/ Kind[c] = "deferred" /\ step[c] = 7
              \/ Kind[c] = "channel" /\ step[c] = 5
              \/ Kind[c] = "respond" /\ step[c] = 3
         /\ At(c, "send") =>
              \/ Kind[c] = "deferred" /\ step[c] = 8
              \/ Kind[c] = "channel" /\ step[c] = 6
              \/ Kind[c] = "respond" /\ step[c] = 4
<1>1. Kind[c] \in {"deferred", "channel", "respond"}
  BY CallsAssumption
<1>2. CASE Kind[c] = "deferred"
  <2>1. /\ DOMAIN Deferred = 1 .. 8
        /\ Deferred[1] = "mapToByteBuf" /\ Deferred[2] = "encode"
        /\ Deferred[3] = "serialize" /\ Deferred[4] = "DefaultPayload"
        /\ Deferred[5] = "tracingMetadata" /\ Deferred[6] = "metadataBuf"
        /\ Deferred[7] = "data" /\ Deferred[8] = "send"
    BY DEF Deferred
  <2>2. Program(Kind[c]) = Deferred
    BY <1>2 DEF Program
  <2> QED
    BY <1>2, <2>1, <2>2 DEF At
<1>3. CASE Kind[c] = "channel"
  <2>1. /\ DOMAIN Channel = 1 .. 6
        /\ Channel[1] = "serialize" /\ Channel[2] = "encode"
        /\ Channel[3] = "DefaultPayload" /\ Channel[4] = "metadataBuf"
        /\ Channel[5] = "data" /\ Channel[6] = "send"
    BY DEF Channel
  <2>2. Program(Kind[c]) = Channel
    BY <1>3 DEF Program
  <2> QED
    BY <1>3, <2>1, <2>2 DEF At
<1>4. CASE Kind[c] = "respond"
  <2>1. /\ DOMAIN Respond = 1 .. 4
        /\ Respond[1] = "serialize" /\ Respond[2] = "DefaultPayload"
        /\ Respond[3] = "data" /\ Respond[4] = "send"
    BY DEF Respond
  <2>2. Program(Kind[c]) = Respond
    BY <1>4 DEF Program
  <2> QED
    BY <1>4, <2>1, <2>2 DEF At
<1> QED
  BY <1>1, <1>2, <1>3, <1>4

(* A call keeps its part of the invariant while others run.                *)
SameFor(c) ==
  /\ step'[c] = step[c] /\ started'[c] = started[c] /\ once'[c] = once[c]
  /\ held'[c] = held[c] /\ payload'[c] = payload[c] /\ sent'[c] = sent[c]
  /\ failures'[c] = failures[c]
  /\ \A n \in 1 .. MaxPayloads, v \in Variable : refs'[<<c, n, v>>] = refs[<<c, n, v>>]

LEMMA OthersKept ==
  ASSUME Typed, NEW c \in Calls, CallInv(c), SameFor(c)
  PROVE  CallInv(c)'
<1>1. started[c] \in 0 .. MaxPayloads /\ MaxPayloads \in Nat
  BY CallsAssumption DEF Typed
<1>2. \A v \in Variable : (Owns(c, v) <=> Owns(c, v)') /\ New(c, v)' = New(c, v)
  BY DEF SameFor, Owns, New
<1>3. step[c] # 0 => \A v \in Variable : refs'[New(c, v)] = refs[New(c, v)]
  BY <1>1 DEF SameFor, New, CallInv, Owned
<1>4. Owned(c)'
  BY <1>2, <1>3 DEF SameFor, CallInv, Owned
<1>5. Left(c)'
  <2>1. \A n \in 1 .. MaxPayloads, v \in Variable : refs'[<<c, n, v>>] = refs[<<c, n, v>>]
    BY DEF SameFor
  <2>2. {"data", "tracingMetadata"} \subseteq Variable
    BY DEF Variable
  <2>3. step'[c] = step[c] /\ started'[c] = started[c] /\ failures'[c] = failures[c]
    BY DEF SameFor
  <2> QED
    BY <2>1, <2>2, <2>3 DEF CallInv, Left
<1>6. Filled(c)' /\ SentRight(c)'
  BY DEF SameFor, CallInv, Filled, SentRight, NoEncodeFailure
<1> QED
  BY <1>4, <1>5, <1>6 DEF CallInv

LEMMA OneCall ==
  ASSUME IInv, NEW c \in Calls, Typed', CallInv(c)',
         \A d \in Calls \ {c} : SameFor(d)
  PROVE  IInv'
BY OthersKept DEF IInv

-----------------------------------------------------------------------------
(* The buffers of a payload that was started are buffers, one for each     *)
(* variable, and belong to no other call or payload.                       *)
LEMMA NewBuffer ==
  ASSUME Typed, NEW c \in Calls, started[c] # 0
  PROVE  /\ started[c] \in 1 .. MaxPayloads
         /\ \A v \in Variable : New(c, v) \in Buffer
         /\ \A b \in Buffer : b = <<b[1], b[2], b[3]>> /\ b # EMPTY_BUFFER /\ b # NoBuffer
<1>1. started[c] \in 1 .. MaxPayloads
  BY CallsAssumption DEF Typed
<1>2. \A v \in Variable : New(c, v) \in Buffer
  BY <1>1 DEF New, Buffer
<1>3. \A b \in Buffer : b = <<b[1], b[2], b[3]>>
  BY DEF Buffer
<1>4. \A b \in Buffer : b # EMPTY_BUFFER /\ b # NoBuffer
  BY CallsAssumption
<1> QED
  BY <1>1, <1>2, <1>3, <1>4

(* Only the buffer of one variable changes its count, of a payload under   *)
(* construction.                                                           *)
ChangesOnly(c, v) ==
  \A d \in Calls, n \in 1 .. MaxPayloads, w \in Variable :
    <<d, n, w>> # New(c, v) => refs'[<<d, n, w>>] = refs[<<d, n, w>>]

LEMMA RefsChange ==
  ASSUME Typed, NEW c \in Calls, started[c] # 0, NEW v \in Variable, NEW k \in {0, 1},
         refs' = [refs EXCEPT ![New(c, v)] = k]
  PROVE  refs' \in [Buffer -> {0, 1}] /\ refs'[New(c, v)] = k /\ ChangesOnly(c, v)
<1>1. New(c, v) \in Buffer
  BY NewBuffer
<1>2. refs' \in [Buffer -> {0, 1}] /\ refs'[New(c, v)] = k
  BY <1>1 DEF Typed
<1>3. \A b \in Buffer : b # New(c, v) => refs'[b] = refs[b]
  BY <1>1 DEF Typed
<1>4. \A d \in Calls, n \in 1 .. MaxPayloads, w \in Variable : <<d, n, w>> \in Buffer
  BY DEF Buffer
<1> QED
  BY <1>2, <1>3, <1>4 DEF ChangesOnly

(* What was left behind stays while a payload is under construction.       *)
LEMMA LeftBusy ==
  ASSUME Typed, NEW c \in Calls, Left(c), step[c] # 0, step'[c] # 0,
         started'[c] = started[c], failures'[c] = failures[c],
         \A n \in 1 .. MaxPayloads, w \in Variable :
           n # started[c] => refs'[<<c, n, w>>] = refs[<<c, n, w>>]
  PROVE  Left(c)'
<1>1. started[c] \in Nat /\ MaxPayloads \in Nat
  BY CallsAssumption DEF Typed
<1>2. {"data", "tracingMetadata"} \subseteq Variable
  BY DEF Variable
<1>3. \A n \in 1 .. MaxPayloads : n < started[c] \/ n > started[c] => n # started[c]
  BY <1>1
<1>4. \A f \in failures'[c] : f[1] <= started'[c] /\ (f[1] = started'[c] => step'[c] = 0)
  BY DEF Left
<1>5. \A n \in 1 .. MaxPayloads : n > started'[c] =>
        \A v \in Variable : refs'[<<c, n, v>>] = 0
  BY <1>3 DEF Left
<1>6. ASSUME NEW n \in 1 .. MaxPayloads, n < started'[c] \/ (n = started'[c] /\ step'[c] = 0)
      PROVE  /\ \A v \in Variable : refs'[<<c, n, v>>] = 1 =>
                  \E i \in Instruction : <<n, i>> \in failures'[c]
             /\ <<n, "serialize">> \in failures'[c] =>
                  /\ refs'[<<c, n, "data">>] = 0
                  /\ Kind[c] # "deferred" => \A v \in Variable : refs'[<<c, n, v>>] = 0
             /\ Kind[c] = "deferred" => refs'[<<c, n, "data">>] = 0
             /\ Kind[c] # "deferred" => refs'[<<c, n, "tracingMetadata">>] = 0
  <2>1. n < started[c] /\ \A w \in Variable : refs'[<<c, n, w>>] = refs[<<c, n, w>>]
    BY <1>6, <1>3
  <2> QED
    BY <2>1, <1>2 DEF Left
<1> QED
  BY <1>4, <1>5, <1>6 DEF Left

(* A payload that fails leaves what its variables held.                    *)
LEMMA LeftByFailure ==
  ASSUME Typed, NEW c \in Calls, Left(c), step[c] # 0, started[c] # 0, step'[c] = 0,
         started'[c] = started[c], NEW i \in Instruction,
         failures'[c] = failures[c] \union {<<started[c], i>>},
         \A n \in 1 .. MaxPayloads, w \in Variable :
           n # started[c] => refs'[<<c, n, w>>] = refs[<<c, n, w>>],
         i = "serialize" /\ Kind[c] # "deferred" =>
           \A v \in Variable : refs'[New(c, v)] = 0,
         i = "serialize" \/ Kind[c] = "deferred" => refs'[New(c, "data")] = 0,
         Kind[c] # "deferred" => refs'[New(c, "tracingMetadata")] = 0
  PROVE  Left(c)'
<1>1. started[c] \in 1 .. MaxPayloads /\ MaxPayloads \in Nat
  BY CallsAssumption DEF Typed
<1>2. {"data", "tracingMetadata"} \subseteq Variable
  BY DEF Variable
<1>3. \A n \in 1 .. MaxPayloads : n < started[c] \/ n > started[c] => n # started[c]
  BY <1>1
<1>4. \A f \in failures'[c] : f[1] <= started'[c] /\ (f[1] = started'[c] => step'[c] = 0)
  BY <1>1 DEF Left
<1>5. \A n \in 1 .. MaxPayloads : n > started'[c] =>
        \A v \in Variable : refs'[<<c, n, v>>] = 0
  BY <1>3 DEF Left
<1>6. ASSUME NEW n \in 1 .. MaxPayloads, n < started'[c] \/ (n = started'[c] /\ step'[c] = 0)
      PROVE  /\ \A v \in Variable : refs'[<<c, n, v>>] = 1 =>
                  \E j \in Instruction : <<n, j>> \in failures'[c]
             /\ <<n, "serialize">> \in failures'[c] =>
                  /\ refs'[<<c, n, "data">>] = 0
                  /\ Kind[c] # "deferred" => \A v \in Variable : refs'[<<c, n, v>>] = 0
             /\ Kind[c] = "deferred" => refs'[<<c, n, "data">>] = 0
             /\ Kind[c] # "deferred" => refs'[<<c, n, "tracingMetadata">>] = 0
  <2>1. CASE n < started[c]
    <3>1. \A w \in Variable : refs'[<<c, n, w>>] = refs[<<c, n, w>>]
      BY <2>1, <1>3
    <3>2. \A j : <<n, j>> \in failures'[c] <=> <<n, j>> \in failures[c]
      BY <2>1, <1>3
    <3> QED
      BY <2>1, <3>1, <3>2, <1>2 DEF Left
  <2>2. CASE n = started[c]
    <3>1. \A v \in Variable : refs'[<<c, n, v>>] = refs'[New(c, v)]
      BY <2>2 DEF New
    <3>2. <<n, i>> \in failures'[c]
      BY <2>2
    <3>3. <<n, "serialize">> \in failures'[c] => i = "serialize"
      <4>1. <<n, "serialize">> \notin failures[c]
        BY <2>2 DEF Left
      <4> QED
        BY <4>1, <2>2
    <3> QED
      BY <3>1, <3>2, <3>3, <1>2
  <2> QED
    BY <1>6, <1>1, <2>1, <2>2
<1> QED
  BY <1>4, <1>5, <1>6 DEF Left

(* Another call sees nothing of a change to a buffer of c.                 *)
LEMMA RefsOfOthers ==
  ASSUME Typed, NEW c \in Calls, NEW v \in Variable, ChangesOnly(c, v),
         NEW d \in Calls, NEW n \in 1 .. MaxPayloads, d # c \/ n # started[c]
  PROVE  \A w \in Variable : refs'[<<d, n, w>>] = refs[<<d, n, w>>]
<1>1. \A w \in Variable : <<d, n, w>> # New(c, v)
  BY DEF New
<1> QED
  BY <1>1 DEF ChangesOnly

-----------------------------------------------------------------------------
(* A step of a call that goes on to its next statement, without or with a  *)
(* new buffer.                                                             *)
LEMMA AllocateStep ==
  ASSUME IInv, NEW c \in Calls, NEW v \in Variable, step[c] \in 1 .. 7, Allocate(c, v),
         UNCHANGED <<started, sent, unread>>, once' \in [Calls -> BOOLEAN],
         payload' \in [Calls -> Payload],
         \A d \in Calls \ {c} : once'[d] = once[d] /\ payload'[d] = payload[d],
         Kind[c] # "respond" \/ v # "metadataBuf",
         ~Owns(c, v), Owns(c, v)',
         \A w \in Variable \ {v} : Owns(c, w)' <=> Owns(c, w),
         Filled(c)'
  PROVE  IInv'
<1>1. /\ started[c] # 0
      /\ refs' = [refs EXCEPT ![New(c, v)] = 1]
      /\ held' = [held EXCEPT ![c][v] = New(c, v)]
      /\ step' = [step EXCEPT ![c] = @ + 1]
      /\ failures' = failures
  BY DEF IInv, CallInv, Owned, Allocate
<1>2. refs' \in [Buffer -> {0, 1}] /\ refs'[New(c, v)] = 1 /\ ChangesOnly(c, v)
  BY <1>1, RefsChange DEF IInv
<1>3. New(c, v) \in Buffer
  BY <1>1, NewBuffer DEF IInv
<1>4. held' \in [Calls -> [Variable -> Buffer \union {EMPTY_BUFFER, NoBuffer}]]
  BY <1>1, <1>3 DEF IInv, Typed
<1>5. step' \in [Calls -> 0 .. 8] /\ step'[c] # 0 /\ step[c] # 0
  BY <1>1 DEF IInv, Typed
<1>6. Typed'
  BY <1>1, <1>2, <1>4, <1>5 DEF IInv, Typed
<1>7. \A d \in Calls \ {c} : SameFor(d)
  <2> SUFFICES ASSUME NEW d \in Calls \ {c} PROVE SameFor(d)
    OBVIOUS
  <2>1. \A n \in 1 .. MaxPayloads, w \in Variable : refs'[<<d, n, w>>] = refs[<<d, n, w>>]
    BY <1>2, RefsOfOthers DEF IInv
  <2> QED
    BY <2>1, <1>1 DEF SameFor, IInv, Typed
<1>8. Left(c)'
  <2>1. \A n \in 1 .. MaxPayloads, w \in Variable :
          n # started[c] => refs'[<<c, n, w>>] = refs[<<c, n, w>>]
    BY <1>2, RefsOfOthers DEF IInv
  <2> QED
    BY <2>1, <1>1, <1>5, LeftBusy DEF IInv, CallInv
<1>9. Owned(c)'
  <2>1. \A w \in Variable : New(c, w)' = New(c, w)
    BY <1>1 DEF New
  <2>2. held'[c][v] = New(c, v) /\ \A w \in Variable \ {v} : held'[c][w] = held[c][w]
    BY <1>1 DEF IInv, Typed
  <2>3. \A w \in Variable \ {v} : refs'[New(c, w)] = refs[New(c, w)]
    <3>1. \A w \in Variable \ {v} : New(c, w) # New(c, v)
      BY DEF New
    <3>2. started[c] \in 1 .. MaxPayloads
      BY <1>1, NewBuffer DEF IInv
    <3> QED
      BY <3>1, <3>2, <1>2 DEF ChangesOnly, New
  <2>4. \A w \in Variable :
          IF Owns(c, w)'
            THEN \/ held'[c][w] = New(c, w) /\ refs'[New(c, w)] = 1
                 \/ held'[c][w] = EMPTY_BUFFER /\ refs'[New(c, w)] = 0 /\ w # "data"
            ELSE refs'[New(c, w)] = 0
    <3> SUFFICES ASSUME NEW w \in Variable
                 PROVE  IF Owns(c, w)'
                          THEN \/ held'[c][w] = New(c, w) /\ refs'[New(c, w)] = 1
                               \/ held'[c][w] = EMPTY_BUFFER /\ refs'[New(c, w)] = 0 /\ w # "data"
                          ELSE refs'[New(c, w)] = 0
      OBVIOUS
    <3>1. CASE w = v
      BY <3>1, <1>2, <2>2
    <3>2. CASE w # v
      BY <3>2, <2>2, <2>3, <1>5 DEF IInv, CallInv, Owned
    <3> QED
      BY <3>1, <3>2
  <2>5. started'[c] # 0
    BY <1>1
  <2>6. Kind[c] = "respond" => held'[c]["metadataBuf"] = NoBuffer
    BY <2>2 DEF IInv, CallInv, Owned, Variable
  <2> QED
    BY <2>1, <2>4, <2>5, <2>6 DEF Owned
<1>10. SentRight(c)'
  BY <1>1 DEF IInv, CallInv, SentRight, NoEncodeFailure
<1> QED
  BY <1>6, <1>7, <1>8, <1>9, <1>10, OneCall DEF CallInv

(* A step that puts EMPTY_BUFFER where a buffer might have been.           *)
LEMMA EmptyStep ==
  ASSUME IInv, NEW c \in Calls, NEW v \in Variable \ {"data"}, step[c] \in 1 .. 7,
         held' = [held EXCEPT ![c][v] = EMPTY_BUFFER],
         step' = [step EXCEPT ![c] = @ + 1],
         UNCHANGED <<started, once, refs, unread, payload, sent, failures>>,
         Kind[c] # "respond", ~Owns(c, v), Owns(c, v)',
         \A w \in Variable \ {v} : Owns(c, w)' <=> Owns(c, w),
         Filled(c)'
  PROVE  IInv'
<1>1. Typed'
  BY DEF IInv, Typed
<1>2. \A d \in Calls \ {c} : SameFor(d)
  BY DEF SameFor, IInv, Typed
<1>3. step[c] # 0 /\ step'[c] # 0
  BY DEF IInv, Typed
<1>4. Left(c)'
  BY <1>3, LeftBusy DEF IInv, CallInv
<1>5. Owned(c)'
  <2>1. \A w \in Variable : New(c, w)' = New(c, w)
    BY DEF New
  <2>2. held'[c][v] = EMPTY_BUFFER /\ \A w \in Variable \ {v} : held'[c][w] = held[c][w]
    BY DEF IInv, Typed
  <2> QED
    BY <2>1, <2>2, <1>3 DEF IInv, CallInv, Owned
<1>6. SentRight(c)'
  BY DEF IInv, CallInv, SentRight, NoEncodeFailure
<1> QED
  BY <1>1, <1>2, <1>4, <1>5, <1>6, OneCall DEF CallInv

(* A statement that throws.                                                *)
LEMMA ThrowStep ==
  ASSUME IInv, NEW c \in Calls, NEW i \in Instruction, NEW count, Throw(c, i, count),
         step[c] # 0, UNCHANGED <<started, sent, unread, payload>>,
         once' \in [Calls -> BOOLEAN], \A d \in Calls \ {c} : once'[d] = once[d],
         count \in [Buffer -> {0, 1}],
         \A d \in Calls, n \in 1 .. MaxPayloads, w \in Variable :
           d # c \/ n # started[c] => count[<<d, n, w>>] = refs[<<d, n, w>>],
         i = "serialize" /\ Kind[c] # "deferred" =>
           \A v \in Variable : count[New(c, v)] = 0,
         i = "serialize" \/ Kind[c] = "deferred" => count[New(c, "data")] = 0,
         Kind[c] # "deferred" => count[New(c, "tracingMetadata")] = 0,
         Filled(c)', SentRight(c)'
  PROVE  IInv'
<1>1. /\ refs' = count
      /\ held' = [held EXCEPT ![c] = [v \in Variable |-> NoBuffer]]
      /\ step' = [step EXCEPT ![c] = 0]
      /\ failures' = [failures EXCEPT ![c] = @ \union {<<started[c], i>>}]
  BY DEF Throw
<1>2. started[c] # 0 /\ started[c] \in 1 .. MaxPayloads
  BY NewBuffer DEF IInv, CallInv, Owned
<1>3. failures' \in [Calls -> SUBSET ((1 .. MaxPayloads) \X Instruction)]
  BY <1>1, <1>2 DEF IInv, Typed
<1>4. Typed'
  BY <1>1, <1>3 DEF IInv, Typed
<1>5. step'[c] = 0 /\ failures'[c] = failures[c] \union {<<started[c], i>>}
      /\ held'[c] = [v \in Variable |-> NoBuffer]
  BY <1>1 DEF IInv, Typed
<1>6. \A d \in Calls \ {c} : SameFor(d)
  BY <1>1 DEF SameFor, IInv, Typed
<1>7. Left(c)'
  BY <1>1, <1>2, <1>5, LeftByFailure DEF IInv, CallInv
<1>8. Owned(c)'
  BY <1>5 DEF Owned, Variable
<1> QED
  BY <1>4, <1>6, <1>7, <1>8, OneCall DEF CallInv

LEMMA MapToByteBufStep ==
  ASSUME IInv, NEW c \in Calls, MapToByteBuf(c)
  PROVE  IInv'
<1> DEFINE v == "tracingMetadata"
<1>1. /\ Kind[c] = "deferred" /\ step[c] = 1
      /\ UNCHANGED <<started, once, unread, payload, sent>>
  BY AtStep DEF MapToByteBuf
<1>2. v \in Variable \ {"data"} /\ started[c] # 0
  BY <1>1 DEF Variable, IInv, CallInv, Owned
<1>3. step' = [step EXCEPT ![c] = @ + 1] =>
        /\ ~Owns(c, v) /\ Owns(c, v)'
        /\ \A w \in Variable \ {v} : Owns(c, w)' <=> Owns(c, w)
        /\ Filled(c)'
  <2>1. step' = [step EXCEPT ![c] = @ + 1] => step'[c] = 2
    BY <1>1 DEF IInv, Typed
  <2> QED
    BY <1>1, <2>1 DEF Owns, Variable, Filled
<1>4. CASE Allocate(c, v)
  <2>1. step' = [step EXCEPT ![c] = @ + 1]
    BY <1>4 DEF Allocate
  <2>2. once' \in [Calls -> BOOLEAN] /\ payload' \in [Calls -> Payload] /\ step[c] \in 1 .. 7
    BY <1>1 DEF IInv, Typed
  <2>3. /\ \A d \in Calls \ {c} : once'[d] = once[d] /\ payload'[d] = payload[d]
        /\ Kind[c] # "respond" \/ v # "metadataBuf"
    BY <1>1
  <2> QED
    BY <1>1, <1>2, <1>3, <1>4, <2>1, <2>2, <2>3, AllocateStep
<1>5. CASE /\ held' = [held EXCEPT ![c].tracingMetadata = EMPTY_BUFFER]
           /\ step' = [step EXCEPT ![c] = @ + 1]
           /\ UNCHANGED <<refs, failures>>
  <2>1. held' = [held EXCEPT ![c][v] = EMPTY_BUFFER]
    BY <1>5
  <2>2. step[c] \in 1 .. 7 /\ Kind[c] # "respond"
    BY <1>1
  <2> QED
    BY <1>1, <1>2, <1>3, <1>5, <2>1, <2>2, EmptyStep
<1>6. CASE Throw(c, "mapToByteBuf", [refs EXCEPT ![New(c, v)] = 1])
  <2> DEFINE count == [refs EXCEPT ![New(c, v)] = 1]
  <2>1. refs' = count /\ step' = [step EXCEPT ![c] = 0]
    BY <1>6 DEF Throw
  <2>2. refs' \in [Buffer -> {0, 1}] /\ refs'[New(c, v)] = 1 /\ ChangesOnly(c, v)
    BY <2>1, <1>2, RefsChange DEF IInv
  <2>3. \A d \in Calls, n \in 1 .. MaxPayloads, w \in Variable :
          d # c \/ n # started[c] => refs'[<<d, n, w>>] = refs[<<d, n, w>>]
    BY <2>2, <1>2, RefsOfOthers DEF IInv
  <2>4. refs'[New(c, "data")] = 0
    <3>1. refs[New(c, "data")] = 0
      BY <1>1 DEF IInv, CallInv, Owned, Owns, Variable
    <3>2. started[c] \in 1 .. MaxPayloads /\ New(c, "data") # New(c, v)
      BY <1>2, NewBuffer DEF IInv, New
    <3> QED
      BY <3>1, <3>2, <2>2 DEF ChangesOnly, New, Variable
  <2>5. Filled(c)' /\ SentRight(c)'
    <3>1. step'[c] = 0
      BY <2>1 DEF IInv, Typed
    <3> QED
      BY <1>1, <3>1 DEF IInv, CallInv, Filled, SentRight
  <2>6. Throw(c, "mapToByteBuf", count)
    BY <1>6
  <2>7. "mapToByteBuf" \in Instruction /\ "mapToByteBuf" # "serialize"
        /\ step[c] # 0 /\ once' \in [Calls -> BOOLEAN]
    BY <1>1 DEF IInv, Typed, Instruction
  <2> HIDE DEF count
  <2> QED
    BY <1>1, <2>1, <2>2, <2>3, <2>4, <2>5, <2>6, <2>7, ThrowStep
<1> QED
  BY <1>4, <1>5, <1>6 DEF MapToByteBuf

LEMMA EncodeStep ==
  ASSUME IInv, NEW c \in Calls, Encode(c)
  PROVE  IInv'
<1> DEFINE v == "metadataBuf"
           count == [refs EXCEPT ![New(c, v)] = 1]
<1>1. /\ Kind[c] \in {"deferred", "channel"} /\ step[c] = 2
      /\ Kind[c] = "channel" => ~once[c]
      /\ once' = [once EXCEPT ![c] = Kind[c] = "channel"]
      /\ UNCHANGED <<started, sent, unread>>
      /\ \/ Allocate(c, v) /\ payload' = [payload EXCEPT ![c].metadata = unread]
         \/ Throw(c, "encode", count) /\ UNCHANGED payload
  BY AtStep DEF Encode, encode
<1>2. v \in Variable /\ started[c] # 0 /\ started[c] \in 1 .. MaxPayloads
  BY <1>1, NewBuffer DEF Variable, IInv, CallInv, Owned
<1>3. /\ once' \in [Calls -> BOOLEAN] /\ \A d \in Calls \ {c} : once'[d] = once[d]
      /\ Kind[c] = "channel" => once'[c]
  BY <1>1 DEF IInv, Typed
<1>4. CASE Allocate(c, v) /\ payload' = [payload EXCEPT ![c].metadata = unread]
  <2>1. step'[c] = 3 /\ failures' = failures
    BY <1>1, <1>4 DEF Allocate, IInv, Typed
  <2>2. /\ payload' \in [Calls -> Payload] /\ payload'[c].metadata = TRUE
        /\ \A d \in Calls \ {c} : payload'[d] = payload[d]
    BY <1>4 DEF IInv, Typed, Payload
  <2>3. /\ ~Owns(c, v) /\ Owns(c, v)' /\ step[c] \in 1 .. 7
        /\ \A w \in Variable \ {v} : Owns(c, w)' <=> Owns(c, w)
    BY <1>1, <2>1 DEF Owns, Variable
  <2>4. Kind[c] = "channel" => sent[c] = <<>> /\ NoEncodeFailure(c) /\ NoEncodeFailure(c)'
    BY <1>1, <2>1 DEF IInv, CallInv, Filled, NoEncodeFailure
  <2>5. Filled(c)'
    BY <1>1, <1>3, <2>1, <2>2, <2>4 DEF Filled
  <2>6. \A d \in Calls \ {c} : once'[d] = once[d] /\ payload'[d] = payload[d]
    BY <1>3, <2>2
  <2>7. Kind[c] # "respond" \/ v # "metadataBuf"
    BY <1>1
  <2> QED
    BY <1>1, <1>2, <1>3, <1>4, <2>2, <2>3, <2>5, <2>6, <2>7, AllocateStep
<1>5. CASE Throw(c, "encode", count) /\ UNCHANGED payload
  <2>1. /\ refs' = count /\ step'[c] = 0
        /\ failures'[c] = failures[c] \union {<<started[c], "encode">>}
    BY <1>5 DEF Throw, IInv, Typed
  <2>2. refs' \in [Buffer -> {0, 1}] /\ ChangesOnly(c, v)
    BY <2>1, <1>2, RefsChange DEF IInv
  <2>3. \A d \in Calls, n \in 1 .. MaxPayloads, w \in Variable :
          d # c \/ n # started[c] => refs'[<<d, n, w>>] = refs[<<d, n, w>>]
    BY <2>2, <1>2, RefsOfOthers DEF IInv
  <2>4. /\ Kind[c] = "deferred" => refs'[New(c, "data")] = 0
        /\ Kind[c] # "deferred" => refs'[New(c, "tracingMetadata")] = 0
    <3>1. /\ Kind[c] = "deferred" => refs[New(c, "data")] = 0
          /\ Kind[c] # "deferred" => refs[New(c, "tracingMetadata")] = 0
      BY <1>1 DEF IInv, CallInv, Owned, Owns, Variable
    <3>2. New(c, "data") # New(c, v) /\ New(c, "tracingMetadata") # New(c, v)
      BY DEF New
    <3> QED
      BY <3>1, <3>2, <1>2, <2>2 DEF ChangesOnly, New, Variable
  <2>5. ~NoEncodeFailure(c)'
    <3>1. <<started[c], "encode">>[2] = "encode"
      OBVIOUS
    <3> QED
      BY <3>1, <2>1 DEF NoEncodeFailure
  <2>6. Kind[c] = "channel" => sent[c] = <<>>
    BY <1>1 DEF IInv, CallInv, Filled
  <2>7. Filled(c)'
    BY <1>1, <1>3, <2>1, <2>5 DEF Filled
  <2>8. SentRight(c)'
    <3>1. CASE Kind[c] = "channel"
      BY <3>1, <1>1, <2>6 DEF SentRight
    <3>2. CASE Kind[c] = "deferred"
      BY <3>2, <1>1 DEF IInv, CallInv, SentRight
    <3> QED
      BY <3>1, <3>2, <1>1
  <2>9. "encode" \in Instruction /\ "encode" # "serialize" /\ step[c] # 0
    BY <1>1 DEF Instruction
  <2> HIDE DEF count
  <2> QED
    BY <1>1, <1>3, <1>5, <2>1, <2>2, <2>3, <2>4, <2>7, <2>8, <2>9, ThrowStep
<1> QED
  BY <1>1, <1>4, <1>5

LEMMA NoMetadataStep ==
  ASSUME IInv, NEW c \in Calls, NoMetadata(c)
  PROVE  IInv'
<1> DEFINE v == "metadataBuf"
<1>1. /\ Kind[c] = "channel" /\ step[c] = 2 /\ once[c] /\ step[c] \in 1 .. 7
      /\ held' = [held EXCEPT ![c][v] = EMPTY_BUFFER]
      /\ step' = [step EXCEPT ![c] = @ + 1]
      /\ UNCHANGED <<started, once, refs, unread, payload, sent, failures>>
  <2>1. At(c, "encode")
    BY DEF NoMetadata
  <2>2. step[c] = 2
    BY <2>1, AtStep
  <2>3. held' = [held EXCEPT ![c][v] = EMPTY_BUFFER]
    BY DEF NoMetadata
  <2>4. Kind[c] = "channel" /\ once[c] /\ step' = [step EXCEPT ![c] = @ + 1]
    BY DEF NoMetadata
  <2>5. UNCHANGED <<started, once, refs, unread, payload, sent, failures>>
    BY DEF NoMetadata
  <2> QED
    BY <2>2, <2>3, <2>4, <2>5
<1>2. step'[c] = 3
  BY <1>1 DEF IInv, Typed
<1>3. /\ ~Owns(c, v) /\ Owns(c, v)' /\ v \in Variable \ {"data"} /\ Kind[c] # "respond"
      /\ \A w \in Variable \ {v} : Owns(c, w)' <=> Owns(c, w)
  BY <1>1, <1>2 DEF Owns, Variable
<1>4. Filled(c)'
  <2>1. NoEncodeFailure(c)' <=> NoEncodeFailure(c)
    BY <1>1 DEF NoEncodeFailure
  <2>2. ~payload[c].metadata /\ (sent[c] # <<>> \/ ~NoEncodeFailure(c))
    BY <1>1 DEF IInv, CallInv, Filled
  <2> QED
    BY <1>1, <1>2, <2>1, <2>2 DEF Filled
<1> QED
  BY <1>1, <1>3, <1>4, EmptyStep

LEMMA SerializeStep ==
  ASSUME IInv, NEW c \in Calls, Serialize(c)
  PROVE  IInv'
<1> DEFINE v == "data"
<1>1. /\ \/ Kind[c] = "deferred" /\ step[c] = 3
         \/ Kind[c] \in {"channel", "respond"} /\ step[c] = 1
      /\ UNCHANGED <<started, once, unread, payload, sent>>
      /\ Allocate(c, v) \/ Throw(c, "serialize", refs)
  BY AtStep DEF Serialize
<1>2. v \in Variable /\ step[c] # 0 /\ once' \in [Calls -> BOOLEAN]
      /\ payload' \in [Calls -> Payload] /\ step[c] \in 1 .. 7
  BY <1>1 DEF Variable, IInv, Typed
<1>3. CASE Allocate(c, v)
  <2>1. step'[c] = step[c] + 1 /\ failures' = failures
    BY <1>1, <1>3 DEF Allocate, IInv, Typed
  <2>2. /\ ~Owns(c, v) /\ Owns(c, v)'
        /\ \A w \in Variable \ {v} : Owns(c, w)' <=> Owns(c, w)
    BY <1>1, <2>1 DEF Owns, Variable
  <2>3. Filled(c)'
    BY <1>1, <2>1 DEF IInv, CallInv, Filled, NoEncodeFailure
  <2>4. /\ \A d \in Calls \ {c} : once'[d] = once[d] /\ payload'[d] = payload[d]
        /\ Kind[c] # "respond" \/ v # "metadataBuf"
    BY <1>1
  <2> QED
    BY <1>1, <1>2, <1>3, <2>2, <2>3, <2>4, AllocateStep
<1>4. CASE Throw(c, "serialize", refs)
  <2>1. step'[c] = 0 /\ failures'[c] = failures[c] \union {<<started[c], "serialize">>}
    BY <1>4 DEF Throw, IInv, Typed
  <2>2. NoEncodeFailure(c)' <=> NoEncodeFailure(c)
    <3>1. <<started[c], "serialize">>[2] = "serialize"
      OBVIOUS
    <3> QED
      BY <2>1, <3>1 DEF NoEncodeFailure
  <2>3. Filled(c)' /\ SentRight(c)'
    BY <1>1, <2>1, <2>2 DEF IInv, CallInv, Filled, SentRight
  <2>4. /\ Kind[c] # "deferred" => \A w \in Variable : refs[New(c, w)] = 0
        /\ refs[New(c, "data")] = 0
        /\ Kind[c] # "deferred" => refs[New(c, "tracingMetadata")] = 0
    BY <1>1 DEF IInv, CallInv, Owned, Owns, Variable
  <2>5. "serialize" \in Instruction /\ refs \in [Buffer -> {0, 1}]
    BY DEF Instruction, IInv, Typed
  <2> QED
    BY <1>1, <1>2, <1>4, <2>3, <2>4, <2>5, ThrowStep
<1> QED
  BY <1>1, <1>3, <1>4

LEMMA DefaultPayloadStep ==
  ASSUME IInv, NEW c \in Calls, DefaultPayload(c)
  PROVE  IInv'
<1>1. /\ \/ Kind[c] = "deferred" /\ step[c] = 4
         \/ Kind[c] = "channel" /\ step[c] = 3
         \/ Kind[c] = "respond" /\ step[c] = 2
      /\ payload' = [payload EXCEPT ![c].data = Live(held[c].data)]
      /\ step' = [step EXCEPT ![c] = @ + 1]
      /\ UNCHANGED <<started, once, held, refs, unread, sent, failures>>
  BY AtStep DEF DefaultPayload
<1>2. step'[c] = step[c] + 1 /\ step[c] # 0 /\ step'[c] # 0 /\ started[c] # 0
  BY <1>1 DEF IInv, Typed, CallInv, Owned
<1>3. Live(held[c].data)
  <2>1. held[c]["data"] = New(c, "data") /\ refs[New(c, "data")] = 1
    BY <1>1 DEF IInv, CallInv, Owned, Owns, Variable
  <2>2. New(c, "data") \in Buffer
    BY <1>2, NewBuffer DEF IInv, Variable
  <2> QED
    BY <2>1, <2>2 DEF Live
<1>4. /\ payload' \in [Calls -> Payload] /\ payload'[c].data
      /\ payload'[c].metadata = payload[c].metadata
      /\ \A d \in Calls \ {c} : payload'[d] = payload[d]
  BY <1>1, <1>3 DEF IInv, Typed, Payload
<1>5. Typed'
  BY <1>1, <1>4 DEF IInv, Typed
<1>6. \A d \in Calls \ {c} : SameFor(d)
  BY <1>1, <1>4 DEF SameFor, IInv, Typed
<1>7. Left(c)'
  BY <1>1, <1>2, LeftBusy DEF IInv, CallInv
<1>8. Owned(c)'
  <2>1. \A w \in Variable : (Owns(c, w)' <=> Owns(c, w)) /\ New(c, w)' = New(c, w)
    BY <1>1, <1>2 DEF Owns, New, Variable
  <2> QED
    BY <2>1, <1>1, <1>2 DEF IInv, CallInv, Owned
<1>9. NoEncodeFailure(c)' <=> NoEncodeFailure(c)
  BY <1>1 DEF NoEncodeFailure
<1>10. Filled(c)'
  BY <1>1, <1>2, <1>4, <1>9 DEF IInv, CallInv, Filled
<1>11. SentRight(c)'
  BY <1>1, <1>9 DEF IInv, CallInv, SentRight
<1> QED
  BY <1>5, <1>6, <1>7, <1>8, <1>10, <1>11, OneCall DEF CallInv

LEMMA ReleaseStep ==
  ASSUME IInv, NEW c \in Calls, Release(c)
  PROVE  IInv'
<1>1. PICK v \in Variable :
        /\ At(c, v)
        /\ refs' = IF held[c][v] = EMPTY_BUFFER THEN refs
                   ELSE [refs EXCEPT ![held[c][v]] = @ - 1]
        /\ step' = [step EXCEPT ![c] = @ + 1]
        /\ UNCHANGED <<started, once, held, unread, payload, sent, failures>>
  BY DEF Release
<1>2. \/ v = "tracingMetadata" /\ Kind[c] = "deferred" /\ step[c] = 5
      \/ v = "metadataBuf" /\ Kind[c] = "deferred" /\ step[c] = 6
      \/ v = "metadataBuf" /\ Kind[c] = "channel" /\ step[c] = 4
      \/ v = "data" /\ Kind[c] = "deferred" /\ step[c] = 7
      \/ v = "data" /\ Kind[c] = "channel" /\ step[c] = 5
      \/ v = "data" /\ Kind[c] = "respond" /\ step[c] = 3
  BY <1>1, AtStep DEF Variable
<1>3. /\ step'[c] = step[c] + 1 /\ step[c] # 0 /\ step'[c] # 0
      /\ step' \in [Calls -> 0 .. 8] /\ started[c] # 0
  BY <1>1, <1>2 DEF IInv, Typed, CallInv, Owned
<1>4. /\ Owns(c, v) /\ ~Owns(c, v)'
      /\ \A w \in Variable \ {v} : Owns(c, w)' <=> Owns(c, w)
  BY <1>2, <1>3 DEF Owns, Variable
<1>5. \/ held[c][v] = New(c, v) /\ refs[New(c, v)] = 1
      \/ held[c][v] = EMPTY_BUFFER /\ refs[New(c, v)] = 0
  BY <1>3, <1>4 DEF IInv, CallInv, Owned
<1>6. refs' \in [Buffer -> {0, 1}] /\ refs'[New(c, v)] = 0 /\ ChangesOnly(c, v)
  <2>1. CASE held[c][v] = EMPTY_BUFFER /\ refs[New(c, v)] = 0
    BY <2>1, <1>1 DEF IInv, Typed, ChangesOnly
  <2>2. CASE held[c][v] = New(c, v) /\ refs[New(c, v)] = 1
    <3>1. New(c, v) \in Buffer /\ New(c, v) # EMPTY_BUFFER
      BY <1>3, NewBuffer DEF IInv
    <3>2. refs' = [refs EXCEPT ![New(c, v)] = 0]
      BY <2>2, <3>1, <1>1 DEF IInv, Typed
    <3> QED
      BY <3>2, <1>3, RefsChange DEF IInv
  <2> QED
    BY <1>5, <2>1, <2>2
<1>7. Typed'
  BY <1>1, <1>3, <1>6 DEF IInv, Typed
<1>8. \A d \in Calls \ {c} : SameFor(d)
  <2> SUFFICES ASSUME NEW d \in Calls \ {c} PROVE SameFor(d)
    OBVIOUS
  <2>1. \A n \in 1 .. MaxPayloads, w \in Variable : refs'[<<d, n, w>>] = refs[<<d, n, w>>]
    BY <1>6, RefsOfOthers DEF IInv
  <2> QED
    BY <2>1, <1>1 DEF SameFor, IInv, Typed
<1>9. Left(c)'
  <2>1. \A n \in 1 .. MaxPayloads, w \in Variable :
          n # started[c] => refs'[<<c, n, w>>] = refs[<<c, n, w>>]
    BY <1>6, RefsOfOthers DEF IInv
  <2> QED
    BY <2>1, <1>1, <1>3, LeftBusy DEF IInv, CallInv
<1>10. Owned(c)'
  <2>1. \A w \in Variable : New(c, w)' = New(c, w)
    BY <1>1 DEF New
  <2>2. \A w \in Variable \ {v} : refs'[New(c, w)] = refs[New(c, w)]
    <3>1. \A w \in Variable \ {v} : New(c, w) # New(c, v)
      BY DEF New
    <3>2. started[c] \in 1 .. MaxPayloads
      BY <1>3, NewBuffer DEF IInv
    <3> QED
      BY <3>1, <3>2, <1>6 DEF ChangesOnly, New
  <2> QED
    BY <2>1, <2>2, <1>1, <1>3, <1>4, <1>6 DEF IInv, CallInv, Owned
<1>11. NoEncodeFailure(c)' <=> NoEncodeFailure(c)
  BY <1>1 DEF NoEncodeFailure
<1>12. Filled(c)'
  BY <1>1, <1>2, <1>3, <1>11 DEF IInv, CallInv, Filled
<1>13. SentRight(c)'
  BY <1>1, <1>11 DEF IInv, CallInv, SentRight
<1> QED
  BY <1>7, <1>8, <1>9, <1>10, <1>12, <1>13, OneCall DEF CallInv

LEMMA StartStep ==
  ASSUME IInv, NEW c \in Calls, Start(c)
  PROVE  IInv'
<1>1. /\ step[c] = 0 /\ started[c] < MaxPayloads
      /\ started' = [started EXCEPT ![c] = @ + 1]
      /\ step' = [step EXCEPT ![c] = 1]
      /\ payload' = [payload EXCEPT ![c] = NoPayload]
      /\ UNCHANGED <<once, held, refs, unread, sent, failures>>
  BY DEF Start, Idle
<1>2. NoPayload \in Payload /\ ~NoPayload.metadata
  BY DEF NoPayload, Payload
<1>3. started[c] \in Nat /\ MaxPayloads \in Nat /\ started[c] + 1 \in 1 .. MaxPayloads
  BY <1>1, CallsAssumption DEF IInv, Typed
<1>4. Typed'
  BY <1>1, <1>2, <1>3 DEF IInv, Typed
<1>5. /\ step'[c] = 1 /\ started'[c] = started[c] + 1 /\ payload'[c] = NoPayload
      /\ \A d \in Calls \ {c} :
           step'[d] = step[d] /\ started'[d] = started[d] /\ payload'[d] = payload[d]
  BY <1>1 DEF IInv, Typed
<1>6. \A d \in Calls \ {c} : SameFor(d)
  BY <1>1, <1>5 DEF SameFor
<1>7. Owned(c)'
  <2>1. \A v \in Variable : ~Owns(c, v)' /\ New(c, v)' = <<c, started[c] + 1, v>>
    BY <1>5 DEF Owns, New
  <2>2. \A v \in Variable : refs[<<c, started[c] + 1, v>>] = 0
    BY <1>3 DEF IInv, CallInv, Left
  <2> QED
    BY <2>1, <2>2, <1>1, <1>3, <1>5 DEF IInv, CallInv, Owned
<1>8. Left(c)'
  <2>1. \A f \in failures'[c] : f[1] <= started'[c] /\ (f[1] = started'[c] => step'[c] = 0)
    <3> SUFFICES ASSUME NEW f \in failures[c]
                 PROVE  f[1] <= started[c] + 1 /\ f[1] # started[c] + 1
      BY <1>1, <1>5
    <3>1. f[1] \in Nat /\ f[1] <= started[c]
      BY DEF IInv, Typed, CallInv, Left
    <3> QED
      BY <3>1, <1>3
  <2>2. \A n \in 1 .. MaxPayloads : n > started'[c] => n > started[c]
    BY <1>3, <1>5
  <2>3. \A n \in 1 .. MaxPayloads : n < started'[c] \/ (n = started'[c] /\ step'[c] = 0) =>
          n < started[c] \/ (n = started[c] /\ step[c] = 0)
    BY <1>1, <1>3, <1>5
  <2>4. Left(c) /\ refs' = refs /\ failures' = failures
    BY <1>1 DEF IInv, CallInv
  <2> QED
    BY <2>1, <2>2, <2>3, <2>4 DEF Left
<1>9. NoEncodeFailure(c)' <=> NoEncodeFailure(c)
  BY <1>1 DEF NoEncodeFailure
<1>10. Filled(c)'
  BY <1>1, <1>2, <1>5, <1>9 DEF IInv, CallInv, Filled
<1>11. SentRight(c)'
  BY <1>1, <1>9 DEF IInv, CallInv, SentRight
<1> QED
  BY <1>4, <1>6, <1>7, <1>8, <1>10, <1>11, OneCall DEF CallInv

LEMMA SendStep ==
  ASSUME IInv, NEW c \in Calls, Send(c)
  PROVE  IInv'
<1>1. /\ \/ Kind[c] = "deferred" /\ step[c] = 8
         \/ Kind[c] = "channel" /\ step[c] = 6
         \/ Kind[c] = "respond" /\ step[c] = 4
      /\ sent' = [sent EXCEPT ![c] = Append(@, payload[c])]
      /\ held' = [held EXCEPT ![c] = [v \in Variable |-> NoBuffer]]
      /\ step' = [step EXCEPT ![c] = 0]
      /\ UNCHANGED <<started, once, refs, unread, payload, failures>>
  BY AtStep DEF Send
<1>2. payload[c] \in Payload /\ sent[c] \in Seq(Payload) /\ step[c] # 0
  BY <1>1 DEF IInv, Typed
<1>3. Typed'
  BY <1>1, <1>2 DEF IInv, Typed
<1>4. /\ step'[c] = 0 /\ held'[c] = [v \in Variable |-> NoBuffer]
      /\ sent'[c] = Append(sent[c], payload[c])
      /\ \A d \in Calls \ {c} :
           step'[d] = step[d] /\ held'[d] = held[d] /\ sent'[d] = sent[d]
  BY <1>1 DEF IInv, Typed
<1>5. \A d \in Calls \ {c} : SameFor(d)
  BY <1>1, <1>4 DEF SameFor
<1>6. Owned(c)'
  BY <1>4 DEF Owned, Variable
<1>7. Left(c)'
  <2>1. started[c] \in 1 .. MaxPayloads /\ MaxPayloads \in Nat
    BY <1>2, NewBuffer, CallsAssumption DEF IInv, CallInv, Owned
  <2>2. \A v \in Variable : refs[<<c, started[c], v>>] = 0
    <3>1. \A v \in Variable : ~Owns(c, v)
      BY <1>1 DEF Owns
    <3> QED
      BY <3>1, <1>2 DEF IInv, CallInv, Owned, New
  <2>3. <<started[c], "serialize">> \notin failures[c]
    BY <1>2 DEF IInv, CallInv, Left
  <2>4. \A f \in failures'[c] : f[1] <= started'[c] /\ (f[1] = started'[c] => step'[c] = 0)
    BY <1>1, <1>4 DEF IInv, CallInv, Left
  <2>5. ASSUME NEW n \in 1 .. MaxPayloads, n < started'[c] \/ (n = started'[c] /\ step'[c] = 0)
        PROVE  /\ \A v \in Variable : refs'[<<c, n, v>>] = 1 =>
                    \E i \in Instruction : <<n, i>> \in failures'[c]
               /\ <<n, "serialize">> \in failures'[c] =>
                    /\ refs'[<<c, n, "data">>] = 0
                    /\ Kind[c] # "deferred" => \A v \in Variable : refs'[<<c, n, v>>] = 0
               /\ Kind[c] = "deferred" => refs'[<<c, n, "data">>] = 0
               /\ Kind[c] # "deferred" => refs'[<<c, n, "tracingMetadata">>] = 0
    <3>1. CASE n < started[c]
      BY <3>1, <1>1 DEF IInv, CallInv, Left
    <3>2. CASE n = started[c]
      BY <3>2, <1>1, <2>2, <2>3 DEF Variable
    <3> QED
      BY <2>5, <1>1, <3>1, <3>2
  <2>6. \A n \in 1 .. MaxPayloads : n > started'[c] =>
          \A v \in Variable : refs'[<<c, n, v>>] = 0
    BY <1>1 DEF IInv, CallInv, Left
  <2> QED
    BY <2>4, <2>5, <2>6 DEF Left
<1>8. NoEncodeFailure(c)' <=> NoEncodeFailure(c)
  BY <1>1 DEF NoEncodeFailure
<1>9. sent'[c] # <<>> /\ Len(sent'[c]) = Len(sent[c]) + 1 /\ Len(sent[c]) \in Nat
      /\ sent'[c][Len(sent[c]) + 1] = payload[c]
      /\ \A n \in 1 .. Len(sent[c]) : sent'[c][n] = sent[c][n]
  BY <1>2, <1>4
<1>10. Filled(c)'
  <2>1. Kind[c] = "channel" => once[c]
    BY <1>1 DEF IInv, CallInv, Filled
  <2> QED
    BY <2>1, <1>1, <1>4, <1>9 DEF Filled
<1>11. SentRight(c)'
  <2>1. /\ payload[c].data /\ (Kind[c] = "deferred" => payload[c].metadata)
        /\ Kind[c] = "channel" =>
             (payload[c].metadata <=> sent[c] = <<>> /\ NoEncodeFailure(c))
    BY <1>1 DEF IInv, CallInv, Filled
  <2>2. sent[c] = <<>> <=> Len(sent[c]) + 1 = 1
    BY <1>2
  <2> SUFFICES ASSUME NEW n \in 1 .. Len(sent'[c])
               PROVE  /\ sent'[c][n].data
                      /\ Kind[c] = "deferred" => sent'[c][n].metadata
                      /\ Kind[c] = "channel" =>
                           (sent'[c][n].metadata <=> n = 1 /\ NoEncodeFailure(c)')
    BY DEF SentRight
  <2>3. CASE n = Len(sent[c]) + 1
    BY <2>1, <2>2, <2>3, <1>8, <1>9
  <2>4. CASE n # Len(sent[c]) + 1
    <3>1. n \in 1 .. Len(sent[c])
      BY <2>4, <1>9
    <3> QED
      BY <3>1, <1>8, <1>9 DEF IInv, CallInv, SentRight
  <2> QED
    BY <2>3, <2>4
<1> QED
  BY <1>3, <1>5, <1>6, <1>7, <1>10, <1>11, OneCall DEF CallInv

-----------------------------------------------------------------------------
LEMMA InitIInv == Init => IInv
<1> SUFFICES ASSUME Init PROVE IInv
  OBVIOUS
<1>1. Typed
  BY CallsAssumption DEF Init, Typed, Payload, NoPayload
<1>2. ASSUME NEW c \in Calls PROVE CallInv(c)
  <2>1. /\ step[c] = 0 /\ started[c] = 0 /\ once[c] = FALSE /\ failures[c] = {}
        /\ sent[c] = <<>> /\ held[c]["metadataBuf"] = NoBuffer
        /\ \A n \in 1 .. MaxPayloads, v \in Variable : refs[<<c, n, v>>] = 0
    BY DEF Init, Buffer, Variable
  <2>2. Owned(c) /\ Left(c)
    BY <2>1, CallsAssumption DEF Owned, Left, Variable
  <2>3. Filled(c) /\ SentRight(c)
    BY <2>1 DEF Filled, SentRight, NoEncodeFailure
  <2> QED
    BY <2>2, <2>3 DEF CallInv
<1> QED
  BY <1>1, <1>2 DEF IInv

LEMMA NextIInv == IInv /\ [Next]_vars => IInv'
<1> SUFFICES ASSUME IInv, [Next]_vars PROVE IInv'
  OBVIOUS
<1>1. CASE Next
  BY <1>1, StartStep, MapToByteBufStep, EncodeStep, NoMetadataStep, SerializeStep,
     DefaultPayloadStep, ReleaseStep, SendStep DEF Next
<1>2. CASE UNCHANGED vars
  <2>1. \A c \in Calls : SameFor(c)
    BY <1>2 DEF vars, SameFor
  <2>2. Typed'
    BY <1>2 DEF vars, IInv, Typed
  <2> QED
    BY <2>1, <2>2, OthersKept DEF IInv
<1> QED
  BY <1>1, <1>2

LEMMA Invariance == Spec => []IInv
BY InitIInv, NextIInv, PTL DEF Spec

(* The statement a call is at uses only what its variables own. *)
LEMMA UsesOwned ==
  ASSUME NEW c \in Calls, NEW i, At(c, i), NEW v \in Uses(Kind[c], i)
  PROVE  v \in Variable /\ Owns(c, v)
<1>1. \/ i = "encode" /\ Kind[c] = "deferred" /\ v = "tracingMetadata"
      \/ i = "DefaultPayload" /\ Kind[c] = "respond" /\ v = "data"
      \/ i = "DefaultPayload" /\ Kind[c] # "respond" /\ v \in {"data", "metadataBuf"}
      \/ i \in Variable /\ v = i
  BY DEF Uses
<1>2. v \in Variable
  BY <1>1 DEF Variable
<1>3. CASE i = "encode" /\ Kind[c] = "deferred" /\ v = "tracingMetadata"
  <2>1. At(c, "encode")
    BY <1>3 DEF At
  <2>2. step[c] = 2
    BY <2>1, AtStep
  <2> QED
    BY <1>3, <2>2 DEF Owns, Variable
<1>4. CASE i = "DefaultPayload" /\ v \in {"data", "metadataBuf"}
                               /\ (Kind[c] = "respond" => v = "data")
  <2>1. At(c, "DefaultPayload")
    BY <1>4 DEF At
  <2>2. \/ Kind[c] = "deferred" /\ step[c] = 4
        \/ Kind[c] = "channel" /\ step[c] = 3
        \/ Kind[c] = "respond" /\ step[c] = 2
    BY <2>1, AtStep
  <2> QED
    BY <1>4, <2>2 DEF Owns, Variable
<1>5. CASE i \in Variable /\ v = i
  BY <1>5, AtStep DEF Owns, Variable
<1> QED
  BY <1>1, <1>2, <1>3, <1>4, <1>5

(* Whatever fails and however the calls interleave, each statement of the  *)
(* generated code, encode's reading of the tracing bytes included, finds   *)
(* the buffers that it reads or releases live.                             *)
THEOREM BuffersUsedWhileLive == Spec => []NoUseAfterRelease
<1>1. ASSUME IInv PROVE NoUseAfterRelease
  <2>1. \A b \in Buffer : refs[b] \in {0, 1}
    BY <1>1 DEF IInv, Typed
  <2>2. ASSUME NEW c \in Calls, NEW v \in Variable, Owns(c, v)
        PROVE  Live(held[c][v])
    <3>1. step[c] # 0 /\ started[c] # 0
      BY <1>1, <2>2 DEF IInv, CallInv, Owned, Owns
    <3>2. New(c, v) \in Buffer
      BY <1>1, <3>1, NewBuffer DEF IInv
    <3>3. \/ held[c][v] = New(c, v) /\ refs[New(c, v)] = 1
          \/ held[c][v] = EMPTY_BUFFER
      BY <1>1, <2>2, <3>1 DEF IInv, CallInv, Owned
    <3> QED
      BY <3>2, <3>3 DEF Live
  <2>3. ASSUME NEW c \in Calls, step[c] \in DOMAIN Program(Kind[c]),
               NEW v \in Uses(Kind[c], Program(Kind[c])[step[c]])
        PROVE  Live(held[c][v])
    <3>1. At(c, Program(Kind[c])[step[c]])
      BY <2>3 DEF At
    <3>2. v \in Variable /\ Owns(c, v)
      BY <2>3, <3>1, UsesOwned
    <3> QED
      BY <3>2, <2>2
  <2> QED
    BY <2>1, <2>3 DEF NoUseAfterRelease
<1> QED
  BY <1>1, Invariance, PTL

(* A buffer is left behind only by the payload whose statement threw, of a *)
(* message that cannot be serialized nothing but what a deferred call has  *)
(* encoded before it, and never all three buffers.                         *)
THEOREM LeaksBounded == Spec => []LeaksOnlyByFailure
<1>1. ASSUME IInv PROVE LeaksOnlyByFailure
  <2> SUFFICES ASSUME NEW c \in Calls, step[c] = 0, NEW n \in 1 .. started[c]
               PROVE  /\ Leaked(c, n) # {} =>
                           \E i \in {"mapToByteBuf", "encode", "serialize"} :
                             <<n, i>> \in failures[c]
                      /\ <<n, "serialize">> \in failures[c] =>
                           /\ "data" \notin Leaked(c, n)
                           /\ Kind[c] # "deferred" => Leaked(c, n) = {}
                      /\ Cardinality(Leaked(c, n)) <= 2
    BY DEF LeaksOnlyByFailure, Idle
  <2>1. n \in 1 .. MaxPayloads /\ (n < started[c] \/ n = started[c])
    BY <1>1, CallsAssumption DEF IInv, Typed
  <2>2. \A v \in Variable : <<c, n, v>> \in Buffer /\ refs[<<c, n, v>>] \in {0, 1}
    BY <1>1, <2>1 DEF Buffer, IInv, Typed
  <2>3. /\ \A v \in Variable : refs[<<c, n, v>>] = 1 =>
             \E i \in Instruction : <<n, i>> \in failures[c]
        /\ <<n, "serialize">> \in failures[c] =>
             /\ refs[<<c, n, "data">>] = 0
             /\ Kind[c] # "deferred" => \A v \in Variable : refs[<<c, n, v>>] = 0
        /\ Kind[c] = "deferred" => refs[<<c, n, "data">>] = 0
        /\ Kind[c] # "deferred" => refs[<<c, n, "tracingMetadata">>] = 0
    BY <1>1, <2>1 DEF IInv, CallInv, Left
  <2>4. \A v : v \in Leaked(c, n) <=> v \in Variable /\ refs[<<c, n, v>>] = 1
    BY <2>2 DEF Leaked
  <2>5. Cardinality(Leaked(c, n)) <= 2
    <3>1. PICK u \in Variable : u \notin Leaked(c, n)
      BY <2>3, <2>4 DEF Variable
    <3>2. PICK v, w \in Variable : Leaked(c, n) \subseteq {v, w} /\ v # w
      BY <3>1, <2>4 DEF Variable
    <3>3. IsFiniteSet({v, w}) /\ Cardinality({v, w}) = 2
      <4>1. {v, w} = {v} \cup {w} /\ w \notin {v}
        BY <3>2
      <4>2. IsFiniteSet({v}) /\ Cardinality({v}) = 1
        BY FS_Singleton
      <4> QED
        BY <4>1, <4>2, FS_AddElement
    <3>4. Cardinality(Leaked(c, n)) <= Cardinality({v, w})
      BY <3>2, <3>3, FS_Subset
    <3> QED
      BY <3>3, <3>4
  <2>6. Leaked(c, n) # {} => \E i \in {"mapToByteBuf", "encode", "serialize"} :
                               <<n, i>> \in failures[c]
    BY <2>3, <2>4 DEF Instruction
  <2>7. ASSUME <<n, "serialize">> \in failures[c]
        PROVE  "data" \notin Leaked(c, n) /\ (Kind[c] # "deferred" => Leaked(c, n) = {})
    <3>1. "data" \notin Leaked(c, n)
      BY <2>3, <2>4, <2>7
    <3>2. ASSUME Kind[c] # "deferred" PROVE Leaked(c, n) = {}
      <4>1. \A v \in Variable : refs[<<c, n, v>>] = 0
        BY <2>3, <2>7, <3>2
      <4>2. \A v \in Variable : ~(refs[<<c, n, v>>] > 0)
        BY <4>1
      <4> QED
        BY <4>2 DEF Leaked
    <3> QED
      BY <3>1, <3>2
  <2> QED
    BY <2>5, <2>6, <2>7
<1> QED
  BY <1>1, Invariance, PTL

(* However often the calls that share a caller's metadata are subscribed,  *)
(* every payload has its data, every payload of a deferred call has the    *)
(* metadata, and of a channel's payloads the first that reached encode.    *)
THEOREM MetadataSent == Spec => []MetadataForEveryAttempt
<1>1. ASSUME IInv PROVE MetadataForEveryAttempt
  <2> SUFFICES ASSUME NEW c \in Calls, NEW n \in 1 .. Len(sent[c])
               PROVE  /\ sent[c][n].data
                      /\ Kind[c] = "deferred" => sent[c][n].metadata
                      /\ Kind[c] = "channel" =>
                           sent[c][n].metadata =
                             (n = 1 /\ \A f \in failures[c] : f[2] # "encode")
    BY DEF MetadataForEveryAttempt
  <2>1. /\ sent[c][n].data
        /\ Kind[c] = "deferred" => sent[c][n].metadata
        /\ Kind[c] = "channel" => (sent[c][n].metadata <=> n = 1 /\ NoEncodeFailure(c))
    BY <1>1 DEF IInv, CallInv, SentRight
  <2>2. sent[c][n].metadata \in BOOLEAN
    <3>1. sent[c] \in Seq(Payload)
      BY <1>1 DEF IInv, Typed
    <3>2. sent[c][n] \in Payload
      BY <3>1
    <3> QED
      BY <3>2 DEF Payload
  <2> QED
    BY <2>1, <2>2 DEF NoEncodeFailure
<1> QED
  BY <1>1, Invariance, PTL
=============================================================================
