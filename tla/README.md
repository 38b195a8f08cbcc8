# Verification of RSocket RPC for Kotlin

TLA+ models, TLC runs and TLAPS proofs for the RPC layer in `src/`: the
responder and codec written in Kotlin (`rsocket-rpc-core`) and the client and
server code that the protoc plugin generates (`rsocket-rpc-protobuf`).

## The system

| Part | State | Operations | Interacts with |
|---|---|---|---|
| `RequestHandlingRSocket` | `registeredServices`, a concurrent map | `addService`; `fireAndForget`, `requestResponse`, `requestStream`, `requestChannel` | reads the route with `Metadata`, hands the payload to a generated server, splits channels with `StreamSplitter` |
| `StreamSplitter` | `first`, the UnicastProcessor `rest` | `split`: head and tail of a channel | feeds `rest` from the requester's flow; flatMap and the service consume |
| `Metadata` | none (bytes) | `encode`, `getVersion`, `getService`, `getMethod`, `getTracing`, `getMetadata` | written by the generated client, read by responder and server |
| `Tracing` | none (bytes, map) | `mapToByteBuf`, `deserializeTracingMetadata`, `trace`, `traceAsChild` | client and server compose `TraceOperator` through it |
| `TraceSubscriber` (made by `TraceOperator`) | `upstream`, span, root span, its AtomicBoolean | `onSubscribe`, `onNext`, `onComplete`, `onError`, `request`, `cancel`, `cleanup` | between the flow of a call and its consumer; calls the tracer |
| Generated client | per call: `map`, and `once` for a channel | one method per RPC | `RSocket`, `Tracing`, `Metadata` |
| Generated server | the implementation it wraps | the four handlers, dispatch by method name | `Tracing`, `Metadata`, the implementation |
| Generated interface | none | default methods: "not implemented" | implemented by service and client |
| protoc plugin and generator | per file: the Printer's indentation, one table of variables for all loops | `reactor`, `GenerateInterface`, `GenerateClient`, `GenerateServer`, `WriteDocComment...` | prints the three generated parts above |
| `options.pb`, annotations, test transport | - | data, I/O | not modelled, see the end |

What is hard here is concurrent or at a boundary: the requester's thread, the
threads of the service, and cancellations act on one channel at once; a
terminal signal reaches `rest` before flatMap; completion, failure and
cancellation race into `cleanup`; calls share spans; re-subscriptions share a
call's state and its caller's buffers; lengths are written unsigned and read
signed; and the generator derives from the flags of a method, in a dozen places
with tests in different orders, what has to agree. `PROJECT.json` lists these hazards at
their lines, with the properties that watch them.

## Modules

**RequestChannel** models one channel on the responder: `split`
(`StreamSplitter.kt`), the flatMap of `RequestHandlingRSocket.requestChannel`, and
the flow `publisher.startWith(payload).map(deserializer)` that the generated
server hands to the service. State: the requester's flow (`up`, `emitted`,
`demand`, `first`), the UnicastProcessor (`queue`, `restEnd`, `restCancelled`,
`owner`), the response and merged flows (`inner`, `down`), and per subscriber of
`message` its state, demand and what it received. Actions are the signals of the
requester (`HeadRouted`, `HeadRejected`, `TailArrives`, `RequesterCompletes`,
`RequesterFails`, and the second half of an end, `FlatMapOnComplete` and
`FlatMapOnError`), what subscribers do (`Subscribe`, `Request`, `Cancel`,
`DeserializeError`), deliveries, and the ends of the response. startWith hands out
the head (`DeliverHead`) and subscribes to `rest` when the service's `onNext` has
returned (`JoinRest`): in between, another subscriber may join first, and one that
cancels never joins, which leaves `rest` to the next. When the requester fails,
`FlatMapOnError` passes the error on and leaves the response running, as flatMap of
RxJava 2.2.12 does, the version in the repository's lock files (from 2.2.17 on it
would cancel it). A head that is rejected (`inner = "rejected"`) gives no service
`message` to subscribe to. RxJava's
UnicastProcessor, filter and flatMap are external and modelled by their
documented behaviour as this code uses them: one subscriber ever, terminal
signals after the buffer, one request per filtered element, maxConcurrency
outstanding.

**MessageStream** is the abstract specification of `message` for the service:
every subscriber sees the head; the first to go on after it becomes the reader of
the rest and of the end, and whoever goes on later fails. One that leaves at the
head is not the reader. It knows no buffer, demand or flatMap.
`RequestChannel` implements it under the mapping `Stream`.

**TraceSubscriber** models one subscription through a `TraceSubscriber`:
threads `subscriber`, `emitter` and one per call of `cancel`, each with a program
counter; `compareAndSet`, `span.finish` and `rootSpan.finish` are separate steps. A
tracer that throws while a scope is active is a choice of the initial state
(`reliable`). Downstream follows Reactive Streams rule 2.5, as RxJava's
operators do: it cancels a subscription it is given when it has one.

**TracedCalls** models several traced calls on threads that have an active span
each: a call takes the span that is active where it is subscribed as its root
(unless a server was sent a context), its handlers activate its own span around
what downstream does, and other calls may be subscribed, ended and cancelled in
there. State: per call its root and whether its cleanup ran, per thread the stack
of handlers and the active span, and how often each span was finished. A handler
is entered and left; the race of one call's handlers is `TraceSubscriber`'s.

**Metadata** has the frame's codec as operators over byte sequences; what may
throw returns a set with one element or none. **CallMetadata** is the way of
everything a call carries beside its message: `mapToByteBuf` entry by entry into
a buffer with a capacity, `encode`, the service read by
`RequestHandlingRSocket`, and `deserializeTracingMetadata` with `byteBufToMap`.
`reserveAndWriteUtf8` does not check bounds beyond what it is told to reserve;
what a write behind the capacity does depends on the kind of buffer, so it is a
choice: it throws, the bytes stay, or they are lost.

**CallBuffers** models the reference counts behind the payloads of generated
code. A call is a program of the instructions that the generator prints
(`Deferred`, `Channel`, `Respond`), each with the buffers that it reads or
releases (`Uses`); those that allocate may throw, which skips the rest of it. All calls may be given the same buffer of metadata.

**RpcCall** models calls from the generated client through
`RequestHandlingRSocket` to the generated server and implementation, with
several subscriptions (attempts) per call that may overlap, services registered
and replaced meanwhile, and servers generated from another version of the
`.proto` file. `ClientInteraction` and `ServerInteraction` are translated from
the two different places of the generator that classify methods.

**Generator** models the plugin: for every service an interface, a client and a
server, each section a loop over the methods. What is printed is kept as
declarations (constants, functions with their types and the interaction they
use, tracers, branches of the handlers' `when`), made from the values the shared
table of variables has at that moment; `handled` has the vectors into which the
server's methods are collected before its handlers are printed; braces and `Indent`/`Outdent` are kept as
tokens. **MethodNames** derives identifiers from method names. **DocComment** is
the way of a comment from the `.proto` file into the source: escaping, splitting
into lines, printing.

The `MC...` modules give the instances. Definitions that nothing uses are faulty
variants of the definition after them; `PROJECT.json` pairs each with the
property that must notice it.

## Runs

| Run | Question | Bounds |
|---|---|---|
| `channel` | order, completeness, single reader, demand, closing of the halves, nothing left behind; does it implement `MessageStream`; do readers and the merged flow hear of the end | 2 subscribers, 4 payloads, concurrency 2, demand 2 |
| `trace_cleanup` | spans finished once and always; completions delivered | 2 cancellers, 2 items |
| `trace_subscribed_once` | violated: downstream gets two `onSubscribe` | same |
| `trace_error_delivered` | violated: errors do not reach downstream | same |
| `traced_calls` | how often spans are finished and by whom; active spans restored | 2 client calls, 1 server call, 2 threads, handlers nested 2 deep |
| `rpc_call` | is what is invoked what was called; what attempts of a call share | 1 call, 3 attempts, all 8 descriptors, 4 servers, 2 services |
| `call_metadata` | round trip of route, map and metadata; never routed to a wrong name; no invented entries | 2-bit bytes, buffers of 8, maps of up to 2 entries, lengths 0 to 18 |
| `call_metadata_readable` | violated: accepted names that cannot be read | same |
| `call_metadata_written` | violated: accepted maps that overrun the buffer | same |
| `call_buffers` | nothing read or released that is not live; leaks only by exceptions; metadata in every payload that needs it | a call of each kind, 2 payloads each |
| `generator` | interface, client and server agree and are well-formed | 1 service with up to 2 methods of any flags under 5 names; 2 services with up to 1 method |
| `doc_comment` | a comment is closed by its footer only, and shows its text | all comments of up to 5 characters of 5 kinds |

Why the bounds suffice. Two subscribers give a reader and a refused one, in
either order and attached or not; the head and three more payloads let the
buffer grow, drain and be dropped in the middle; concurrency 2 tells the
response's slot from the others. `MaxPayloads`, `MaxDemand`, `MaxItems` and
`MaxAttempts` only limit how often an input happens, and the proofs do not
depend on their values. Two cancellers, the emitter and the subscriber's own
cancellation make four threads in `cleanup`. Of the calls in `traced_calls` one
can be the root of another, share a root with it, or have none, across threads
or nested. Calls in `RpcCall` share nothing but the registry (`map` and `once`
are locals of the client method), so that one call with three attempts has all
the sharing there is. With bytes of 2 bits a short has 4 bits: 7, 8, 15 and 16
stand where 32767, 32768, 65535 and 65536 do, and the lengths around them, and
around the sizes of the fixed fields, are all present; a buffer of 8 bytes that
doubles (`InitialCapacity`, `Capacities`) is overrun, or just not, by maps of one
and of two entries. Loops of the generator treat methods one by one, so that two
show whatever one leaves behind in the variables for the next; the names differ
in case and underscores only, or in a letter. Escaping looks at two characters
and a line's leader at its first, so that five have room for every delimiter
around an escape and a newline.

A channel, a subscription, a frame, a call's payloads and a generated file end, so
those runs do not check deadlock; in `RpcCall` a service can always be
registered.

**Fairness.** `RequestChannel`: the thread that told `rest` of an end goes on to
flatMap in the same call; whoever drains `rest` delivers while it can (RxJava's
drain loop); and a service that subscribed returns from `onNext` of the head and
keeps requesting (assumptions on services: one that blocks or stops requesting is
owed nothing). Nobody has to subscribe, send
or finish. `TraceSubscriber`: a thread inside a method returns from it; neither
source nor downstream has to call one.

**Findings.** Four runs are expected to fail. `TraceSubscriber.onSubscribe`
calls `downstream.onSubscribe(this)` twice (lines 100 and 103); the consumer
cancels the duplicate, which cancels the call. `TraceSubscriber.onError` does not
pass the error on. `Metadata.encode` accepts names of 32768 to 65535 bytes, whose
length every reader takes as negative; `NeverMisrouted` shows that such a call
fails and is never routed to another service or method. `Tracing.mapToByteBuf`
reserves the length of the key for the value (line 68); a longer value may be
written behind the buffer's capacity, and `OverrunOnlyByValue` shows that nothing
else can be.

Worth knowing although no document says otherwise, or a matter of text only:

* A channel call that is subscribed again sends no route and is refused, and if
  `encode` failed none was ever sent (`RouteOnlyLostByChannelRetry`).
* Attempts of one call that overlap may send the later one's span context
  (`TraceNotStale`).
* A call finishes the span it was made under: with several calls under one span
  it is finished several times, and with a call in the scope of another the
  outer one's span is finished before its own end (`FinishesCounted` says how
  often and by whom).
* A requester that fails ends the merged flow but not the response: the service
  runs on until its own flow ends, and nobody cancels it (`NoOrphanedConsumer`
  allows this case and no other).
* A service that takes only the head (`take(1)`, `firstOrError`) never joins `rest`,
  which buffers what the requester sends until somebody else joins it or the
  channel ends. A reader that the service subscribed on its own is not told when
  the requester's flow is cancelled.
* When `encode` or `serialize` throws, the buffers allocated before it are not
  released (`LeaksOnlyByFailure`).
* Methods whose names differ in case or underscores only get the same constant or
  function (`ConflictOnlyByCase`), and a service `FooClient` next to `Foo` is
  printed to the file of `Foo`'s client (`FilesDistinct`).
* A server without stream and channel methods ends with an `Outdent` too many,
  and the handlers of those two leave out one each (`LayoutMatches`); in the
  client every client-streaming method leaves one more `Indent` behind, so that
  what follows it drifts to the right (the invariant `LayoutInv` of the proof).
* `vars["Map"]` (`kotlin_generator.cpp` 1377) has no package, although the comment at
  line 1344 wants all names qualified: a service called `Map` would hide it.
* The code tests `rsocket_rpc_version`, the build defines
  `RSOCKET_RPC_VERSION`: the printed version is always empty.

## Proofs

For every value of the constants, under the named assumptions
`ChannelAssumption` (`NoSub` is not a subscriber, the concurrency is positive),
`TraceAssumption` (cancellers are distinct from the two other threads),
`RpcAssumption` (flags are Booleans, a server has its service's name and one
method per name), `CallsAssumption` of `TracedCalls` (calls' spans are their own)
and of `CallBuffers` (every call is of one of three kinds; the shared empty buffer
and "none" are no allocated buffers), `ByteSizeAssumption` (a byte has at least one
bit), `InputsAssumption` (names and maps are sequences of bytes, capacities are
numbers), `CharAssumption` and
`LocationsAssumption` (comments are texts of characters, and no entity is a
character), `UpperAssumption` (no letter is of both cases, no two letters have one
capital, and the underscore has no case), and `FilesAssumption` (files, services
and names are sequences, flags are Booleans, methods have names, and no two services of a
file have one name, which protoc refuses):

* **RequestChannelProofs**: `TypeOK`, `FifoDelivery`, `EndAfterAll`,
  `SingleTailConsumer`, `DemandConserved`, `HalvesCloseTogether`,
  `NoOrphanedConsumer`. The inductive invariant `IInv` adds to the first three that
  nothing happens before the head (`HeadFirst`), that a subscriber that has not
  taken the head has nothing, and one that has not joined `rest` nothing but the
  head (`HeadTaken`), that as long as `rest` has no
  reader it holds exactly the tail (`BufferedForNobody`), that only its reader's
  leaving drops it (`OwnerReads`), and that it ends as the requester did and is
  told of the end unless its reader cancelled it (`EndKnown`). All actions that end subscriptions share the lemma `Ending`.
  `DemandConserved`, `HalvesCloseTogether` and `Disposed` are then inductive
  relative to `IInv`.
  Last, `Spec => ImplementsStream`: each action maps to one of the stream's actions
  or to a stutter, and `IInv` shows the guard of the stream's action: `JoinRest` is
  `BecomeReader` or `Refused`, by who owns `rest` at that moment.
* **TraceSubscriberProofs**: `TypeOK` and `FinishedOnce`. The invariant says that at
  most one thread is past `compareAndSet` and not done, and none before it is set.

* **DocCommentProofs**: for a comment of any length, nothing but the footer closes
  it and nothing in it opens another. `ClosedByFooter` is about the printed text;
  the invariant adds that the escaped text has no delimiter (`Clean(escaped)`, for
  which `prev` must be the character before, `PrevKnown`), that the lines are
  parts of it that are not empty (`LinesClean`), and that what is printed so far
  cannot combine with what follows to a delimiter (`OutOpen`). `TextKept` is
  about positions in the comment: what is escaped so far decodes to the comment up
  to there (`CharactersKept`), and every line that was split off stands for the
  line of the comment that begins at its start, in order and with none left out
  (`LinesKept`; `BetweenLines` knows that splitting never stops inside a line).

* **RpcCallProofs**: all properties of `RpcCall`, for any number of calls,
  attempts and servers. The invariant adds that servers are registered under
  their own names, that an attempt's route is the call's and its server the one
  of that name (`Staged`), that `once` was taken by an attempt that made the route
  or failed to (`OnceForRoute`) and that only one attempt of a channel has it
  (`OneRoute`), and that attempts subscribe in order, so that the map has the
  context of the last (`InOrder`, `MapIsLast`). `SameInteraction` compares the two
  classifications of the generator.
* **TracedCallsProofs**: all properties of `TracedCalls`. The invariant adds that a
  handler restores the span of the handler below it (`Nested`); the count of
  finishes is a cardinality, to which a call's first cleanup adds an element.
* **CallBuffersProofs**: all properties of `CallBuffers`, for any number of calls
  and payloads. The invariant says which variables own a buffer at each statement
  of the three programs (`Owned`), which are the ones it uses (`UsesOwned`), what a payload that was sent or given up has
  left behind, and by which failure (`Left`), and how `once` and the failures of
  `encode` decide which payload of a channel has the metadata (`Filled`).
* **CallMetadataProofs**: `RoundTrip`, `NeverMisrouted`, `OverrunOnlyByValue`,
  `ArrivesWhole` and `NothingInvented`, for bytes of any width, names, maps and
  metadata of any length and buffers of any capacity. The arithmetic of two bytes
  (`ShortBytes` and the lemmas after it) gives what each field of a frame is read as:
  a length above `SIGNED_SHORT_MAX_VALUE` is negative and the reader throws. For the
  map, the invariant `Arranged` says that an entry's place in the buffer exists:
  a function `at` under which the entries written so far tile the buffer (`Tiled`),
  and the server has read up to the boundary of two of them (`Parsed`). Where the
  buffer may be overrun nothing is said of it, but for why (`OverrunOnlyByValue`).
* **GeneratorProofs**: all properties of `Generator`, for files with any services and
  services with any methods. `GeneratorProofs` defines the declarations of a method
  from its descriptor alone (`ConstOf`, `FunOf`, `BodyOf`, `BranchOf`...); the
  invariant says what each source consists of at every moment: rows with one
  declaration of each method, in order (`RowsInv`), then a set of others. That a
  loop prints with its own method's values, never with what an earlier loop left in
  the shared variables, is what the lemmas `InterfacePrints` to `ServerPrints` show.
  `HandledInv` says that each method is collected for the handler its client calls.
  Two methods of one name would be two rows of one name, which `Conflict` excludes
  (`NamesDistinct`). Of the files, `OpenedInv` knows the service and the part that
  each was opened for.

  `ConflictOnlyByCase`, for names of any length: `MixedLower` and `ToAllUpperCase`
  keep the letters of a name (`LowerLetters`, `UpperLetters`), so that methods with
  one identifier or constant have the same letters. What these recursive functions
  compute is proved by induction along the name: `WFMin` of the library is about
  a set and not about an operator, which gives induction over an interval for a
  set (`Induction`) and a function for every recursion along it (`Iteration`).

  `LayoutMatches`, for services with any methods: `Leads` says that a list of tokens
  takes the Printer from one depth and margin to another, never through a brace too
  many or the left margin; lists that follow each other are joined (`Joins`, by the
  same induction, along the tokens). The invariant `LayoutInv` has the depth and
  the margin of every section, which the loops come back to after each method (but
  for the margin of the client, which may only grow); the margins of the last sections of a server depend on which of its stream
  and channel handlers have methods (`Excess`, `Margin`).

Every safety property that a passing run checks is a theorem. Only model-checked
are the liveness properties: fairness is out of the prover's reach.

## Plan

What is open is the composition of `RpcCall` with `TraceSubscriber` on both sides:
the outcomes of `RpcCall` are so far what the handler's flow signals, before a
`TraceSubscriber` swallows an error.

## Not modelled

`options.pb` is generated by protoc. Of the plugin, its reading of options and
directories (I/O; `lite` and `noversion` do not change what is modelled); of the
generator, the wording around the declarations, package names and annotations.
Tags and annotations are data. The websocket transport adapts a library to the
tests; the example and the tests are users, read for what they expect. The
contents of messages, response elements of a channel, keep-alive and
reconnection of the connection belong to other layers or do not influence the
control modelled here. `AbstractRSocketService` is modelled as far as it
answers: its availability is a constant and nothing reads it.
