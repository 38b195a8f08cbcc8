------------------------------ MODULE RpcCall ------------------------------
(***************************************************************************)
(* Calls from the generated client through RequestHandlingRSocket to the   *)
(* generated server and the service implementation behind it.              *)
(*                                                                         *)
(* A client method returns a flow; every subscription to it (the first one *)
(* and every retry or repeat) is an attempt.  Attempts of one call may     *)
(* overlap, and they share what the method allocated: the map the tracer   *)
(* injects its span context into, and for a channel the AtomicBoolean that *)
(* marks the payload that carries the route.  Attempts are numbered in the *)
(* order of subscription; a span context is the number of its attempt, 0   *)
(* is none.                                                                *)
(*                                                                         *)
(* A method descriptor is a record [name, client_streaming,                *)
(* server_streaming, fire_and_forget]; a generated server wraps one        *)
(* implementation, [service, methods, overrides, traced], whose methods    *)
(* may come from another version of the .proto file than the client's.     *)
(* The outcome of an attempt is how the side that ended it did: what the   *)
(* handler's flow signals, which RSocket keeps from a fire-and-forget      *)
(* client and TraceSubscriber may keep from any.  The payloads of a        *)
(* channel after the first are the subject of RequestChannel.              *)
(*                                                                         *)
(* The definitions that nothing uses (OnceSwapped and the like) are        *)
(* faulty variants of the definitions that follow them.                    *)
(***************************************************************************)
EXTENDS Naturals, FiniteSets

CONSTANTS
  Services,     \* service names
  Methods,      \* the methods of the clients' .proto file
  Servers,      \* generated servers, with their implementations
  NoServer,     \* nothing is registered
  Calls,        \* calls of client methods
  MaxAttempts   \* bound: subscriptions to the flow of one call

ASSUME RpcAssumption ==
  /\ NoServer \notin Servers
  /\ MaxAttempts \in Nat
  /\ \A m \in Methods \union UNION {srv.methods : srv \in Servers} :
       {m.client_streaming, m.server_streaming, m.fire_and_forget} \subseteq BOOLEAN
  /\ \A srv \in Servers :
       /\ srv.service \in Services
       /\ \A m, n \in srv.methods : m.name = n.name => m = n

Attempts == Calls \X (1 .. MaxAttempts)

VARIABLES
  registered,  \* RequestHandlingRSocket.registeredServices
  called,      \* the service and method of each call
  tracer,      \* the client has a tracer
  map,         \* the span context in the map of each call
  once,        \* channel: the payload with the route has been made
  phase,       \* how far each attempt has come
  route,       \* the route in the attempt's first payload, {} if it has none
  trace,       \* the span context in that payload
  server,      \* the server the attempt was handed to
  invoked,     \* the methods of an implementation it invoked
  outcome      \* how the attempt ended

client    == <<called, tracer, map, once>>
responder == <<server, invoked>>
payload   == <<route, trace>>
vars      == <<registered, client, phase, payload, responder, outcome>>

-----------------------------------------------------------------------------
(* Which RSocket interaction a method uses.                                *)

ClientInteraction(m) ==
  CASE m.client_streaming  -> "requestChannel"
    [] ~m.client_streaming /\ m.server_streaming -> "requestStream"
    [] ~m.client_streaming /\ ~m.server_streaming /\ m.fire_and_forget ->
         "fireAndForget"
    [] ~m.client_streaming /\ ~m.server_streaming /\ ~m.fire_and_forget ->
         "requestResponse"

ServerStreamingFirst(m) ==
  IF m.server_streaming THEN "requestStream"
  ELSE IF m.client_streaming THEN "requestChannel"
  ELSE IF m.fire_and_forget THEN "fireAndForget"
  ELSE "requestResponse"

ServerInteraction(m) ==
  IF m.client_streaming THEN "requestChannel"
  ELSE IF m.server_streaming THEN "requestStream"
  ELSE IF m.fire_and_forget THEN "fireAndForget"
  ELSE "requestResponse"

AnyInteraction(srv, interaction) == srv.methods

(* The methods the generated handler of an interaction chooses from.       *)
Bucket(srv, interaction) ==
  {m \in srv.methods : ServerInteraction(m) = interaction}

Interaction(x) == ClientInteraction(called[x[1]].method)

IsChannel(x) == Interaction(x) = "requestChannel"

Matches(x) ==
  {m \in Bucket(server[x], Interaction(x)) :
     m.name = called[x[1]].method.name}

-----------------------------------------------------------------------------
(* The client.                                                             *)

To(x, p) == phase' = [phase EXCEPT ![x] = p]

Ends(x, o) ==
  /\ To(x, "ended")
  /\ outcome' = [outcome EXCEPT ![x] = o]

InjectFirstOnly(c, a) == IF map[c] = 0 THEN a ELSE map[c]

Inject(c, a) == a

(* TraceOperator makes its subscriber, which injects the context of the    *)
(* new span, before it subscribes to the flow that encodes the request.    *)
Subscribe(x) ==
  /\ phase[x] = "idle"
  /\ x[2] > 1 => phase[<<x[1], x[2] - 1>>] # "idle"
  /\ map' = IF tracer THEN [map EXCEPT ![x[1]] = Inject(x[1], x[2])] ELSE map
  /\ To(x, "subscribed")
  /\ UNCHANGED <<registered, called, tracer, once, payload, responder, outcome>>

OnceSwapped(c) == ~once[c]

OnceNeverTaken(c) == FALSE

OnceTaken(c) == once[c]

(* A channel encodes the route for the first payload of the call, without  *)
(* tracing; every other call encodes route and tracing on subscription.    *)
Send(x) ==
  /\ phase[x] = "subscribed"
  /\ IF IsChannel(x)
       THEN /\ once' = [once EXCEPT ![x[1]] = TRUE]
            /\ route' = [route EXCEPT ![x] =
                           IF OnceTaken(x[1]) THEN {} ELSE {called[x[1]]}]
            /\ UNCHANGED trace
       ELSE /\ route' = [route EXCEPT ![x] = {called[x[1]]}]
            /\ trace' = [trace EXCEPT ![x] = map[x[1]]]
            /\ UNCHANGED once
  /\ To(x, "sent")
  /\ UNCHANGED <<registered, called, tracer, map, responder, outcome>>

(* A channel serializes its message before it looks at once.               *)
SerializeThrows(x) ==
  /\ phase[x] = "subscribed"
  /\ Ends(x, "serialize_error")
  /\ UNCHANGED <<registered, client, payload, responder>>

(* A channel encodes the route only once, and takes once before it does.   *)
EncodeThrows(x) ==
  /\ phase[x] = "subscribed" /\ (IsChannel(x) => ~OnceTaken(x[1]))
  /\ once' = [once EXCEPT ![x[1]] = @ \/ IsChannel(x)]
  /\ Ends(x, "encode_error")
  /\ UNCHANGED <<registered, called, tracer, map, payload, responder>>

-----------------------------------------------------------------------------
(* The responder.                                                          *)

AddService(srv) ==
  /\ registered' = [registered EXCEPT ![srv.service] = srv]
  /\ UNCHANGED <<client, phase, payload, responder, outcome>>

RouteMissing(x) ==
  /\ phase[x] = "sent" /\ route[x] = {}
  /\ Ends(x, "no_route")
  /\ UNCHANGED <<registered, client, payload, responder>>

ServiceNotFound(x) ==
  /\ phase[x] = "sent"
  /\ \E r \in route[x] : registered[r.service] = NoServer
  /\ Ends(x, "not_found")
  /\ UNCHANGED <<registered, client, payload, responder>>

ServiceFoundUnchecked(x) ==
  /\ phase[x] = "sent"
  /\ \E r \in route[x] :
       server' = [server EXCEPT ![x] = registered[r.service]]
  /\ To(x, "found")
  /\ UNCHANGED <<registered, client, payload, invoked, outcome>>

ServiceFound(x) ==
  /\ phase[x] = "sent"
  /\ \E r \in route[x] :
       /\ registered[r.service] # NoServer
       /\ server' = [server EXCEPT ![x] = registered[r.service]]
  /\ To(x, "found")
  /\ UNCHANGED <<registered, client, payload, invoked, outcome>>

(* The handler of an interaction that has no methods, or `when`'s else.    *)
Unsupported(x) ==
  /\ phase[x] = "found" /\ Matches(x) = {}
  /\ Ends(x, "unsupported")
  /\ UNCHANGED <<registered, client, payload, responder>>

(* The span context cannot be extracted: that is read before the method.   *)
TraceUnreadable(x) ==
  /\ phase[x] = "found" /\ Bucket(server[x], Interaction(x)) # {}
  /\ server[x].traced /\ trace[x] # 0
  /\ Ends(x, "handler_error")
  /\ UNCHANGED <<registered, client, payload, responder>>

(* parseFrom throws; the messages of a channel are parsed later.           *)
RequestUnreadable(x) ==
  /\ phase[x] = "found" /\ Matches(x) # {} /\ ~IsChannel(x)
  /\ Ends(x, "handler_error")
  /\ UNCHANGED <<registered, client, payload, responder>>

(* The interface's default method.                                         *)
NotImplemented(x) ==
  /\ phase[x] = "found"
  /\ \E m \in Matches(x) : m.name \notin server[x].overrides
  /\ Ends(x, "not_implemented")
  /\ UNCHANGED <<registered, client, payload, responder>>

Invoke(x) ==
  /\ phase[x] = "found"
  /\ \E m \in Matches(x) :
       /\ m.name \in server[x].overrides
       /\ invoked' = [invoked EXCEPT ![x] = @ \union {m}]
  /\ To(x, "invoked")
  /\ UNCHANGED <<registered, client, payload, server, outcome>>

Respond(x) ==
  /\ phase[x] = "invoked"
  /\ \E o \in {"response", "failure"} : Ends(x, o)
  /\ UNCHANGED <<registered, client, payload, responder>>

-----------------------------------------------------------------------------
(* Any services were given to the constructor.                             *)
Init ==
  /\ registered \in {f \in [Services -> Servers \union {NoServer}] :
                       \A s \in Services : f[s] # NoServer => f[s].service = s}
  /\ called \in [Calls -> [service : Services, method : Methods]]
  /\ tracer \in BOOLEAN
  /\ map = [c \in Calls |-> 0]
  /\ once = [c \in Calls |-> FALSE]
  /\ phase = [x \in Attempts |-> "idle"]
  /\ route = [x \in Attempts |-> {}]
  /\ trace = [x \in Attempts |-> 0]
  /\ server = [x \in Attempts |-> NoServer]
  /\ invoked = [x \in Attempts |-> {}]
  /\ outcome = [x \in Attempts |-> "none"]

Next ==
  \/ \E srv \in Servers : AddService(srv)
  \/ \E x \in Attempts :
       \/ Subscribe(x) \/ Send(x) \/ SerializeThrows(x) \/ EncodeThrows(x)
       \/ RouteMissing(x) \/ ServiceNotFound(x) \/ ServiceFound(x)
       \/ Unsupported(x) \/ TraceUnreadable(x) \/ RequestUnreadable(x)
       \/ NotImplemented(x) \/ Invoke(x) \/ Respond(x)

Spec == Init /\ [][Next]_vars

-----------------------------------------------------------------------------
Outcomes == {"serialize_error", "encode_error", "no_route", "not_found",
             "unsupported", "handler_error", "not_implemented", "response",
             "failure"}

(* Every variable of the calls has its type, and an attempt that a handler *)
(* has in hand belongs to a server: RequestHandlingRSocket passes nothing  *)
(* on for a service that is not registered.                                *)
TypeOK ==
  /\ registered \in [Services -> Servers \union {NoServer}]
  /\ called \in [Calls -> [service : Services, method : Methods]]
  /\ tracer \in BOOLEAN
  /\ map \in [Calls -> 0 .. MaxAttempts]
  /\ once \in [Calls -> BOOLEAN]
  /\ phase \in [Attempts -> {"idle", "subscribed", "sent", "found", "invoked",
                             "ended"}]
  /\ route \in [Attempts -> SUBSET [service : Services, method : Methods]]
  /\ trace \in [Attempts -> 0 .. MaxAttempts]
  /\ server \in [Attempts -> Servers \union {NoServer}]
  /\ \A x \in Attempts : phase[x] \in {"found", "invoked"} => server[x] \in Servers
  /\ invoked \in [Attempts -> SUBSET UNION {srv.methods : srv \in Servers}]
  /\ outcome \in [Attempts -> Outcomes \union {"none"}]

(* An implementation is only ever invoked for the service and the method   *)
(* that the client called, through the interaction the client used, with   *)
(* a stream of messages exactly when the client sends one; whatever is     *)
(* registered meanwhile and however client and server differ in version.   *)
InvokedAsCalled ==
  \A x \in Attempts : \A m \in invoked[x] :
    LET c == called[x[1]] IN
      /\ server[x].service = c.service
      /\ m.name = c.method.name
      /\ m.client_streaming = c.method.client_streaming
      /\ m.name \in server[x].overrides
      /\ ~m.client_streaming =>
           /\ m.server_streaming = c.method.server_streaming
           /\ ~m.server_streaming =>
                m.fire_and_forget = c.method.fire_and_forget

(* The client and the server put a method under the same interaction: a    *)
(* server generated from the client's own descriptor of the method never   *)
(* calls it unsupported.                                                   *)
SameDescriptorSupported ==
  \A x \in Attempts :
    outcome[x] = "unsupported" =>
      called[x[1]].method \notin server[x].methods

(* An attempt arrives without a route only if it re-subscribes to a        *)
(* channel whose route went out with another attempt of the same call, or  *)
(* failed to be encoded by it.                                             *)
RouteOnlyLostByChannelRetry ==
  \A x \in Attempts :
    outcome[x] = "no_route" =>
      /\ IsChannel(x)
      /\ \E y \in Attempts :
           /\ y # x /\ y[1] = x[1]
           /\ route[y] # {} \/ outcome[y] = "encode_error"

(* However often a channel call is re-subscribed, at most one attempt      *)
(* invokes an implementation.                                              *)
ChannelInvokedOnce ==
  \A x, y \in Attempts :
    x[1] = y[1] /\ IsChannel(x) /\ invoked[x] # {} /\ invoked[y] # {} => x = y

(* The span context a request carries belongs to its own attempt or, if    *)
(* attempts overlap, to a later one of the same call: a retry never        *)
(* reports the span of an attempt that came before it.                     *)
TraceNotStale ==
  \A x \in Attempts :
    trace[x] # 0 =>
      trace[x] >= x[2] /\ phase[<<x[1], trace[x]>>] # "idle"
=============================================================================
