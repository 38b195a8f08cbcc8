--------------------------- MODULE RpcCallProofs ---------------------------
(***************************************************************************)
(* The properties of RpcCall for any services, versions, calls and number  *)
(* of attempts.                                                            *)
(***************************************************************************)
EXTENDS RpcCall, TLAPS

(* A server is registered under its own name. *)
RegisteredByName ==
  \A s \in Services : registered[s] # NoServer => registered[s].service = s

(* An attempt has no outcome until it ends, no route before it is sent and *)
(* never another one than the call's, and a server once it was found.      *)
Staged ==
  \A x \in Attempts :
    /\ phase[x] # "ended" => outcome[x] = "none"
    /\ phase[x] \in {"idle", "subscribed"} => route[x] = {} /\ trace[x] = 0
    /\ phase[x] \in {"idle", "subscribed", "sent", "found"} => invoked[x] = {}
    /\ phase[x] \in {"found", "invoked"} => server[x] \in Servers /\ route[x] # {}
    /\ route[x] \subseteq {called[x[1]]}
    /\ server[x] # NoServer => server[x].service = called[x[1]].service

(* Once is taken by an attempt that made the route or failed to, and an    *)
(* attempt without a route is one of a channel that found it taken.        *)
OnceForRoute ==
  /\ \A c \in Calls : once[c] =>
       \E y \in Attempts : y[1] = c /\ (route[y] # {} \/ outcome[y] = "encode_error")
  /\ \A x \in Attempts : phase[x] = "sent" /\ route[x] = {} => IsChannel(x) /\ once[x[1]]

(* One attempt of a channel has the route, and it took once. *)
OneRoute ==
  /\ \A x \in Attempts : IsChannel(x) /\ route[x] # {} => once[x[1]]
  /\ \A x \in Attempts : invoked[x] # {} => route[x] # {}
  /\ \A x, y \in Attempts :
       x[1] = y[1] /\ IsChannel(x) /\ route[x] # {} /\ route[y] # {} => x = y

(* Attempts subscribe in order. *)
InOrder ==
  \A c \in Calls : \A m, n \in 1 .. MaxAttempts :
    m < n /\ phase[<<c, n>>] # "idle" => phase[<<c, m>>] # "idle"

(* The map has the context of the attempt that subscribed last. *)
MapIsLast ==
  /\ \A c \in Calls :
       map[c] # 0 => tracer /\ phase[<<c, map[c]>>] # "idle"
  /\ \A c \in Calls : \A n \in 1 .. MaxAttempts :
       tracer /\ phase[<<c, n>>] # "idle" => map[c] >= n

IInv ==
  /\ TypeOK /\ RegisteredByName /\ Staged /\ OnceForRoute /\ OneRoute
  /\ InOrder /\ MapIsLast
  /\ InvokedAsCalled /\ SameDescriptorSupported
  /\ RouteOnlyLostByChannelRetry /\ TraceNotStale

-----------------------------------------------------------------------------
(* Client and server classify a method in the same way, and methods that   *)
(* share an interaction agree on the flags that decide it.                 *)
LEMMA SameInteraction ==
  ASSUME NEW m, NEW n,
         {m.client_streaming, m.server_streaming, m.fire_and_forget} \subseteq BOOLEAN,
         {n.client_streaming, n.server_streaming, n.fire_and_forget} \subseteq BOOLEAN
  PROVE  /\ ServerInteraction(m) = ClientInteraction(m)
         /\ ServerInteraction(m) = ClientInteraction(n) =>
              /\ m.client_streaming = n.client_streaming
              /\ ~m.client_streaming =>
                   /\ m.server_streaming = n.server_streaming
                   /\ ~m.server_streaming => m.fire_and_forget = n.fire_and_forget
BY DEF ServerInteraction, ClientInteraction

(* The initial states satisfy the invariant. *)
LEMMA InitIInv == Init => IInv
<1> SUFFICES ASSUME Init PROVE IInv
  OBVIOUS
<1> USE RpcAssumption
<1>1. TypeOK
  BY DEF Init, TypeOK
<1>2. RegisteredByName
  BY DEF Init, RegisteredByName
<1>3. Staged /\ OnceForRoute /\ OneRoute
  BY DEF Init, Staged, OnceForRoute, OneRoute
<1>4. InOrder
  BY DEF Init, InOrder, Attempts
<1>5. MapIsLast
  BY DEF Init, MapIsLast, Attempts
<1>6. InvokedAsCalled /\ SameDescriptorSupported /\ RouteOnlyLostByChannelRetry
  BY DEF Init, InvokedAsCalled, SameDescriptorSupported, RouteOnlyLostByChannelRetry
<1>7. TraceNotStale
  BY DEF Init, TraceNotStale
<1> QED
  BY <1>1, <1>2, <1>3, <1>4, <1>5, <1>6, <1>7 DEF IInv

(* The attempt whose context a request carries is one of the call's. *)
LEMMA TraceKnown ==
  ASSUME TypeOK, NEW x \in Attempts, trace[x] # 0
  PROVE  <<x[1], trace[x]>> \in Attempts
<1>1. x[1] \in Calls /\ trace[x] \in 1 .. MaxAttempts
  BY RpcAssumption DEF TypeOK, Attempts
<1> QED
  BY <1>1 DEF Attempts

(* A step that subscribes nobody keeps the order of subscriptions. *)
LEMMA OrderKept ==
  ASSUME IInv, UNCHANGED <<tracer, map>>,
         \A y \in Attempts : phase'[y] = "idle" <=> phase[y] = "idle"
  PROVE  InOrder' /\ MapIsLast'
<1>1. \A c \in Calls, n \in 1 .. MaxAttempts :
        phase'[<<c, n>>] = "idle" <=> phase[<<c, n>>] = "idle"
  BY DEF Attempts
<1>2. \A c \in Calls : map[c] # 0 => map[c] \in 1 .. MaxAttempts
  BY RpcAssumption DEF IInv, TypeOK
<1>3. InOrder'
  BY <1>1 DEF IInv, InOrder
<1>4. MapIsLast'
  BY <1>1, <1>2 DEF IInv, MapIsLast
<1> QED
  BY <1>3, <1>4

-----------------------------------------------------------------------------
(* An attempt that ends, otherwise than by a failed encode, disturbs       *)
(* nothing if it says no_route and unsupported where it should.            *)
LEMMA EndsIInv ==
  ASSUME IInv, NEW x \in Attempts, NEW o \in Outcomes, Ends(x, o),
         phase[x] \notin {"idle", "ended"},
         UNCHANGED <<registered, client, payload, responder>>,
         o = "no_route" => phase[x] = "sent" /\ route[x] = {},
         o = "unsupported" => called[x[1]].method \notin server[x].methods
  PROVE  IInv'
<1> USE DEF client, payload, responder
<1>0. /\ phase' = [phase EXCEPT ![x] = "ended"]
      /\ outcome' = [outcome EXCEPT ![x] = o]
      /\ UNCHANGED <<registered, called, tracer, map, once, route, trace, server, invoked>>
  BY DEF Ends, To
<1>1. TypeOK'
  BY <1>0 DEF IInv, TypeOK
<1>2. RegisteredByName'
  BY <1>0 DEF IInv, RegisteredByName
<1>3. Staged'
  BY <1>0 DEF IInv, TypeOK, Staged
<1>4. OnceForRoute'
  <2>1. \A y \in Attempts : outcome[y] = "encode_error" => outcome'[y] = outcome[y]
    BY <1>0 DEF IInv, TypeOK, Staged
  <2>2. \A y \in Attempts : phase'[y] = "sent" => phase[y] = "sent"
    BY <1>0 DEF IInv, TypeOK
  <2> QED
    BY <1>0, <2>1, <2>2 DEF IInv, OnceForRoute, IsChannel, Interaction
<1>5. OneRoute'
  BY <1>0 DEF IInv, OneRoute, IsChannel, Interaction
<1>6. InOrder' /\ MapIsLast' /\ TraceNotStale'
  <2>1. \A y \in Attempts : phase'[y] = "idle" <=> phase[y] = "idle"
    BY <1>0 DEF IInv, TypeOK
  <2>2. InOrder' /\ MapIsLast'
    BY <1>0, <2>1, OrderKept
  <2>3. TraceNotStale'
    BY <1>0, <2>1, TraceKnown DEF IInv, TraceNotStale
  <2> QED
    BY <2>2, <2>3
<1>7. InvokedAsCalled'
  BY <1>0 DEF IInv, InvokedAsCalled
<1>8. SameDescriptorSupported'
  BY <1>0 DEF IInv, TypeOK, SameDescriptorSupported
<1>9. RouteOnlyLostByChannelRetry'
  <2> SUFFICES ASSUME NEW z \in Attempts, outcome'[z] = "no_route"
               PROVE  IsChannel(z)' /\ \E y \in Attempts :
                        /\ y # z /\ y[1] = z[1]
                        /\ route'[y] # {} \/ outcome'[y] = "encode_error"
    BY DEF RouteOnlyLostByChannelRetry
  <2>1. \A y \in Attempts : outcome[y] = "encode_error" => outcome'[y] = outcome[y]
    BY <1>0 DEF IInv, TypeOK, Staged
  <2>2. IsChannel(z)' = IsChannel(z)
    BY <1>0 DEF IsChannel, Interaction
  <2>3. CASE z = x
    <3>1. phase[x] = "sent" /\ route[x] = {} /\ outcome[x] = "none"
      BY <1>0, <2>3 DEF IInv, TypeOK, Staged
    <3>2. IsChannel(x) /\ once[x[1]] /\ x[1] \in Calls
      BY <3>1 DEF IInv, OnceForRoute, Attempts
    <3>3. PICK y \in Attempts : y[1] = x[1] /\ (route[y] # {} \/ outcome[y] = "encode_error")
      BY <3>2 DEF IInv, OnceForRoute
    <3> QED
      BY <3>1, <3>2, <3>3, <2>1, <2>2, <2>3, <1>0
  <2>4. CASE z # x
    <3>1. outcome[z] = "no_route"
      BY <1>0, <2>4 DEF IInv, TypeOK
    <3> QED
      BY <3>1, <2>1, <2>2, <1>0 DEF IInv, RouteOnlyLostByChannelRetry
  <2> QED
    BY <2>3, <2>4
<1> QED
  BY <1>1, <1>2, <1>3, <1>4, <1>5, <1>6, <1>7, <1>8, <1>9 DEF IInv

(* Registering a service keeps the invariant. *)
LEMMA AddServiceIInv ==
  ASSUME IInv, NEW srv \in Servers, AddService(srv)
  PROVE  IInv'
<1> USE DEF client, payload, responder
<1>0. /\ registered' = [registered EXCEPT ![srv.service] = srv]
      /\ UNCHANGED <<called, tracer, map, once, phase, route, trace, server, invoked, outcome>>
  BY DEF AddService
<1>1. TypeOK' /\ RegisteredByName'
  BY <1>0, RpcAssumption DEF IInv, TypeOK, RegisteredByName
<1>2. Staged' /\ OnceForRoute' /\ OneRoute' /\ InOrder' /\ MapIsLast'
  BY <1>0 DEF IInv, Staged, OnceForRoute, OneRoute, InOrder, MapIsLast, IsChannel, Interaction
<1>3. /\ InvokedAsCalled' /\ SameDescriptorSupported'
      /\ RouteOnlyLostByChannelRetry' /\ TraceNotStale'
  BY <1>0 DEF IInv, InvokedAsCalled, SameDescriptorSupported, RouteOnlyLostByChannelRetry,
              TraceNotStale, IsChannel, Interaction
<1> QED
  BY <1>1, <1>2, <1>3 DEF IInv

(* Subscribing keeps the invariant: attempts come in order, so that the    *)
(* one whose context goes into the map is the last.                        *)
LEMMA SubscribeIInv ==
  ASSUME IInv, NEW x \in Attempts, Subscribe(x)
  PROVE  IInv'
<1> USE DEF client, payload, responder
<1>0. /\ phase[x] = "idle"
      /\ x[2] > 1 => phase[<<x[1], x[2] - 1>>] # "idle"
      /\ map' = IF tracer THEN [map EXCEPT ![x[1]] = x[2]] ELSE map
      /\ phase' = [phase EXCEPT ![x] = "subscribed"]
      /\ UNCHANGED <<registered, called, tracer, once, route, trace, server, invoked, outcome>>
  BY DEF Subscribe, To, Inject
<1>1. x[1] \in Calls /\ x[2] \in 1 .. MaxAttempts /\ x = <<x[1], x[2]>>
  BY DEF Attempts
<1>2. TypeOK'
  BY <1>0, <1>1, RpcAssumption DEF IInv, TypeOK
<1>3. RegisteredByName' /\ Staged'
  BY <1>0 DEF IInv, TypeOK, RegisteredByName, Staged
<1>4. OnceForRoute' /\ OneRoute'
  <2>1. \A y \in Attempts : IsChannel(y)' = IsChannel(y)
    BY <1>0 DEF IsChannel, Interaction
  <2>2. \A y \in Attempts : phase'[y] = "sent" => phase[y] = "sent"
    BY <1>0 DEF IInv, TypeOK
  <2>3. OnceForRoute'
    BY <1>0, <2>1, <2>2 DEF IInv, OnceForRoute
  <2>4. OneRoute'
    BY <1>0, <2>1 DEF IInv, OneRoute
  <2> QED
    BY <2>3, <2>4
<1>5. \A y \in Attempts : phase'[y] # "idle" <=> phase[y] # "idle" \/ y = x
  BY <1>0 DEF IInv, TypeOK
<1>6. \A n \in 1 .. MaxAttempts : n < x[2] => phase[<<x[1], n>>] # "idle"
  <2> SUFFICES ASSUME NEW n \in 1 .. MaxAttempts, n < x[2]
               PROVE  phase[<<x[1], n>>] # "idle"
    OBVIOUS
  <2>1. x[2] - 1 \in 1 .. MaxAttempts /\ (n < x[2] - 1 \/ n = x[2] - 1) /\ x[2] > 1
    BY <1>1, RpcAssumption
  <2> QED
    BY <2>1, <1>0, <1>1 DEF IInv, InOrder
<1>7. \A n \in 1 .. MaxAttempts : phase[<<x[1], n>>] # "idle" => n < x[2]
  <2> SUFFICES ASSUME NEW n \in 1 .. MaxAttempts, phase[<<x[1], n>>] # "idle", ~(n < x[2])
               PROVE  FALSE
    OBVIOUS
  <2>1. n # x[2]
    BY <1>0, <1>1
  <2>2. x[2] < n
    BY <2>1, <1>1, RpcAssumption
  <2> QED
    BY <2>2, <1>0, <1>1 DEF IInv, InOrder
<1>8. \A c \in Calls, n \in 1 .. MaxAttempts :
        phase'[<<c, n>>] # "idle" <=> phase[<<c, n>>] # "idle" \/ (c = x[1] /\ n = x[2])
  <2> SUFFICES ASSUME NEW c \in Calls, NEW n \in 1 .. MaxAttempts
               PROVE  phase'[<<c, n>>] # "idle" <=> phase[<<c, n>>] # "idle" \/ (c = x[1] /\ n = x[2])
    OBVIOUS
  <2>1. <<c, n>> \in Attempts
    BY DEF Attempts
  <2>2. <<c, n>> = x <=> c = x[1] /\ n = x[2]
    BY <1>1
  <2> QED
    BY <2>1, <2>2, <1>5
<1>9. InOrder'
  BY <1>8, <1>6 DEF IInv, InOrder
<1>10. MapIsLast'
  <2>1. \A c \in Calls : map'[c] = IF tracer /\ c = x[1] THEN x[2] ELSE map[c]
    BY <1>0 DEF IInv, TypeOK
  <2>2. \A c \in Calls : map[c] \in 0 .. MaxAttempts
    BY DEF IInv, TypeOK
  <2>3. \A c \in Calls : map'[c] # 0 => tracer' /\ phase'[<<c, map'[c]>>] # "idle"
    <3> SUFFICES ASSUME NEW c \in Calls, map'[c] # 0
                 PROVE  tracer' /\ phase'[<<c, map'[c]>>] # "idle"
      OBVIOUS
    <3>1. CASE tracer /\ c = x[1]
      BY <3>1, <2>1, <1>8, <1>1, <1>0
    <3>2. CASE ~(tracer /\ c = x[1])
      <4>1. map'[c] = map[c] /\ map[c] \in 1 .. MaxAttempts
        BY <3>2, <2>1, <2>2, RpcAssumption
      <4>2. tracer /\ phase[<<c, map[c]>>] # "idle"
        BY <4>1 DEF IInv, MapIsLast
      <4> QED
        BY <4>1, <4>2, <1>8, <1>0
    <3> QED
      BY <3>1, <3>2
  <2>4. \A c \in Calls : \A n \in 1 .. MaxAttempts :
          tracer' /\ phase'[<<c, n>>] # "idle" => map'[c] >= n
    <3> SUFFICES ASSUME NEW c \in Calls, NEW n \in 1 .. MaxAttempts, tracer,
                        phase'[<<c, n>>] # "idle"
                 PROVE  map'[c] >= n
      BY <1>0
    <3>1. CASE c = x[1]
      <4>1. n < x[2] \/ n = x[2]
        BY <3>1, <1>7, <1>8
      <4> QED
        BY <4>1, <3>1, <2>1, <1>1, RpcAssumption
    <3>2. CASE c # x[1]
      BY <3>2, <2>1, <1>8 DEF IInv, MapIsLast
    <3> QED
      BY <3>1, <3>2
  <2> QED
    BY <2>3, <2>4 DEF MapIsLast
<1>11. TraceNotStale'
  BY <1>0, <1>5, TraceKnown DEF IInv, TraceNotStale
<1>12. InvokedAsCalled' /\ SameDescriptorSupported' /\ RouteOnlyLostByChannelRetry'
  BY <1>0 DEF IInv, InvokedAsCalled, SameDescriptorSupported, RouteOnlyLostByChannelRetry,
              IsChannel, Interaction
<1> QED
  BY <1>2, <1>3, <1>4, <1>9, <1>10, <1>11, <1>12 DEF IInv

(* The first payload of a channel. *)
LEMMA SendChannelIInv ==
  ASSUME IInv, NEW x \in Attempts, IsChannel(x),
         phase[x] = "subscribed", phase' = [phase EXCEPT ![x] = "sent"],
         once' = [once EXCEPT ![x[1]] = TRUE],
         route' = [route EXCEPT ![x] = IF once[x[1]] THEN {} ELSE {called[x[1]]}],
         UNCHANGED <<registered, called, tracer, map, trace, server, invoked, outcome>>
  PROVE  IInv'
<1>1. x[1] \in Calls
  BY DEF Attempts
<1>2. route[x] = {} /\ invoked[x] = {} /\ outcome[x] = "none"
  BY DEF IInv, Staged
<1>3. TypeOK'
  BY <1>1 DEF IInv, TypeOK
<1>4. RegisteredByName' /\ Staged'
  BY DEF IInv, TypeOK, RegisteredByName, Staged
<1>5. \A y \in Attempts : IsChannel(y)' = IsChannel(y)
  BY DEF IsChannel, Interaction
<1>6. \A y \in Attempts : route'[y] = IF y = x /\ ~once[x[1]] THEN {called[x[1]]} ELSE route[y]
  BY <1>2 DEF IInv, TypeOK
<1>7. \A c \in Calls : once'[c] <=> once[c] \/ c = x[1]
  BY DEF IInv, TypeOK
<1>8. \A y \in Attempts : phase'[y] = IF y = x THEN "sent" ELSE phase[y]
  BY DEF IInv, TypeOK
<1>9. OnceForRoute'
  <2>1. \A c \in Calls : once'[c] =>
          \E y \in Attempts : y[1] = c /\ (route'[y] # {} \/ outcome'[y] = "encode_error")
    <3> SUFFICES ASSUME NEW c \in Calls, once'[c]
                 PROVE  \E y \in Attempts : y[1] = c /\ (route'[y] # {} \/ outcome'[y] = "encode_error")
      OBVIOUS
    <3>1. CASE once[c]
      <4>1. PICK y \in Attempts : y[1] = c /\ (route[y] # {} \/ outcome[y] = "encode_error")
        BY <3>1 DEF IInv, OnceForRoute
      <4> QED
        BY <4>1, <1>6
    <3>2. CASE ~once[c]
      <4>1. c = x[1]
        BY <3>2, <1>7
      <4>2. route'[x] # {}
        BY <4>1, <3>2, <1>6
      <4> QED
        BY <4>1, <4>2
    <3> QED
      BY <3>1, <3>2
  <2>2. \A y \in Attempts : phase'[y] = "sent" /\ route'[y] = {} => IsChannel(y)' /\ once'[y[1]]
    BY <1>1, <1>5, <1>6, <1>7, <1>8 DEF IInv, OnceForRoute, Attempts
  <2> QED
    BY <2>1, <2>2 DEF OnceForRoute
<1>10. OneRoute'
  <2>1. \A y \in Attempts : IsChannel(y)' /\ route'[y] # {} => once'[y[1]]
    BY <1>5, <1>6, <1>7 DEF IInv, OneRoute, Attempts
  <2>2. \A y \in Attempts : invoked'[y] # {} => route'[y] # {}
    BY <1>6 DEF IInv, OneRoute
  <2>3. \A y \in Attempts : y[1] = x[1] /\ ~once[x[1]] => route[y] = {}
    BY DEF IInv, OneRoute, IsChannel, Interaction
  <2>4. \A y, z \in Attempts :
          y[1] = z[1] /\ IsChannel(y)' /\ route'[y] # {} /\ route'[z] # {} => y = z
    BY <1>5, <1>6, <2>3 DEF IInv, OneRoute
  <2> QED
    BY <2>1, <2>2, <2>4 DEF OneRoute
<1>11. InOrder' /\ MapIsLast'
  BY <1>8, OrderKept
<1>12. TraceNotStale'
  BY <1>8, TraceKnown DEF IInv, TraceNotStale
<1>13. InvokedAsCalled' /\ SameDescriptorSupported'
  BY DEF IInv, InvokedAsCalled, SameDescriptorSupported
<1>14. RouteOnlyLostByChannelRetry'
  <2>1. \A y \in Attempts : route[y] # {} => route'[y] # {}
    BY <1>6
  <2> QED
    BY <1>5, <2>1 DEF IInv, RouteOnlyLostByChannelRetry
<1> QED
  BY <1>3, <1>4, <1>9, <1>10, <1>11, <1>12, <1>13, <1>14 DEF IInv

(* The payload of any other call. *)
LEMMA SendOtherIInv ==
  ASSUME IInv, NEW x \in Attempts, ~IsChannel(x),
         phase[x] = "subscribed", phase' = [phase EXCEPT ![x] = "sent"],
         route' = [route EXCEPT ![x] = {called[x[1]]}],
         trace' = [trace EXCEPT ![x] = map[x[1]]],
         UNCHANGED <<registered, called, tracer, map, once, server, invoked, outcome>>
  PROVE  IInv'
<1>1. x[1] \in Calls /\ x[2] \in 1 .. MaxAttempts /\ x = <<x[1], x[2]>>
  BY DEF Attempts
<1>2. TypeOK'
  BY <1>1 DEF IInv, TypeOK
<1>3. RegisteredByName' /\ Staged'
  BY DEF IInv, TypeOK, RegisteredByName, Staged
<1>4. \A y \in Attempts : IsChannel(y)' = IsChannel(y)
  BY DEF IsChannel, Interaction
<1>5. \A y \in Attempts : route'[y] = IF y = x THEN {called[x[1]]} ELSE route[y]
  BY DEF IInv, TypeOK
<1>6. \A y \in Attempts : phase'[y] = IF y = x THEN "sent" ELSE phase[y]
  BY DEF IInv, TypeOK
<1>7. OnceForRoute'
  <2>1. \A y \in Attempts : route[y] # {} => route'[y] # {}
    BY <1>5
  <2>2. \A c \in Calls : once[c] =>
          \E y \in Attempts : y[1] = c /\ (route'[y] # {} \/ outcome[y] = "encode_error")
    BY <2>1 DEF IInv, OnceForRoute
  <2>3. ASSUME NEW y \in Attempts, phase'[y] = "sent", route'[y] = {}
        PROVE  IsChannel(y) /\ once[y[1]]
    <3>1. y # x
      BY <2>3, <1>5
    <3>2. phase[y] = "sent" /\ route[y] = {}
      BY <2>3, <3>1, <1>5, <1>6
    <3>3. \A z \in Attempts : phase[z] = "sent" /\ route[z] = {} => IsChannel(z) /\ once[z[1]]
      BY DEF IInv, OnceForRoute
    <3> QED
      BY <3>2, <3>3
  <2> QED
    BY <2>2, <2>3, <1>4 DEF OnceForRoute
<1>8. OneRoute'
  <2>1. \A y \in Attempts : y[1] = x[1] => ~IsChannel(y)
    BY DEF IsChannel, Interaction
  <2> QED
    BY <1>4, <1>5, <2>1 DEF IInv, OneRoute
<1>9. InOrder' /\ MapIsLast'
  BY <1>6, OrderKept
<1>10. TraceNotStale'
  <2> SUFFICES ASSUME NEW y \in Attempts, trace'[y] # 0
               PROVE  trace'[y] >= y[2] /\ phase'[<<y[1], trace'[y]>>] # "idle"
    BY DEF TraceNotStale
  <2>1. CASE y = x
    <3>1. trace'[y] = map[x[1]] /\ map[x[1]] \in 1 .. MaxAttempts
      BY <2>1, <1>1, RpcAssumption DEF IInv, TypeOK
    <3>2. tracer /\ phase[<<x[1], map[x[1]]>>] # "idle"
      BY <3>1, <1>1 DEF IInv, MapIsLast
    <3>3. phase[<<x[1], x[2]>>] # "idle"
      BY <1>1
    <3>4. map[x[1]] >= x[2]
      BY <3>2, <3>3, <1>1 DEF IInv, MapIsLast
    <3>5. <<x[1], map[x[1]]>> \in Attempts
      BY <3>1, <1>1 DEF Attempts
    <3> QED
      BY <3>1, <3>2, <3>4, <3>5, <1>6, <2>1
  <2>2. CASE y # x
    <3>1. trace'[y] = trace[y]
      BY <2>2 DEF IInv, TypeOK
    <3> QED
      BY <3>1, <1>6, TraceKnown DEF IInv, TraceNotStale
  <2> QED
    BY <2>1, <2>2
<1>11. InvokedAsCalled' /\ SameDescriptorSupported'
  BY DEF IInv, InvokedAsCalled, SameDescriptorSupported
<1>12. RouteOnlyLostByChannelRetry'
  <2>1. \A y \in Attempts : route[y] # {} => route'[y] # {}
    BY <1>5
  <2> QED
    BY <1>4, <2>1 DEF IInv, RouteOnlyLostByChannelRetry
<1> QED
  BY <1>2, <1>3, <1>7, <1>8, <1>9, <1>10, <1>11, <1>12 DEF IInv

(* Making the first payload keeps the invariant: a channel that does not   *)
(* send its route finds once taken, and one that does takes it.            *)
LEMMA SendIInv ==
  ASSUME IInv, NEW x \in Attempts, Send(x)
  PROVE  IInv'
<1> USE DEF client, payload, responder
<1>0. /\ phase[x] = "subscribed"
      /\ phase' = [phase EXCEPT ![x] = "sent"]
      /\ UNCHANGED <<registered, called, tracer, map, server, invoked, outcome>>
  BY DEF Send, To
<1>1. x[1] \in Calls /\ x[2] \in 1 .. MaxAttempts /\ x = <<x[1], x[2]>>
  BY DEF Attempts
<1>2. CASE IsChannel(x)
  <2>0. /\ once' = [once EXCEPT ![x[1]] = TRUE]
        /\ route' = [route EXCEPT ![x] = IF once[x[1]] THEN {} ELSE {called[x[1]]}]
        /\ trace' = trace
    BY <1>2 DEF Send, OnceTaken
  <2> QED
    BY <2>0, <1>0, <1>1, <1>2, SendChannelIInv
<1>3. CASE ~IsChannel(x)
  <2>0. /\ route' = [route EXCEPT ![x] = {called[x[1]]}]
        /\ trace' = [trace EXCEPT ![x] = map[x[1]]]
        /\ once' = once
    BY <1>3 DEF Send
  <2> QED
    BY <2>0, <1>0, <1>1, <1>3, SendOtherIInv
<1> QED
  BY <1>2, <1>3

(* A failed encode keeps the invariant: it takes the once of a channel,    *)
(* and leaves its outcome as the reason.                                   *)
LEMMA EncodeThrowsIInv ==
  ASSUME IInv, NEW x \in Attempts, EncodeThrows(x)
  PROVE  IInv'
<1> USE DEF client, payload, responder
<1>0. /\ phase[x] = "subscribed"
      /\ once' = [once EXCEPT ![x[1]] = once[x[1]] \/ IsChannel(x)]
      /\ phase' = [phase EXCEPT ![x] = "ended"]
      /\ outcome' = [outcome EXCEPT ![x] = "encode_error"]
      /\ UNCHANGED <<registered, called, tracer, map, route, trace, server, invoked>>
  BY DEF EncodeThrows, Ends, To
<1>1. x[1] \in Calls
  BY DEF Attempts
<1>2. TypeOK'
  <2>1. once[x[1]] \/ IsChannel(x) \in BOOLEAN
    BY <1>1 DEF IInv, TypeOK, IsChannel
  <2>2. once' \in [Calls -> BOOLEAN]
    BY <2>1, <1>0 DEF IInv, TypeOK
  <2> QED
    BY <2>2, <1>0 DEF IInv, TypeOK, Outcomes
<1>3. RegisteredByName' /\ Staged'
  BY <1>0 DEF IInv, TypeOK, RegisteredByName, Staged
<1>4. \A y \in Attempts : IsChannel(y)' = IsChannel(y)
  BY <1>0 DEF IsChannel, Interaction
<1>5. \A c \in Calls : /\ once[c] => once'[c]
                       /\ once'[c] => once[c] \/ c = x[1]
  BY <1>0 DEF IInv, TypeOK
<1>6. \A y \in Attempts : /\ phase'[y] = IF y = x THEN "ended" ELSE phase[y]
                          /\ outcome'[y] = IF y = x THEN "encode_error" ELSE outcome[y]
  BY <1>0 DEF IInv, TypeOK
<1>7. OnceForRoute'
  <2>1. \A c \in Calls : once'[c] =>
          \E y \in Attempts : y[1] = c /\ (route'[y] # {} \/ outcome'[y] = "encode_error")
    <3> SUFFICES ASSUME NEW c \in Calls, once'[c]
                 PROVE  \E y \in Attempts : y[1] = c /\ (route'[y] # {} \/ outcome'[y] = "encode_error")
      OBVIOUS
    <3>1. CASE c = x[1]
      BY <3>1, <1>6
    <3>2. CASE c # x[1]
      <4>1. once[c]
        BY <3>2, <1>5
      <4>2. PICK y \in Attempts : y[1] = c /\ (route[y] # {} \/ outcome[y] = "encode_error")
        BY <4>1 DEF IInv, OnceForRoute
      <4> QED
        BY <4>2, <1>0, <1>6
    <3> QED
      BY <3>1, <3>2
  <2>2. \A y \in Attempts : phase'[y] = "sent" /\ route'[y] = {} => IsChannel(y)' /\ once'[y[1]]
    BY <1>0, <1>4, <1>5, <1>6 DEF IInv, OnceForRoute, Attempts
  <2> QED
    BY <2>1, <2>2 DEF OnceForRoute
<1>8. OneRoute'
  BY <1>0, <1>4, <1>5 DEF IInv, OneRoute, Attempts
<1>9. InOrder' /\ MapIsLast'
  BY <1>0, <1>6, OrderKept
<1>10. TraceNotStale'
  BY <1>0, <1>6, TraceKnown DEF IInv, TraceNotStale
<1>11. InvokedAsCalled' /\ SameDescriptorSupported'
  BY <1>0, <1>6 DEF IInv, InvokedAsCalled, SameDescriptorSupported
<1>12. RouteOnlyLostByChannelRetry'
  <2>1. \A y \in Attempts : outcome[y] = "encode_error" => outcome'[y] = "encode_error"
    BY <1>6
  <2>2. \A y \in Attempts : outcome'[y] = "no_route" => outcome[y] = "no_route"
    BY <1>6
  <2> QED
    BY <2>1, <2>2, <1>0, <1>4 DEF IInv, RouteOnlyLostByChannelRetry
<1> QED
  BY <1>2, <1>3, <1>7, <1>8, <1>9, <1>10, <1>11, <1>12 DEF IInv

(* Finding the service keeps the invariant: the server is the one that is  *)
(* registered under the name in the route.                                 *)
LEMMA ServiceFoundIInv ==
  ASSUME IInv, NEW x \in Attempts, ServiceFound(x)
  PROVE  IInv'
<1> USE DEF client, payload, responder
<1>0. /\ phase[x] = "sent"
      /\ phase' = [phase EXCEPT ![x] = "found"]
      /\ UNCHANGED <<registered, called, tracer, map, once, route, trace, invoked, outcome>>
  BY DEF ServiceFound, To
<1>1. PICK r \in route[x] : /\ registered[r.service] # NoServer
                            /\ server' = [server EXCEPT ![x] = registered[r.service]]
  BY DEF ServiceFound
<1>2. r = called[x[1]] /\ r.service \in Services
  BY DEF IInv, Staged, TypeOK, Attempts
<1>3. registered[r.service] \in Servers /\ registered[r.service].service = r.service
  BY <1>1, <1>2 DEF IInv, TypeOK, RegisteredByName
<1>4. \A y \in Attempts : /\ phase'[y] = IF y = x THEN "found" ELSE phase[y]
                          /\ server'[y] = IF y = x THEN registered[r.service] ELSE server[y]
  BY <1>0, <1>1 DEF IInv, TypeOK
<1>5. invoked[x] = {} /\ outcome[x] = "none"
  BY <1>0 DEF IInv, Staged
<1>6. TypeOK'
  BY <1>0, <1>1, <1>3 DEF IInv, TypeOK
<1>7. RegisteredByName' /\ Staged'
  BY <1>0, <1>1, <1>2, <1>3, <1>4 DEF IInv, RegisteredByName, Staged
<1>8. OnceForRoute' /\ OneRoute'
  <2>1. \A y \in Attempts : IsChannel(y)' = IsChannel(y)
    BY <1>0 DEF IsChannel, Interaction
  <2>2. OnceForRoute'
    BY <1>0, <1>4, <2>1 DEF IInv, OnceForRoute
  <2>3. OneRoute'
    BY <1>0, <1>4, <2>1 DEF IInv, OneRoute
  <2> QED
    BY <2>2, <2>3
<1>9. InOrder' /\ MapIsLast'
  BY <1>0, <1>4, OrderKept
<1>10. TraceNotStale'
  BY <1>0, <1>4, TraceKnown DEF IInv, TraceNotStale
<1>11. InvokedAsCalled' /\ SameDescriptorSupported'
  BY <1>0, <1>4, <1>5 DEF IInv, InvokedAsCalled, SameDescriptorSupported
<1>12. RouteOnlyLostByChannelRetry'
  BY <1>0 DEF IInv, RouteOnlyLostByChannelRetry, IsChannel, Interaction
<1> QED
  BY <1>6, <1>7, <1>8, <1>9, <1>10, <1>11, <1>12 DEF IInv

(* Invoking the implementation keeps the invariant: the handler's methods  *)
(* are those of the client's interaction.                                  *)
LEMMA InvokeIInv ==
  ASSUME IInv, NEW x \in Attempts, Invoke(x)
  PROVE  IInv'
<1> USE DEF client, payload, responder
<1>0. /\ phase[x] = "found"
      /\ phase' = [phase EXCEPT ![x] = "invoked"]
      /\ UNCHANGED <<registered, called, tracer, map, once, route, trace, server, outcome>>
  BY DEF Invoke, To
<1>1. PICK m \in Matches(x) : /\ m.name \in server[x].overrides
                              /\ invoked' = [invoked EXCEPT ![x] = invoked[x] \union {m}]
  BY DEF Invoke
<1>2. server[x] \in Servers /\ route[x] # {} /\ invoked[x] = {}
  BY <1>0 DEF IInv, Staged
<1>3. /\ m \in server[x].methods /\ m.name = called[x[1]].method.name
      /\ ServerInteraction(m) = ClientInteraction(called[x[1]].method)
  BY <1>1 DEF Matches, Bucket, Interaction
<1>4. called[x[1]].method \in Methods /\ m \in UNION {srv.methods : srv \in Servers}
  BY <1>2, <1>3 DEF IInv, TypeOK, Attempts
<1>5. \A y \in Attempts : /\ phase'[y] = IF y = x THEN "invoked" ELSE phase[y]
                          /\ invoked'[y] = IF y = x THEN {m} ELSE invoked[y]
  BY <1>0, <1>1, <1>2 DEF IInv, TypeOK
<1>6. TypeOK'
  <2>1. invoked' \in [Attempts -> SUBSET UNION {srv.methods : srv \in Servers}]
    BY <1>1, <1>4 DEF IInv, TypeOK
  <2> QED
    BY <2>1, <1>0 DEF IInv, TypeOK
<1>7. RegisteredByName' /\ Staged'
  BY <1>0, <1>2, <1>5 DEF IInv, RegisteredByName, Staged
<1>8. OnceForRoute' /\ OneRoute'
  <2>1. \A y \in Attempts : IsChannel(y)' = IsChannel(y)
    BY <1>0 DEF IsChannel, Interaction
  <2>2. OnceForRoute'
    BY <1>0, <1>2, <1>5, <2>1 DEF IInv, OnceForRoute
  <2>3. OneRoute'
    BY <1>0, <1>2, <1>5, <2>1 DEF IInv, OneRoute
  <2> QED
    BY <2>2, <2>3
<1>9. InOrder' /\ MapIsLast'
  BY <1>0, <1>5, OrderKept
<1>10. TraceNotStale'
  BY <1>0, <1>5, TraceKnown DEF IInv, TraceNotStale
<1>11. InvokedAsCalled'
  <2> DEFINE c == called[x[1]].method
  <2>1. /\ m.client_streaming = c.client_streaming
        /\ ~m.client_streaming =>
             /\ m.server_streaming = c.server_streaming
             /\ ~m.server_streaming => m.fire_and_forget = c.fire_and_forget
    BY <1>3, <1>4, RpcAssumption, SameInteraction
  <2>2. server[x].service = called[x[1]].service
    BY <1>2, RpcAssumption DEF IInv, Staged
  <2> QED
    BY <1>0, <1>1, <1>3, <1>5, <2>1, <2>2 DEF IInv, InvokedAsCalled
<1>12. SameDescriptorSupported' /\ RouteOnlyLostByChannelRetry'
  BY <1>0 DEF IInv, SameDescriptorSupported, RouteOnlyLostByChannelRetry, IsChannel, Interaction
<1> QED
  BY <1>6, <1>7, <1>8, <1>9, <1>10, <1>11, <1>12 DEF IInv

(* A server that has the client's own descriptor finds it. *)
LEMMA UnsupportedDiffers ==
  ASSUME IInv, NEW x \in Attempts, Unsupported(x)
  PROVE  called[x[1]].method \notin server[x].methods
<1>1. called[x[1]].method \in Methods
  BY DEF IInv, TypeOK, Attempts
<1>2. ServerInteraction(called[x[1]].method) = ClientInteraction(called[x[1]].method)
  BY <1>1, RpcAssumption, SameInteraction
<1> QED
  BY <1>2 DEF Unsupported, Matches, Bucket, Interaction

(* Every step keeps the invariant. *)
LEMMA NextIInv == IInv /\ [Next]_vars => IInv'
<1> SUFFICES ASSUME IInv, [Next]_vars PROVE IInv'
  OBVIOUS
<1>1. CASE UNCHANGED vars
  <2>0. UNCHANGED <<registered, called, tracer, map, once, phase, route, trace, server,
                    invoked, outcome>>
    BY <1>1 DEF vars, client, payload, responder
  <2>1. TypeOK' /\ RegisteredByName'
    BY <2>0 DEF IInv, TypeOK, RegisteredByName
  <2>2. Staged' /\ OnceForRoute' /\ OneRoute' /\ InOrder' /\ MapIsLast'
    BY <2>0 DEF IInv, Staged, OnceForRoute, OneRoute, InOrder, MapIsLast, IsChannel, Interaction
  <2>3. /\ InvokedAsCalled' /\ SameDescriptorSupported'
        /\ RouteOnlyLostByChannelRetry' /\ TraceNotStale'
    BY <2>0 DEF IInv, InvokedAsCalled, SameDescriptorSupported, RouteOnlyLostByChannelRetry,
                TraceNotStale, IsChannel, Interaction
  <2> QED
    BY <2>1, <2>2, <2>3 DEF IInv
<1>2. ASSUME NEW srv \in Servers, AddService(srv) PROVE IInv'
  BY <1>2, AddServiceIInv
<1>3. ASSUME NEW x \in Attempts, Subscribe(x) PROVE IInv'
  BY <1>3, SubscribeIInv
<1>4. ASSUME NEW x \in Attempts, Send(x) PROVE IInv'
  BY <1>4, SendIInv
<1>5. ASSUME NEW x \in Attempts, SerializeThrows(x) PROVE IInv'
  BY <1>5, EndsIInv DEF SerializeThrows, Outcomes
<1>6. ASSUME NEW x \in Attempts, EncodeThrows(x) PROVE IInv'
  BY <1>6, EncodeThrowsIInv
<1>7. ASSUME NEW x \in Attempts, RouteMissing(x) PROVE IInv'
  BY <1>7, EndsIInv DEF RouteMissing, Outcomes
<1>8. ASSUME NEW x \in Attempts, ServiceNotFound(x) PROVE IInv'
  BY <1>8, EndsIInv DEF ServiceNotFound, Outcomes
<1>9. ASSUME NEW x \in Attempts, ServiceFound(x) PROVE IInv'
  BY <1>9, ServiceFoundIInv
<1>10. ASSUME NEW x \in Attempts, Unsupported(x) PROVE IInv'
  <2>1. called[x[1]].method \notin server[x].methods
    BY <1>10, UnsupportedDiffers
  <2> QED
    BY <1>10, <2>1, EndsIInv DEF Unsupported, Outcomes
<1>11. ASSUME NEW x \in Attempts, TraceUnreadable(x) PROVE IInv'
  BY <1>11, EndsIInv DEF TraceUnreadable, Outcomes
<1>12. ASSUME NEW x \in Attempts, RequestUnreadable(x) PROVE IInv'
  BY <1>12, EndsIInv DEF RequestUnreadable, Outcomes
<1>13. ASSUME NEW x \in Attempts, NotImplemented(x) PROVE IInv'
  BY <1>13, EndsIInv DEF NotImplemented, Outcomes
<1>14. ASSUME NEW x \in Attempts, Invoke(x) PROVE IInv'
  BY <1>14, InvokeIInv
<1>15. ASSUME NEW x \in Attempts, Respond(x) PROVE IInv'
  <2>1. PICK o \in {"response", "failure"} : Ends(x, o)
    BY <1>15 DEF Respond
  <2> QED
    BY <1>15, <2>1, EndsIInv DEF Respond, Outcomes
<1> QED
  BY <1>1, <1>2, <1>3, <1>4, <1>5, <1>6, <1>7, <1>8, <1>9, <1>10, <1>11, <1>12,
     <1>13, <1>14, <1>15 DEF Next

(* The invariant implies that at most one attempt of a channel invokes. *)
LEMMA OneRouteOneInvocation == IInv => ChannelInvokedOnce
BY DEF IInv, OneRoute, ChannelInvokedOnce

-----------------------------------------------------------------------------
(* The invariant holds in every behaviour. *)
LEMMA Invariance == Spec => []IInv
BY InitIInv, NextIInv, PTL DEF Spec

(* The variables of the calls keep their types. *)
THEOREM TypeCorrect == Spec => []TypeOK
<1>1. IInv => TypeOK
  BY DEF IInv
<1> QED
  BY <1>1, Invariance, PTL

(* RequestHandlingRSocket and the generated servers invoke nothing but the *)
(* method that was called, in the way it was called, whatever is           *)
(* registered meanwhile and however the versions of both sides differ.     *)
THEOREM OnlyAsCalled == Spec => []InvokedAsCalled
<1>1. IInv => InvokedAsCalled
  BY DEF IInv
<1> QED
  BY <1>1, Invariance, PTL

(* The generated client and server classify every method in the same way. *)
THEOREM OwnMethodsSupported == Spec => []SameDescriptorSupported
<1>1. IInv => SameDescriptorSupported
  BY DEF IInv
<1> QED
  BY <1>1, Invariance, PTL

(* Only a channel that is subscribed again arrives without a route. *)
THEOREM RouteLostByRetryOnly == Spec => []RouteOnlyLostByChannelRetry
<1>1. IInv => RouteOnlyLostByChannelRetry
  BY DEF IInv
<1> QED
  BY <1>1, Invariance, PTL

(* However often a channel is subscribed, it is invoked at most once. *)
THEOREM OneInvocation == Spec => []ChannelInvokedOnce
BY OneRouteOneInvocation, Invariance, PTL

(* No request carries the span context of an attempt before its own. *)
THEOREM NoStaleTrace == Spec => []TraceNotStale
<1>1. IInv => TraceNotStale
  BY DEF IInv
<1> QED
  BY <1>1, Invariance, PTL
=============================================================================
