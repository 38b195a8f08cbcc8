----------------------------- MODULE MCRpcCall -----------------------------
(***************************************************************************)
(* An instance of RpcCall.  Descriptors: every combination of the three    *)
(* flags of a method, under a name of its own.  Current is generated from  *)
(* the clients' .proto file and implements all but one method; Skewed      *)
(* comes from another version, in which the server_streaming flag of every *)
(* method is flipped; Unary has no methods but a request-response one;     *)
(* Other is another service with the same method names.                    *)
(***************************************************************************)
EXTENDS RpcCall

Names == BOOLEAN \X BOOLEAN \X BOOLEAN

Descriptor(n, cs, ss, ff) ==
  [name |-> n, client_streaming |-> cs, server_streaming |-> ss,
   fire_and_forget |-> ff]

AllMethods == {Descriptor(n, n[1], n[2], n[3]) : n \in Names}

UnaryName == <<FALSE, FALSE, FALSE>>

Current ==
  [service |-> "svc", methods |-> AllMethods, overrides |-> Names \ {<<FALSE, TRUE, FALSE>>},
   traced |-> TRUE]

Skewed ==
  [service |-> "svc", overrides |-> Names, traced |-> FALSE,
   methods |-> {Descriptor(n, n[1], ~n[2], n[3]) : n \in Names}]

Unary ==
  [service |-> "svc", overrides |-> {UnaryName}, traced |-> TRUE,
   methods |-> {m \in AllMethods : m.name = UnaryName}]

Other ==
  [service |-> "other", methods |-> AllMethods, overrides |-> Names,
   traced |-> TRUE]

AllServers == {Current, Skewed, Unary, Other}
=============================================================================
