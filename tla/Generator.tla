------------------------------ MODULE Generator ------------------------------
(***************************************************************************)
(* The protoc plugin: for every service of a .proto file it prints an      *)
(* interface, a client and a server (KotlinRSocketRpcGenerator::reactor,   *)
(* GenerateInterface, GenerateClient, GenerateServer).                     *)
(*                                                                         *)
(* The three printers derive signatures, interactions and tracers from the *)
(* flags of a method in a dozen places of their own, and all of their      *)
(* loops share one table of variables.  What is printed is kept as a       *)
(* sequence of declarations, made from the values the variables have when  *)
(* they are printed; the wording around them is left out.  Braces and      *)
(* Indent/Outdent calls are kept as tokens "{", "}", ">" and "<".          *)
(*                                                                         *)
(* A method descriptor is a record [name, client_streaming,                *)
(* server_streaming, fire_and_forget, input_type, output_type].            *)
(*                                                                         *)
(* The definitions that nothing uses (SetsAllButFieldName and the like)    *)
(* are faulty variants of the definitions that follow them.                *)
(***************************************************************************)
EXTENDS MethodNames

CONSTANT Files  \* .proto files, each a sequence of services [name, methods]

(* protoc accepts no file with two services of one name, and no method     *)
(* without a name.                                                         *)
ASSUME FilesAssumption ==
  \A f \in Files :
    /\ f \in Seq(Range(f))
    /\ \A t \in DOMAIN f :
         /\ f[t].name \in Seq(Range(f[t].name))
         /\ f[t].methods \in Seq(Range(f[t].methods))
         /\ \A m \in Range(f[t].methods) :
              /\ m.name \in Seq(Range(m.name)) /\ m.name # <<>>
              /\ {m.client_streaming, m.server_streaming, m.fire_and_forget} \subseteq BOOLEAN
    /\ \A t, u \in DOMAIN f : f[t].name = f[u].name => t = u

VARIABLES
  file,    \* the descriptor
  s,       \* the service being generated
  pc,      \* <<file being printed, section>>
  i,       \* index of the section's loop
  vars,    \* the variables of the Printer
  text,    \* the declarations printed for the service
  handled, \* the methods the server's handlers are printed for
  layout,  \* braces and indentation of the file being printed
  opened   \* names of the files opened so far

state == <<file, s, pc, i, vars, text, handled, layout, opened>>

Methods == file[s].methods

M == Methods[i]

-----------------------------------------------------------------------------
(* The Printer.                                                            *)

VarNames == {"input_type", "output_type", "lower_method_name",
             "method_field_name", "method_name"}

Value(v, m) ==
  CASE v = "input_type"        -> m.input_type
    [] v = "output_type"       -> m.output_type
    [] v = "lower_method_name" -> LowerMethodName(m)
    [] v = "method_field_name" -> MethodFieldName(m)
    [] v = "method_name"       -> m.name

Set(names) ==
  vars' = [v \in VarNames |-> IF v \in names THEN Value(v, M) ELSE vars[v]]

Declare(declarations) == text' = [text EXCEPT ![pc[1]] = @ \o declarations]

(* Outdent at the left margin is reported and changes nothing.             *)
Token(l, t) ==
  CASE t = "{" -> [l EXCEPT !.depth = @ + 1]
    [] t = "}" -> [l EXCEPT !.depth = @ - 1, !.broken = @ \/ l.depth = 0]
    [] t = ">" -> [l EXCEPT !.indent = @ + 1]
    [] t = "<" -> IF l.indent = 0 THEN [l EXCEPT !.unmatched = @ + 1]
                  ELSE [l EXCEPT !.indent = @ - 1]

After(l, tokens) ==
  LET after[k \in 0 .. Len(tokens)] ==
        IF k = 0 THEN l ELSE Token(after[k - 1], tokens[k])
  IN  after[Len(tokens)]

Layout(tokens) == layout' = After(layout, tokens)

(* The two ends of an indented block.                                      *)
Begin == <<"{", ">">>

End == <<"<", "}">>

Block == Begin \o End

NewPrinter == [depth |-> 0, broken |-> FALSE, indent |-> 0, unmatched |-> 0]

(* One iteration of a section's loop, and the way out of it.               *)
Loop(label, list) ==
  /\ pc = label /\ i <= Len(list)
  /\ i' = i + 1
  /\ UNCHANGED <<file, s, pc, handled, opened>>

Leave(label, list, tokens, next) ==
  /\ pc = label /\ i > Len(list)
  /\ i' = 1 /\ pc' = <<label[1], next>>
  /\ Layout(tokens)
  /\ UNCHANGED <<file, s, vars, text, handled, opened>>

Header(label, tokens, next) == Leave(label, <<>>, tokens, next)

-----------------------------------------------------------------------------
(* The plugin.  Every generator gets a printer and variables of its own.   *)

SuffixOfClient(p) == IF p = "interface" THEN <<>> ELSE <<"Client">>

Suffix(p) ==
  CASE p = "interface" -> <<>> [] p = "client" -> <<"Client">>
    [] p = "server" -> <<"Server">>

Handlers == {"fireAndForget", "requestResponse", "requestStream", "requestChannel"}

Open(p) ==
  /\ pc' = <<p, "header">>
  /\ opened' = Append(opened, file[s'].name \o Suffix(p))
  /\ layout' = NewPrinter
  /\ vars' = [v \in VarNames |-> "undefined"]
  /\ handled' = [h \in Handlers |-> <<>>]
  /\ i' = 1

Sources == {"interface", "client", "server"}

Nothing == [p \in Sources |-> <<>>]

StartService ==
  /\ pc[2] = "end" /\ pc[1] \in {"plugin", "server"} /\ s < Len(file)
  /\ s' = s + 1
  /\ text' = Nothing
  /\ Open("interface")
  /\ UNCHANGED file

StartClient ==
  /\ pc = <<"interface", "end">>
  /\ s' = s
  /\ Open("client")
  /\ UNCHANGED <<file, text>>

StartServer ==
  /\ pc = <<"client", "end">>
  /\ s' = s
  /\ Open("server")
  /\ UNCHANGED <<file, text>>

-----------------------------------------------------------------------------
(* Declarations.                                                           *)

Function(kind, streamed, returns) ==
  [kind |-> kind, name |-> vars'.lower_method_name,
   input |-> <<streamed, vars'.input_type>>,
   returns |-> IF returns = "Completable" THEN <<returns>>
               ELSE <<returns, vars'.output_type>>]

Tracer(element) ==
  [kind |-> "tracer", name |-> vars'.lower_method_name, element |-> element]

Assignment(branch) ==
  [kind |-> branch, name |-> vars'.lower_method_name]

-----------------------------------------------------------------------------
(* PrintInterface.                                                         *)

InterfaceHeader ==
  Header(<<"interface", "header">>, Begin \o Begin, "constants")

Constants ==
  /\ Loop(<<"interface", "constants">>, Methods)
  /\ Set({"method_field_name", "method_name"})
  /\ Declare(<<[kind |-> "const", name |-> vars'.method_field_name,
              value |-> vars'.method_name]>>)
  /\ UNCHANGED layout

ConstantsEnd ==
  Leave(<<"interface", "constants">>, Methods, End, "functions")

InterfaceReturns(m) ==
  IF m.server_streaming THEN "Flowable"
  ELSE IF m.client_streaming THEN "Single"
  ELSE IF m.fire_and_forget THEN "Completable" ELSE "Single"

InterfaceFunctions ==
  /\ Loop(<<"interface", "functions">>, Methods)
  /\ Set({"input_type", "output_type", "lower_method_name"})
  /\ Declare(<<Function("fun", M.client_streaming, InterfaceReturns(M))>>)
  /\ UNCHANGED layout

InterfaceEnd ==
  Leave(<<"interface", "functions">>, Methods, End, "end")

-----------------------------------------------------------------------------
(* What PrintClient and PrintServer print alike: the assignments of the    *)
(* tracers in both branches of `when (tracer)`.                            *)

InitBlock(p) ==
  Leave(<<p, "tracers">>, Methods, Begin \o Begin \o Begin, "untraced")

Untraced(p) ==
  /\ Loop(<<p, "untraced">>, Methods)
  /\ Set({"lower_method_name"})
  /\ Declare(<<Assignment("untraced")>>)
  /\ UNCHANGED layout

UntracedEnd(p) ==
  Leave(<<p, "untraced">>, Methods, End \o Begin, "traced")

Traced(p) ==
  /\ Loop(<<p, "traced">>, Methods)
  /\ Set({"lower_method_name", "method_field_name"})
  /\ Declare(<<Assignment("traced")>>)
  /\ Layout(<<">", "<">>)

InitBlockEnd == End \o End \o End

-----------------------------------------------------------------------------
(* PrintClient.                                                            *)

ClientHeader ==
  Header(<<"client", "header">>, <<">">> \o Begin, "tracers")

ClientTracers ==
  /\ Loop(<<"client", "tracers">>, Methods)
  /\ Set({"output_type", "lower_method_name"})
  /\ Declare(<<Tracer(vars'.output_type)>>)
  /\ UNCHANGED layout

ClientTracedEnd ==
  Leave(<<"client", "traced">>, Methods, InitBlockEnd, "methods")

(* The method without metadata, which calls the one with metadata.         *)
OverloadReturns(m) ==
  IF m.server_streaming THEN "Flowable"
  ELSE IF m.client_streaming THEN "Single"
  ELSE IF m.fire_and_forget THEN "Completable" ELSE "Single"

ClientStreamingFirst(m) ==
  IF m.client_streaming THEN "Single"
  ELSE IF m.server_streaming THEN "Flowable"
  ELSE IF m.fire_and_forget THEN "Completable" ELSE "Single"

OverrideReturns(m) ==
  IF m.server_streaming THEN "Flowable"
  ELSE IF m.client_streaming THEN "Single"
  ELSE IF m.fire_and_forget THEN "Completable" ELSE "Single"

(* The interaction a method's body uses and what its expression returns.   *)
Body(m) ==
  IF m.client_streaming
    THEN <<"requestChannel", IF m.server_streaming THEN "Flowable" ELSE "Single">>
  ELSE IF m.server_streaming THEN <<"requestStream", "Flowable">>
  ELSE IF m.fire_and_forget THEN <<"fireAndForget", "Completable">>
  ELSE <<"requestResponse", "Single">>

Call(m) ==
  [kind |-> "body", name |-> vars'.lower_method_name,
   interaction |-> Body(m)[1], route |-> vars'.method_field_name,
   returns |-> IF Body(m)[2] = "Completable" THEN <<Body(m)[2]>>
               ELSE <<Body(m)[2], vars'.output_type>>,
   element |-> vars'.output_type]

ChannelBody ==
  <<">", ">">> \o Begin \o Begin \o Block \o Block \o End \o End \o <<"<">> \o End

DeferredBody == <<">">> \o Block \o <<"<">> \o End

SetsAllButFieldName ==
  Set({"input_type", "output_type", "lower_method_name"})

ClientVariables ==
  Set({"input_type", "output_type", "lower_method_name", "method_field_name"})

ClientMethods ==
  /\ Loop(<<"client", "methods">>, Methods)
  /\ ClientVariables
  /\ Declare(<<Function("overload", M.client_streaming, OverloadReturns(M)),
             Function("override", M.client_streaming, OverrideReturns(M)),
             Call(M)>>)
  /\ Layout(Block \o <<">", "{">>
              \o IF M.client_streaming THEN ChannelBody ELSE DeferredBody)

(* serialize and deserializer.                                             *)
ClientEnd ==
  Leave(<<"client", "methods">>, Methods,
        Begin \o Block \o Block \o End \o <<">">> \o <<"{", "}">> \o End, "end")

-----------------------------------------------------------------------------
(* PrintServer.                                                            *)

ServerHeader == Header(<<"server", "header">>, <<">", "{">>, "tracers")

ElementIgnoresStreaming(m) == IF m.fire_and_forget THEN "Empty" ELSE "Payload"

ServerElement(m) ==
  IF ~m.server_streaming /\ ~m.client_streaming /\ m.fire_and_forget
    THEN "Empty" ELSE "Payload"

ServerTracers ==
  /\ Loop(<<"server", "tracers">>, Methods)
  /\ Set({"lower_method_name"})
  /\ Declare(<<Tracer(ServerElement(M))>>)
  /\ UNCHANGED layout

Handler(m) ==
  IF m.client_streaming THEN "requestChannel"
  ELSE IF m.server_streaming THEN "requestStream"
  ELSE IF m.fire_and_forget THEN "fireAndForget" ELSE "requestResponse"

Collect ==
  /\ pc = <<"server", "handlers">> /\ i <= Len(Methods)
  /\ handled' = [handled EXCEPT ![Handler(M)] = Append(@, M)]
  /\ i' = i + 1
  /\ UNCHANGED <<file, s, pc, vars, text, layout, opened>>

(* A branch of `when (method)`: what it matches, what it calls, with what, *)
(* as what it takes the result and what flows through the tracer.          *)
Branch(h, consumes, element) ==
  /\ Loop(<<"server", h>>, handled[h])
  /\ LET m == handled[h][i] IN
       vars' = [v \in VarNames |->
                  IF v \in {"input_type", "lower_method_name", "method_field_name"}
                       \union (IF h = "fireAndForget" THEN {} ELSE {"output_type"})
                    THEN Value(v, m) ELSE vars[v]]
  /\ Declare(<<[kind |-> h, matches |-> vars'.method_field_name,
              name |-> vars'.lower_method_name,
              input |-> <<h = "requestChannel", vars'.input_type>>,
              consumes |-> consumes, element |-> element]>>)

FireAndForget ==
  /\ Branch("fireAndForget", "Completable", "Empty")
  /\ Layout(<<">">> \o Block \o <<"<">>)

RequestResponse ==
  /\ Branch("requestResponse", "Single", "Payload")
  /\ Layout(Block)

RequestStream ==
  /\ Branch("requestStream", "Flowable", "Payload")
  /\ Layout(Block)

ChannelAnswersOnce ==
  /\ Branch("requestChannel", "Single", "Payload")
  /\ Layout(Begin \o <<">", "<">> \o End)

RequestChannel ==
  /\ Branch("requestChannel",
            IF handled["requestChannel"][i].server_streaming
              THEN "Flowable" ELSE "Single", "Payload")
  /\ Layout(Begin \o <<">", "<">> \o End)

(* A handler without methods has no try and no when.                       *)
HandlerOpen(h) ==
  Begin \o IF handled[h] = <<>> THEN <<>> ELSE Begin \o Begin

HandlerClose(h, whenEnd) ==
  (IF handled[h] = <<>> THEN <<>>
   ELSE whenEnd \o End \o Block) \o End

ServerTracedEnd ==
  Leave(<<"server", "traced">>, Methods, InitBlockEnd, "handlers")

Collected ==
  Leave(<<"server", "handlers">>, Methods, HandlerOpen("fireAndForget"), "fireAndForget")

FireAndForgetEnd ==
  Leave(<<"server", "fireAndForget">>, handled["fireAndForget"],
        HandlerClose("fireAndForget", End)
          \o HandlerOpen("requestResponse"), "requestResponse")

RequestResponseEnd ==
  Leave(<<"server", "requestResponse">>, handled["requestResponse"],
        HandlerClose("requestResponse", End)
          \o HandlerOpen("requestStream"), "requestStream")

RequestStreamOutdented ==
  Leave(<<"server", "requestStream">>, handled["requestStream"],
        HandlerClose("requestStream", End)
          \o HandlerOpen("requestChannel"), "requestChannel")

(* `when` is closed here, and in the next, without its Outdent.            *)
RequestStreamEnd ==
  Leave(<<"server", "requestStream">>, handled["requestStream"],
        HandlerClose("requestStream", <<"}">>)
          \o HandlerOpen("requestChannel"), "requestChannel")

RequestChannelEnd ==
  Leave(<<"server", "requestChannel">>, handled["requestChannel"],
        HandlerClose("requestChannel", <<"}">>), "payloads")

(* requestChannel(payloads), which splits the stream.                      *)
Payloads ==
  Header(<<"server", "payloads">>,
         Begin \o (IF handled["requestChannel"] = <<>> THEN <<>>
                   ELSE <<">">> \o <<"{", "}">>) \o End, "companion")

(* serializer, deserializer and the end of the class.                      *)
Companion ==
  Header(<<"server", "companion">>,
         Begin \o Begin \o Block \o Block \o Block \o End \o <<"<">>
           \o Begin \o Begin \o Block \o Block \o End \o End \o End \o End, "end")

-----------------------------------------------------------------------------
Init ==
  /\ file \in Files
  /\ s = 0 /\ pc = <<"plugin", "end">> /\ i = 1
  /\ vars = [v \in VarNames |-> "undefined"]
  /\ text = Nothing /\ handled = [h \in Handlers |-> <<>>]
  /\ layout = NewPrinter /\ opened = <<>>

Next ==
  \/ StartService \/ StartClient \/ StartServer
  \/ InterfaceHeader \/ Constants \/ ConstantsEnd \/ InterfaceFunctions
  \/ InterfaceEnd
  \/ ClientHeader \/ ClientTracers \/ ClientTracedEnd \/ ClientMethods \/ ClientEnd
  \/ \E p \in {"client", "server"} :
       InitBlock(p) \/ Untraced(p) \/ UntracedEnd(p) \/ Traced(p)
  \/ ServerHeader \/ ServerTracers \/ ServerTracedEnd \/ Collect \/ Collected
  \/ FireAndForget \/ FireAndForgetEnd \/ RequestResponse \/ RequestResponseEnd
  \/ RequestStream \/ RequestStreamEnd \/ RequestChannel \/ RequestChannelEnd
  \/ Payloads \/ Companion

Spec == Init /\ [][Next]_state

-----------------------------------------------------------------------------
(* Properties of the sources generated for one service.                    *)

Printed(p, kind) == {d \in Range(text[p]) : d.kind = kind}

Generated == pc = <<"server", "end">>

(* Two declarations of one name: the Kotlin compiler rejects the sources.  *)
Conflict ==
  \E p \in Sources :
    \E j, k \in DOMAIN text[p] :
      /\ j # k
      /\ text[p][j].kind \in {"const", "tracer"}
      /\ text[p][j].kind = text[p][k].kind
      /\ text[p][j].name = text[p][k].name

(* Every source file closes the blocks it opens, for every combination of  *)
(* methods and for handlers with and without methods.  Every Outdent       *)
(* matches an Indent, but for one at the end of a server that handles      *)
(* neither requestStream nor requestChannel: only the Indents those two    *)
(* handlers leave open make up for the missing one.                        *)
LayoutMatches ==
  /\ ~layout.broken /\ (pc[2] = "end" => layout.depth = 0)
  /\ layout.unmatched <= 1
  /\ layout.unmatched > 0 =>
       /\ Generated
       /\ handled["requestStream"] = <<>> /\ handled["requestChannel"] = <<>>

(* The client overrides exactly the methods of the interface, its bodies   *)
(* return what their methods declare, and the methods without metadata     *)
(* return what the ones they call do.                                      *)
ClientTypes ==
  Generated /\ ~Conflict =>
    /\ {<<d.name, d.input, d.returns>> : d \in Printed("interface", "fun")}
       = {<<d.name, d.input, d.returns>> : d \in Printed("client", "override")}
    /\ {<<d.name, d.input, d.returns>> : d \in Printed("client", "overload")}
       = {<<d.name, d.input, d.returns>> : d \in Printed("client", "override")}
    /\ \A b \in Printed("client", "body") :
         \E o \in Printed("client", "override") :
           /\ o.name = b.name /\ o.returns = b.returns
           /\ o.input[1] = (b.interaction = "requestChannel")

Branches ==
  UNION {Printed("server", h) : h \in Handlers}

(* The server passes to and takes from the implementation what the         *)
(* interface declares.                                                     *)
ServerTypes ==
  Generated /\ ~Conflict =>
    \A b \in Branches :
      \E f \in Printed("interface", "fun") :
        f.name = b.name /\ f.input = b.input /\ f.returns[1] = b.consumes

(* Every tracer is assigned once in each branch of `when (tracer)` and     *)
(* used with the type of element it was declared for.                      *)
TracersAssigned ==
  Generated /\ ~Conflict =>
    \A p \in {"client", "server"} :
      LET uses == IF p = "client" THEN Printed(p, "body") ELSE Branches IN
        /\ \A branch \in {"untraced", "traced"} :
             /\ {d.name : d \in Printed(p, branch)} = {d.name : d \in Printed(p, "tracer")}
             /\ \A j, k \in DOMAIN text[p] :
                  /\ text[p][j].kind = branch /\ text[p][k].kind = branch
                  /\ text[p][j].name = text[p][k].name
                  => j = k
        /\ {<<d.name, d.element>> : d \in uses}
           = {<<d.name, d.element>> : d \in Printed(p, "tracer")}

(* Sources that compile connect every method with itself: what the client  *)
(* method of a descriptor sends is matched by one branch of the handler of *)
(* the interaction it uses, and that branch calls the same method.         *)
CallsReachTheirMethod ==
  Generated /\ ~Conflict =>
    \A m \in Range(Methods) :
      \E b \in Printed("client", "body"), c \in Printed("interface", "const") :
        /\ b.name = LowerMethodName(m)
        /\ c.name = b.route /\ c.value = m.name
        /\ \A d \in Branches :
             d.matches = b.route <=> (d.kind = b.interaction /\ d.name = b.name)
        /\ \E d \in Branches : d.matches = b.route

(* The letters of a name, in lower case.                                   *)
Letters(name) ==
  LET upto[k \in 0 .. Len(name)] ==
        IF k = 0 THEN <<>>
        ELSE IF name[k] = "_" THEN upto[k - 1]
        ELSE Append(upto[k - 1], tolower(name[k]))
  IN  upto[Len(name)]

(* Generated names clash only where the names of two methods differ in     *)
(* nothing but case and underscores.                                       *)
ConflictOnlyByCase ==
  Conflict =>
    \E j, k \in DOMAIN Methods :
      j # k /\ Letters(Methods[j].name) = Letters(Methods[k].name)

(* No file is opened twice, unless a service is named like the client or   *)
(* the server of another one.                                              *)
FilesDistinct ==
  (\E j, k \in DOMAIN opened : j # k /\ opened[j] = opened[k]) =>
    \E t, u \in DOMAIN file, x \in {<<"Client">>, <<"Server">>} :
      file[t].name = file[u].name \o x
=============================================================================
