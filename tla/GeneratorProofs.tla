--------------------------- MODULE GeneratorProofs ---------------------------
(***************************************************************************)
(* Proofs that the interface, the client and the server generated for a    *)
(* service agree, for services with any methods; that generated names      *)
(* clash only by case and underscores, for names of any length; and that   *)
(* every file closes the blocks it opens.                                  *)
(*                                                                         *)
(* The declarations of a method are defined here from its descriptor.  The *)
(* invariant says what is printed at any moment: that the variables of the *)
(* Printer never hold what another method left in them is part of it.      *)
(***************************************************************************)
EXTENDS Generator, WellFoundedInduction, TLAPS

ConstOf(m) == [kind |-> "const", name |-> MethodFieldName(m), value |-> m.name]

FunctionOf(kind, m, returns) ==
  [kind |-> kind, name |-> LowerMethodName(m),
   input |-> <<m.client_streaming, m.input_type>>,
   returns |-> IF returns = "Completable" THEN <<returns>>
               ELSE <<returns, m.output_type>>]

FunOf(m) == FunctionOf("fun", m, InterfaceReturns(m))

OverloadOf(m) == FunctionOf("overload", m, OverloadReturns(m))

OverrideOf(m) == FunctionOf("override", m, OverrideReturns(m))

BodyOf(m) ==
  [kind |-> "body", name |-> LowerMethodName(m),
   interaction |-> Body(m)[1], route |-> MethodFieldName(m),
   returns |-> IF Body(m)[2] = "Completable" THEN <<Body(m)[2]>>
               ELSE <<Body(m)[2], m.output_type>>,
   element |-> m.output_type]

TracerOf(p, m) ==
  [kind |-> "tracer", name |-> LowerMethodName(m),
   element |-> IF p = "client" THEN m.output_type ELSE ServerElement(m)]

AssignmentOf(branch, m) == [kind |-> branch, name |-> LowerMethodName(m)]

ConsumedBy(h, m) ==
  CASE h = "fireAndForget" -> "Completable"
    [] h = "requestResponse" -> "Single"
    [] h = "requestStream" -> "Flowable"
    [] h = "requestChannel" -> IF m.server_streaming THEN "Flowable" ELSE "Single"

BranchOf(h, m) ==
  [kind |-> h, matches |-> MethodFieldName(m), name |-> LowerMethodName(m),
   input |-> <<h = "requestChannel", m.input_type>>, consumes |-> ConsumedBy(h, m),
   element |-> IF h = "fireAndForget" THEN "Empty" ELSE "Payload"]

-----------------------------------------------------------------------------
(* A text begins with rows of declarations, one for every method in each   *)
(* row: constants in the interface; tracers and their assignments in the   *)
(* others.  What follows them is known as a set.                           *)

IsSeq(t) == t \in Seq(Range(t))

Row(p, ms, x) ==
  IF p = "interface" THEN ConstOf(ms[x])
  ELSE IF x <= Len(ms) THEN TracerOf(p, ms[x])
  ELSE IF x <= 2 * Len(ms) THEN AssignmentOf("untraced", ms[x - Len(ms)])
  ELSE AssignmentOf("traced", ms[x - 2 * Len(ms)])

HasText(p, t, ms, n, rest) ==
  /\ IsSeq(t) /\ n \in 0 .. Len(t)
  /\ \A x \in 1 .. n : t[x] = Row(p, ms, x)
  /\ {t[x] : x \in n + 1 .. Len(t)} = rest

LEMMA Joined ==
  ASSUME NEW t, NEW u, IsSeq(t), IsSeq(u)
  PROVE  /\ IsSeq(t \o u) /\ Len(t) \in Nat /\ Len(u) \in Nat
         /\ Len(t \o u) = Len(t) + Len(u)
         /\ \A x \in 1 .. Len(t) : (t \o u)[x] = t[x]
         /\ \A x \in 1 .. Len(u) : (t \o u)[Len(t) + x] = u[x]
<1> DEFINE S == Range(t) \union Range(u)
           v == t \o u
<1>1. t \in Seq(S) /\ u \in Seq(S)
  <2> DEFINE A == Range(t)
             B == Range(u)
  <2>1. t \in Seq(A) /\ u \in Seq(B)
    BY DEF IsSeq
  <2> HIDE DEF A, B
  <2>2. t \in Seq(A \union B) /\ u \in Seq(A \union B)
    BY <2>1
  <2> QED
    BY <2>2 DEF A, B
<1> HIDE DEF S
<1>2. /\ v \in Seq(S) /\ Len(t) \in Nat /\ Len(u) \in Nat /\ Len(v) = Len(t) + Len(u)
      /\ \A x \in 1 .. Len(t) : v[x] = t[x]
      /\ \A x \in 1 .. Len(u) : v[Len(t) + x] = u[x]
  BY <1>1
<1> HIDE DEF v
<1>3. v \in Seq(Range(v))
  <2>1. Len(v) \in Nat /\ DOMAIN v = 1 .. Len(v) /\ v = [x \in 1 .. Len(v) |-> v[x]]
    BY <1>2
  <2>2. \A x \in 1 .. Len(v) : v[x] \in Range(v)
    BY <2>1 DEF Range
  <2> DEFINE R == Range(v)
             n == Len(v)
  <2> HIDE DEF R, n
  <2>3. v \in [1 .. n -> R]
    BY <2>1, <2>2 DEF R, n
  <2>4. n \in Nat
    BY <2>1 DEF n
  <2>5. v \in Seq(R)
    BY <2>3, <2>4
  <2> QED
    BY <2>5 DEF R
<1> QED
  BY <1>2, <1>3 DEF IsSeq, v

LEMMA Single == ASSUME NEW d PROVE IsSeq(<<d>>) /\ Len(<<d>>) = 1 /\ Range(<<d>>) = {d}
<1>1. Range(<<d>>) = {d}
  BY DEF Range
<1>2. <<d>> \in Seq({d})
  OBVIOUS
<1> QED
  BY <1>1, <1>2 DEF IsSeq

LEMMA Extended ==
  ASSUME NEW t, IsSeq(t), NEW d
  PROVE  /\ IsSeq(t \o <<d>>) /\ Len(t) \in Nat /\ Len(t \o <<d>>) = Len(t) + 1
         /\ \A x \in 1 .. Len(t) : (t \o <<d>>)[x] = t[x]
         /\ (t \o <<d>>)[Len(t) + 1] = d
<1>1. IsSeq(<<d>>) /\ Len(<<d>>) = 1 /\ <<d>>[1] = d
  BY Single
<1> DEFINE u == <<d>>
           v == t \o u
<1> HIDE DEF u
<1>2. /\ IsSeq(v) /\ Len(t) \in Nat /\ Len(v) = Len(t) + Len(u)
      /\ \A x \in 1 .. Len(t) : v[x] = t[x]
      /\ \A x \in 1 .. Len(u) : v[Len(t) + x] = u[x]
  BY <1>1, Joined DEF u
<1>3. Len(u) = 1 /\ u[1] = d
  BY <1>1 DEF u
<1> HIDE DEF v
<1>4. v[Len(t) + 1] = d /\ Len(v) = Len(t) + 1
  BY <1>2, <1>3
<1> QED
  BY <1>2, <1>4 DEF u, v

LEMMA RowAdded ==
  ASSUME NEW p, NEW t, NEW ms, NEW n, HasText(p, t, ms, n, {}),
         NEW d, d = Row(p, ms, n + 1)
  PROVE  HasText(p, t \o <<d>>, ms, n + 1, {})
<1>1. IsSeq(t)
  BY DEF HasText
<1> DEFINE v == t \o <<d>>
<1>2. /\ IsSeq(v) /\ Len(t) \in Nat /\ Len(v) = Len(t) + 1
      /\ \A x \in 1 .. Len(t) : v[x] = t[x]
      /\ v[Len(t) + 1] = d
  BY <1>1, Extended
<1> HIDE DEF v
<1>3. Len(t) = n /\ n \in Nat
  <2>1. n \in 0 .. Len(t) /\ {t[x] : x \in n + 1 .. Len(t)} = {}
    BY DEF HasText
  <2>2. n < Len(t) => n + 1 \in n + 1 .. Len(t)
    BY <1>2, <2>1
  <2> QED
    BY <1>2, <2>1, <2>2
<1>4. \A x \in 1 .. n + 1 : v[x] = Row(p, ms, x)
  BY <1>2, <1>3 DEF HasText
<1>5. n + 1 \in 0 .. Len(v) /\ {v[x] : x \in (n + 1) + 1 .. Len(v)} = {}
  BY <1>2, <1>3
<1> QED
  BY <1>2, <1>4, <1>5 DEF HasText, v

LEMMA RestAdded ==
  ASSUME NEW p, NEW t, NEW ms, NEW n, NEW rest, HasText(p, t, ms, n, rest),
         NEW u, IsSeq(u)
  PROVE  HasText(p, t \o u, ms, n, rest \union Range(u))
<1> DEFINE v == t \o u
<1>1. /\ IsSeq(v) /\ Len(t) \in Nat /\ Len(u) \in Nat /\ Len(v) = Len(t) + Len(u)
      /\ \A x \in 1 .. Len(t) : v[x] = t[x]
      /\ \A x \in 1 .. Len(u) : v[Len(t) + x] = u[x]
  BY Joined DEF HasText
<1> HIDE DEF v
<1>2. n \in Nat /\ n <= Len(t)
  BY <1>1 DEF HasText
<1>3. Range(u) = {u[x] : x \in 1 .. Len(u)}
  <2>1. DOMAIN u = 1 .. Len(u)
    BY DEF IsSeq
  <2> QED
    BY <2>1 DEF Range
<1>4. {v[x] : x \in n + 1 .. Len(v)} = rest \union Range(u)
  <2>1. rest = {t[x] : x \in n + 1 .. Len(t)}
    BY DEF HasText
  <2>2. ASSUME NEW x \in n + 1 .. Len(v) PROVE v[x] \in rest \union Range(u)
    <3>1. CASE x <= Len(t)
      <4>1. x \in n + 1 .. Len(t) /\ x \in 1 .. Len(t)
        BY <1>1, <1>2, <3>1
      <4> QED
        BY <4>1, <1>1, <2>1
    <3>2. CASE ~(x <= Len(t))
      <4>1. x - Len(t) \in 1 .. Len(u) /\ x = Len(t) + (x - Len(t))
        BY <1>1, <1>2, <3>2
      <4> QED
        BY <4>1, <1>1, <1>3
    <3> QED
      BY <3>1, <3>2
  <2>3. ASSUME NEW x \in n + 1 .. Len(t) PROVE t[x] \in {v[y] : y \in n + 1 .. Len(v)}
    <3>1. x \in 1 .. Len(t) /\ x \in n + 1 .. Len(v)
      BY <1>1, <1>2
    <3> QED
      BY <3>1, <1>1
  <2>4. ASSUME NEW x \in 1 .. Len(u) PROVE u[x] \in {v[y] : y \in n + 1 .. Len(v)}
    <3>1. Len(t) + x \in n + 1 .. Len(v)
      BY <1>1, <1>2
    <3> QED
      BY <3>1, <1>1
  <2> QED
    BY <2>1, <2>2, <2>3, <2>4, <1>3
<1>5. \A x \in 1 .. n : v[x] = Row(p, ms, x)
  BY <1>1, <1>2 DEF HasText
<1>6. n \in 0 .. Len(v)
  BY <1>1, <1>2
<1> QED
  BY <1>1, <1>4, <1>5, <1>6 DEF HasText, v

-----------------------------------------------------------------------------
(* The inductive invariant.                                                *)

Labels ==
  {<<"plugin", "end">>}
  \union {<<"interface", x>> : x \in {"header", "constants", "functions", "end"}}
  \union {<<"client", x>> : x \in {"header", "tracers", "untraced", "traced", "methods", "end"}}
  \union {<<"server", x>> : x \in {"header", "tracers", "untraced", "traced", "handlers",
                                   "payloads", "companion", "end"} \union Handlers}

N == Len(Methods)

(* The loop of a section goes on as long as there are methods.             *)
InLoop ==
  /\ pc[2] \in {"constants", "functions", "tracers", "untraced", "traced",
                "methods", "handlers"} => i <= N + 1
  /\ pc[2] \in Handlers => i <= Len(handled[pc[2]]) + 1

Typed ==
  /\ file \in Files /\ s \in 0 .. Len(file) /\ i \in Nat \ {0} /\ pc \in Labels
  /\ text = [p \in Sources |-> text[p]] /\ handled = [h \in Handlers |-> handled[h]]
  /\ \A h \in Handlers : IsSeq(handled[h])
  /\ pc[1] = "plugin" <=> s = 0
  /\ s > 0 => InLoop

(* The functions of the first k methods, and what the client has of them.  *)
Funs(ms, k) == {FunOf(ms[x]) : x \in 1 .. k}

ClientMethodsOf(ms, k) ==
  UNION {{OverloadOf(ms[x]), OverrideOf(ms[x]), BodyOf(ms[x])} : x \in 1 .. k}

(* The first k branches of a handler, and all of some handlers.            *)
BranchesOf(h, ms, k) == {BranchOf(h, ms[x]) : x \in 1 .. k}

AllBranches(hs) == UNION {BranchesOf(h, handled[h], Len(handled[h])) : h \in hs}

Has(p, n, rest) == HasText(p, text[p], Methods, n, rest)

InterfaceInv ==
  /\ pc = <<"interface", "header">> => Has("interface", 0, {})
  /\ pc = <<"interface", "constants">> => Has("interface", i - 1, {})
  /\ pc = <<"interface", "functions">> => Has("interface", N, Funs(Methods, i - 1))
  /\ pc = <<"interface", "end">> \/ pc[1] \in {"client", "server"} =>
       Has("interface", N, Funs(Methods, N))

RowsInv(p) ==
  /\ pc = <<p, "header">> => Has(p, 0, {})
  /\ pc = <<p, "tracers">> => Has(p, i - 1, {})
  /\ pc = <<p, "untraced">> => Has(p, N + (i - 1), {})
  /\ pc = <<p, "traced">> => Has(p, 2 * N + (i - 1), {})

ClientInv ==
  /\ pc[1] = "interface" => Has("client", 0, {})
  /\ RowsInv("client")
  /\ pc = <<"client", "methods">> => Has("client", 3 * N, ClientMethodsOf(Methods, i - 1))
  /\ pc = <<"client", "end">> \/ pc[1] = "server" =>
       Has("client", 3 * N, ClientMethodsOf(Methods, N))

Earlier(h) ==
  CASE h = "fireAndForget" -> {}
    [] h = "requestResponse" -> {"fireAndForget"}
    [] h = "requestStream" -> {"fireAndForget", "requestResponse"}
    [] h = "requestChannel" -> {"fireAndForget", "requestResponse", "requestStream"}

ServerInv ==
  /\ pc[1] \in {"interface", "client"} => Has("server", 0, {})
  /\ RowsInv("server")
  /\ pc = <<"server", "handlers">> => Has("server", 3 * N, {})
  /\ \A h \in Handlers : pc = <<"server", h>> =>
       Has("server", 3 * N, AllBranches(Earlier(h)) \union BranchesOf(h, handled[h], i - 1))
  /\ pc \in {<<"server", "payloads">>, <<"server", "companion">>, <<"server", "end">>} =>
       Has("server", 3 * N, AllBranches(Handlers))

(* Every one of the first k methods is given to its handler.               *)
HandledTo(k) ==
  \A h \in Handlers :
    Range(handled[h]) = {Methods[x] : x \in {y \in 1 .. k : Handler(Methods[y]) = h}}

HandledInv ==
  pc[1] = "server" =>
    /\ pc[2] \in {"header", "tracers", "untraced", "traced"} => HandledTo(0)
    /\ pc[2] = "handlers" => HandledTo(i - 1)
    /\ pc[2] \in Handlers \union {"payloads", "companion", "end"} => HandledTo(N)

IInv == Typed /\ (s > 0 => InterfaceInv /\ ClientInv /\ ServerInv /\ HandledInv)

-----------------------------------------------------------------------------
(* What the actions do: one iteration of a loop prints declarations of the *)
(* loop's method and of no other, and the way out of a loop prints none.   *)

Prints(p, section, declarations) ==
  /\ pc = <<p, section>>
  /\ text'[p] = text[p] \o declarations
  /\ \A q \in Sources \ {p} : text'[q] = text[q]
  /\ text' = [q \in Sources |-> text'[q]]
  /\ i' = i + 1
  /\ UNCHANGED <<file, s, pc, handled, opened>>

Moves(p, section, next) ==
  /\ pc = <<p, section>> /\ pc' = <<p, next>> /\ i' = 1
  /\ UNCHANGED <<file, s, text, handled, opened>>

LEMMA MethodsTyped ==
  ASSUME Typed, s > 0
  PROVE  /\ s \in DOMAIN file /\ IsSeq(Methods) /\ N \in Nat
         /\ \A x \in 1 .. N : /\ Methods[x].client_streaming \in BOOLEAN
                              /\ Methods[x].server_streaming \in BOOLEAN
                              /\ Methods[x].fire_and_forget \in BOOLEAN
<1>1. file \in Files /\ s \in 0 .. Len(file)
  BY DEF Typed
<1>2. file \in Seq(Range(file))
  BY <1>1, FilesAssumption
<1>3. s \in DOMAIN file
  <2> DEFINE R == Range(file)
  <2>1. file \in Seq(R)
    BY <1>2
  <2> HIDE DEF R
  <2> QED
    BY <1>1, <2>1
<1>4. /\ Methods \in Seq(Range(Methods))
      /\ \A m \in Range(Methods) :
           {m.client_streaming, m.server_streaming, m.fire_and_forget} \subseteq BOOLEAN
  BY <1>1, <1>3, FilesAssumption DEF Methods
<1>5. N \in Nat /\ DOMAIN Methods = 1 .. N
  <2> DEFINE R == Range(Methods)
             ms == Methods
  <2>1. ms \in Seq(R)
    BY <1>4
  <2> HIDE DEF R, ms
  <2>2. Len(ms) \in Nat /\ DOMAIN ms = 1 .. Len(ms)
    BY <2>1
  <2> QED
    BY <2>2 DEF N, ms
<1>6. \A x \in 1 .. N : Methods[x] \in Range(Methods)
  BY <1>5 DEF Range
<1> QED
  BY <1>3, <1>4, <1>5, <1>6 DEF IsSeq

LEMMA DeclareText ==
  ASSUME Typed, NEW p \in Sources, NEW section, pc = <<p, section>>, NEW ds, Declare(ds)
  PROVE  /\ text'[p] = text[p] \o ds
         /\ \A q \in Sources \ {p} : text'[q] = text[q]
         /\ text' = [q \in Sources |-> text'[q]]
<1>1. text = [q \in Sources |-> text[q]] /\ pc[1] = p
  BY DEF Typed
<1>2. text' = [text EXCEPT ![p] = text[p] \o ds]
  BY <1>1 DEF Declare
<1> QED
  BY <1>1, <1>2

(* A variable that the loop sets has the value of the loop's method.       *)
LEMMA Assigned ==
  ASSUME NEW names, NEW m,
         vars' = [v \in VarNames |-> IF v \in names THEN Value(v, m) ELSE vars[v]]
  PROVE  /\ "input_type" \in names => vars'.input_type = m.input_type
         /\ "output_type" \in names => vars'.output_type = m.output_type
         /\ "lower_method_name" \in names => vars'.lower_method_name = LowerMethodName(m)
         /\ "method_field_name" \in names => vars'.method_field_name = MethodFieldName(m)
         /\ "method_name" \in names => vars'.method_name = m.name
BY DEF VarNames, Value

LEMMA InterfacePrints ==
  ASSUME Typed
  PROVE  /\ Constants => Prints("interface", "constants", <<ConstOf(M)>>) /\ i <= N
         /\ InterfaceFunctions => Prints("interface", "functions", <<FunOf(M)>>) /\ i <= N
<1>1. ASSUME Constants
      PROVE  Prints("interface", "constants", <<ConstOf(M)>>) /\ i <= N
  <2>1. /\ pc = <<"interface", "constants">> /\ i <= N /\ i' = i + 1
        /\ UNCHANGED <<file, s, pc, handled, opened>>
    BY <1>1 DEF Constants, Loop, N
  <2>2. vars'.method_field_name = MethodFieldName(M) /\ vars'.method_name = M.name
    <3> DEFINE names == {"method_field_name", "method_name"}
    <3>1. Set(names) /\ "method_field_name" \in names /\ "method_name" \in names
      BY <1>1 DEF Constants
    <3> HIDE DEF names
    <3> QED
      BY <3>1, Assigned DEF Set
  <2>3. Declare(<<ConstOf(M)>>)
    BY <1>1, <2>2 DEF Constants, ConstOf
  <2> QED
    BY <2>1, <2>3, DeclareText DEF Prints, Sources
<1>2. ASSUME InterfaceFunctions
      PROVE  Prints("interface", "functions", <<FunOf(M)>>) /\ i <= N
  <2>1. /\ pc = <<"interface", "functions">> /\ i <= N /\ i' = i + 1
        /\ UNCHANGED <<file, s, pc, handled, opened>>
    BY <1>2 DEF InterfaceFunctions, Loop, N
  <2>2. /\ vars'.lower_method_name = LowerMethodName(M)
        /\ vars'.input_type = M.input_type /\ vars'.output_type = M.output_type
    <3> DEFINE names == {"input_type", "output_type", "lower_method_name"}
    <3>1. /\ Set(names) /\ "input_type" \in names /\ "output_type" \in names
          /\ "lower_method_name" \in names
      BY <1>2 DEF InterfaceFunctions
    <3> HIDE DEF names
    <3> QED
      BY <3>1, Assigned DEF Set
  <2>3. Declare(<<FunOf(M)>>)
    BY <1>2, <2>2 DEF InterfaceFunctions, Function, FunOf, FunctionOf
  <2> QED
    BY <2>1, <2>3, DeclareText DEF Prints, Sources
<1> QED
  BY <1>1, <1>2

LEMMA RowsPrint ==
  ASSUME Typed, NEW p \in {"client", "server"}
  PROVE  /\ (p = "client" /\ ClientTracers) \/ (p = "server" /\ ServerTracers) =>
              Prints(p, "tracers", <<TracerOf(p, M)>>) /\ i <= N
         /\ Untraced(p) => Prints(p, "untraced", <<AssignmentOf("untraced", M)>>) /\ i <= N
         /\ Traced(p) => Prints(p, "traced", <<AssignmentOf("traced", M)>>) /\ i <= N
<1> p \in Sources
  BY DEF Sources
<1>1. ASSUME p = "client", ClientTracers
      PROVE  Prints(p, "tracers", <<TracerOf(p, M)>>) /\ i <= N
  <2>1. /\ pc = <<p, "tracers">> /\ i <= N /\ i' = i + 1
        /\ UNCHANGED <<file, s, pc, handled, opened>>
    BY <1>1 DEF ClientTracers, Loop, N
  <2>2. vars'.lower_method_name = LowerMethodName(M) /\ vars'.output_type = M.output_type
    <3> DEFINE names == {"output_type", "lower_method_name"}
    <3>1. Set(names) /\ "output_type" \in names /\ "lower_method_name" \in names
      BY <1>1 DEF ClientTracers
    <3> HIDE DEF names
    <3> QED
      BY <3>1, Assigned DEF Set
  <2>3. Declare(<<TracerOf(p, M)>>)
    BY <1>1, <2>2 DEF ClientTracers, Tracer, TracerOf
  <2> QED
    BY <2>1, <2>3, DeclareText DEF Prints
<1>2. ASSUME p = "server", ServerTracers
      PROVE  Prints(p, "tracers", <<TracerOf(p, M)>>) /\ i <= N
  <2>1. /\ pc = <<p, "tracers">> /\ i <= N /\ i' = i + 1
        /\ UNCHANGED <<file, s, pc, handled, opened>>
    BY <1>2 DEF ServerTracers, Loop, N
  <2>2. vars'.lower_method_name = LowerMethodName(M)
    BY <1>2, Assigned DEF ServerTracers, Set
  <2>3. Declare(<<TracerOf(p, M)>>)
    BY <1>2, <2>2 DEF ServerTracers, Tracer, TracerOf
  <2> QED
    BY <2>1, <2>3, DeclareText DEF Prints
<1>3. ASSUME Untraced(p)
      PROVE  Prints(p, "untraced", <<AssignmentOf("untraced", M)>>) /\ i <= N
  <2>1. /\ pc = <<p, "untraced">> /\ i <= N /\ i' = i + 1
        /\ UNCHANGED <<file, s, pc, handled, opened>>
    BY <1>3 DEF Untraced, Loop, N
  <2>2. vars'.lower_method_name = LowerMethodName(M)
    BY <1>3, Assigned DEF Untraced, Set
  <2>3. Declare(<<AssignmentOf("untraced", M)>>)
    BY <1>3, <2>2 DEF Untraced, Assignment, AssignmentOf
  <2> QED
    BY <2>1, <2>3, DeclareText DEF Prints
<1>4. ASSUME Traced(p)
      PROVE  Prints(p, "traced", <<AssignmentOf("traced", M)>>) /\ i <= N
  <2>1. /\ pc = <<p, "traced">> /\ i <= N /\ i' = i + 1
        /\ UNCHANGED <<file, s, pc, handled, opened>>
    BY <1>4 DEF Traced, Loop, N
  <2>2. vars'.lower_method_name = LowerMethodName(M)
    BY <1>4, Assigned DEF Traced, Set
  <2>3. Declare(<<AssignmentOf("traced", M)>>)
    BY <1>4, <2>2 DEF Traced, Assignment, AssignmentOf
  <2> QED
    BY <2>1, <2>3, DeclareText DEF Prints
<1> QED
  BY <1>1, <1>2, <1>3, <1>4

LEMMA ClientPrints ==
  ASSUME Typed, ClientMethods
  PROVE  /\ Prints("client", "methods", <<OverloadOf(M), OverrideOf(M), BodyOf(M)>>)
         /\ i <= N
<1>1. /\ pc = <<"client", "methods">> /\ i <= N /\ i' = i + 1
      /\ UNCHANGED <<file, s, pc, handled, opened>>
  BY DEF ClientMethods, Loop, N
<1>2. /\ vars'.lower_method_name = LowerMethodName(M)
      /\ vars'.method_field_name = MethodFieldName(M)
      /\ vars'.input_type = M.input_type /\ vars'.output_type = M.output_type
  <2> DEFINE names == {"input_type", "output_type", "lower_method_name", "method_field_name"}
  <2>1. /\ Set(names) /\ "input_type" \in names /\ "output_type" \in names
        /\ "lower_method_name" \in names /\ "method_field_name" \in names
    BY DEF ClientMethods, ClientVariables
  <2> HIDE DEF names
  <2> QED
    BY <2>1, Assigned DEF Set
<1>3. /\ Function("overload", M.client_streaming, OverloadReturns(M)) = OverloadOf(M)
      /\ Function("override", M.client_streaming, OverrideReturns(M)) = OverrideOf(M)
  BY <1>2 DEF Function, FunctionOf, OverloadOf, OverrideOf
<1>4. Call(M) = BodyOf(M)
  BY <1>2 DEF Call, BodyOf
<1>5. Declare(<<OverloadOf(M), OverrideOf(M), BodyOf(M)>>)
  BY <1>3, <1>4 DEF ClientMethods
<1> QED
  BY <1>1, <1>5, DeclareText DEF Prints, Sources

ServerBranch(h) ==
  \/ h = "fireAndForget" /\ FireAndForget
  \/ h = "requestResponse" /\ RequestResponse
  \/ h = "requestStream" /\ RequestStream
  \/ h = "requestChannel" /\ RequestChannel

LEMMA ServerPrints ==
  ASSUME Typed, NEW h \in Handlers, ServerBranch(h)
  PROVE  /\ Prints("server", h, <<BranchOf(h, handled[h][i])>>)
         /\ i <= Len(handled[h])
<1> DEFINE m == handled[h][i]
           element == IF h = "fireAndForget" THEN "Empty" ELSE "Payload"
<1>1. Branch(h, ConsumedBy(h, m), element)
  BY DEF ServerBranch, Handlers, FireAndForget, RequestResponse, RequestStream, RequestChannel, ConsumedBy
<1>2. /\ pc = <<"server", h>> /\ i <= Len(handled[h]) /\ i' = i + 1
      /\ UNCHANGED <<file, s, pc, handled, opened>>
  BY <1>1 DEF Branch, Loop
<1>3. /\ vars'.lower_method_name = LowerMethodName(m)
      /\ vars'.method_field_name = MethodFieldName(m)
      /\ vars'.input_type = m.input_type
  <2> DEFINE names == {"input_type", "lower_method_name", "method_field_name"}
                        \union (IF h = "fireAndForget" THEN {} ELSE {"output_type"})
  <2>1. /\ "input_type" \in names /\ "lower_method_name" \in names
        /\ "method_field_name" \in names
    OBVIOUS
  <2>2. vars' = [v \in VarNames |-> IF v \in names THEN Value(v, m) ELSE vars[v]]
    BY <1>1 DEF Branch
  <2> HIDE DEF names, m
  <2> QED
    BY <2>1, <2>2, Assigned
<1>4. Declare(<<BranchOf(h, m)>>)
  BY <1>1, <1>3 DEF Branch, BranchOf
<1> QED
  BY <1>2, <1>4, DeclareText DEF Prints, Sources

-----------------------------------------------------------------------------
(* Steps keep the invariant.                                               *)

LEMMA Sections == ASSUME Typed, pc[1] # "plugin" PROVE s > 0
BY DEF Typed

LEMMA MethodsKept == ASSUME UNCHANGED <<file, s>> PROVE Methods' = Methods /\ N' = N
BY DEF Methods, N

LEMMA TypedMoves ==
  ASSUME Typed, NEW p, NEW section, NEW next, Moves(p, section, next),
         <<p, next>> \in Labels, p # "plugin"
  PROVE  Typed'
<1>1. /\ pc = <<p, section>> /\ pc' = <<p, next>> /\ i' = 1
      /\ UNCHANGED <<file, s, text, handled>>
  BY DEF Moves
<1>2. s > 0 /\ Methods' = Methods /\ N' = N
  BY <1>1, Sections, MethodsKept
<1>3. N \in Nat
  BY <1>2, MethodsTyped
<1>4. \A h \in Handlers : Len(handled[h]) \in Nat
  BY Joined DEF Typed
<1>5. InLoop'
  BY <1>1, <1>2, <1>3, <1>4 DEF InLoop
<1> QED
  BY <1>1, <1>2, <1>5 DEF Typed

LEMMA TypedPrints ==
  ASSUME Typed, NEW p, NEW section, NEW ds, Prints(p, section, ds), p # "plugin",
         section \in Handlers => i <= Len(handled[section]),
         section \notin Handlers => i <= N
  PROVE  Typed'
<1>1. /\ pc = <<p, section>> /\ i' = i + 1 /\ text' = [q \in Sources |-> text'[q]]
      /\ UNCHANGED <<file, s, pc, handled>>
  BY DEF Prints
<1>2. s > 0 /\ Methods' = Methods /\ N' = N
  BY <1>1, Sections, MethodsKept
<1>3. N \in Nat /\ i \in Nat \ {0}
  BY <1>2, MethodsTyped DEF Typed
<1>4. \A h \in Handlers : Len(handled[h]) \in Nat
  BY Joined DEF Typed
<1>5. InLoop'
  <2>1. CASE section \in Handlers
    <3>1. section \notin {"constants", "functions", "tracers", "untraced", "traced",
                          "methods", "handlers"}
      BY <2>1 DEF Handlers
    <3> QED
      BY <1>1, <1>3, <1>4, <2>1, <3>1 DEF InLoop
  <2>2. CASE section \notin Handlers
    BY <1>1, <1>2, <1>3, <2>2 DEF InLoop
  <2> QED
    BY <2>1, <2>2
<1> QED
  BY <1>1, <1>2, <1>3, <1>5 DEF Typed

(* Printing one source keeps what is known of the others.                  *)
LEMMA OthersKept ==
  ASSUME IInv, s > 0, UNCHANGED <<file, s>>, pc'[1] = pc[1]
  PROVE  /\ pc[1] # "interface" /\ text'["interface"] = text["interface"] => InterfaceInv'
         /\ pc[1] # "client" /\ text'["client"] = text["client"] => ClientInv'
         /\ pc[1] # "server" /\ text'["server"] = text["server"] => ServerInv' /\ HandledInv'
<1>1. Methods' = Methods /\ N' = N
  BY MethodsKept
<1>2. Typed /\ InterfaceInv /\ ClientInv /\ ServerInv /\ HandledInv
  BY DEF IInv
<1>3. pc[1] \in Sources
  BY <1>2 DEF Typed, Labels, Sources
<1>4. ASSUME pc[1] # "interface", text'["interface"] = text["interface"] PROVE InterfaceInv'
  BY <1>1, <1>2, <1>3, <1>4 DEF InterfaceInv, Has, Sources
<1>5. ASSUME pc[1] # "client", text'["client"] = text["client"] PROVE ClientInv'
  BY <1>1, <1>2, <1>3, <1>5 DEF ClientInv, RowsInv, Has, Sources
<1>6. ASSUME pc[1] # "server", text'["server"] = text["server"]
      PROVE  ServerInv' /\ HandledInv'
  <2>1. Has("server", 0, {}) /\ Has("server", 0, {})'
    BY <1>1, <1>2, <1>3, <1>6 DEF ServerInv, Has, Sources
  <2>2. pc'[1] # "server" /\ \A x : pc' # <<"server", x>>
    BY <1>6
  <2>3. ServerInv'
    BY <2>1, <2>2 DEF ServerInv, RowsInv
  <2> QED
    BY <2>2, <2>3 DEF HandledInv
<1> QED
  BY <1>4, <1>5, <1>6

LEMMA MovesKeep ==
  ASSUME IInv, NEW p \in Sources, NEW section, NEW next, <<p, next>> \in Labels,
         Moves(p, section, next),
         p = "interface" => InterfaceInv', p = "client" => ClientInv',
         p = "server" => ServerInv' /\ HandledInv'
  PROVE  IInv'
<1>1. /\ pc = <<p, section>> /\ pc' = <<p, next>> /\ p # "plugin"
      /\ UNCHANGED <<file, s, text>>
  BY DEF Moves, Sources
<1>2. Typed /\ s > 0
  BY <1>1, Sections DEF IInv
<1>3. InterfaceInv' /\ ClientInv' /\ ServerInv' /\ HandledInv'
  BY <1>1, <1>2, OthersKept
<1>4. Typed'
  BY <1>1, <1>2, TypedMoves
<1> QED
  BY <1>3, <1>4 DEF IInv

LEMMA PrintsKeep ==
  ASSUME IInv, NEW p \in Sources, NEW section, NEW ds, Prints(p, section, ds),
         section \in Handlers => i <= Len(handled[section]),
         section \notin Handlers => i <= N,
         p = "interface" => InterfaceInv', p = "client" => ClientInv',
         p = "server" => ServerInv' /\ HandledInv'
  PROVE  IInv'
<1>1. /\ pc = <<p, section>> /\ pc' = pc /\ p # "plugin"
      /\ UNCHANGED <<file, s>> /\ \A q \in Sources \ {p} : text'[q] = text[q]
  BY DEF Prints, Sources
<1>2. Typed /\ s > 0
  BY <1>1, Sections DEF IInv
<1>3. InterfaceInv' /\ ClientInv' /\ ServerInv' /\ HandledInv'
  BY <1>1, <1>2, OthersKept DEF Sources
<1>4. Typed'
  BY <1>1, <1>2, TypedPrints
<1> QED
  BY <1>3, <1>4 DEF IInv

LEMMA Growth ==
  ASSUME NEW ms, NEW k \in Nat \ {0}
  PROVE  /\ Funs(ms, 0) = {} /\ ClientMethodsOf(ms, 0) = {}
         /\ \A h : BranchesOf(h, ms, 0) = {}
         /\ Funs(ms, k) = Funs(ms, k - 1) \union {FunOf(ms[k])}
         /\ ClientMethodsOf(ms, k) = ClientMethodsOf(ms, k - 1)
              \union {OverloadOf(ms[k]), OverrideOf(ms[k]), BodyOf(ms[k])}
         /\ \A h : BranchesOf(h, ms, k) = BranchesOf(h, ms, k - 1) \union {BranchOf(h, ms[k])}
<1>1. 1 .. 0 = {} /\ 1 .. k = (1 .. k - 1) \union {k}
  OBVIOUS
<1>2. Funs(ms, k) = Funs(ms, k - 1) \union {FunOf(ms[k])}
  BY <1>1 DEF Funs
<1>3. ClientMethodsOf(ms, k) = ClientMethodsOf(ms, k - 1)
              \union {OverloadOf(ms[k]), OverrideOf(ms[k]), BodyOf(ms[k])}
  BY <1>1 DEF ClientMethodsOf
<1>4. ASSUME NEW h
      PROVE  BranchesOf(h, ms, k) = BranchesOf(h, ms, k - 1) \union {BranchOf(h, ms[k])}
  BY <1>1 DEF BranchesOf
<1>5. Funs(ms, 0) = {} /\ ClientMethodsOf(ms, 0) = {} /\ \A h : BranchesOf(h, ms, 0) = {}
  BY <1>1 DEF Funs, ClientMethodsOf, BranchesOf
<1> QED
  BY <1>2, <1>3, <1>4, <1>5

LEMMA RowIs ==
  ASSUME NEW p \in {"client", "server"}, NEW ms, Len(ms) \in Nat, NEW k \in 1 .. Len(ms)
  PROVE  /\ Row(p, ms, k) = TracerOf(p, ms[k])
         /\ Row(p, ms, Len(ms) + k) = AssignmentOf("untraced", ms[k])
         /\ Row(p, ms, 2 * Len(ms) + k) = AssignmentOf("traced", ms[k])
<1>1. /\ ~(Len(ms) + k <= Len(ms)) /\ Len(ms) + k <= 2 * Len(ms)
      /\ (Len(ms) + k) - Len(ms) = k
      /\ ~(2 * Len(ms) + k <= Len(ms)) /\ ~(2 * Len(ms) + k <= 2 * Len(ms))
      /\ (2 * Len(ms) + k) - 2 * Len(ms) = k
  OBVIOUS
<1> QED
  BY <1>1 DEF Row

(* The way out of a loop, in IInv's terms.                                 *)
LEMMA LeaveMoves ==
  ASSUME NEW p, NEW section, NEW list, NEW tokens, NEW next,
         Leave(<<p, section>>, list, tokens, next)
  PROVE  Moves(p, section, next) /\ i > Len(list)
BY DEF Leave, Moves

LEMMA InterfaceSteps ==
  ASSUME IInv
  PROVE  /\ InterfaceHeader \/ ConstantsEnd \/ InterfaceEnd => IInv'
         /\ Constants \/ InterfaceFunctions => IInv'
<1>0. Typed
  BY DEF IInv
<1>m. ASSUME NEW section, NEW next, <<"interface", next>> \in Labels,
             Moves("interface", section, next), InterfaceInv'
      PROVE  IInv'
  BY <1>m, MovesKeep DEF Sources
<1>p. ASSUME NEW section, section \notin Handlers, i <= N,
             NEW ds, Prints("interface", section, ds), InterfaceInv'
      PROVE  IInv'
  BY <1>p, PrintsKeep DEF Sources
<1>t. ASSUME pc[1] = "interface"
      PROVE  s > 0 /\ N \in Nat /\ i \in Nat \ {0} /\ InterfaceInv
  BY <1>t, <1>0, Sections, MethodsTyped DEF IInv, Typed
<1>k. Funs(Methods, 0) = {}
  BY Growth, 1 \in Nat \ {0}
<1>1. ASSUME InterfaceHeader PROVE IInv'
  <2>1. Moves("interface", "header", "constants")
    BY <1>1, LeaveMoves DEF InterfaceHeader, Header
  <2>2. InterfaceInv'
    BY <2>1, <1>t, MethodsKept DEF Moves, InterfaceInv, Has
  <2> QED
    BY <2>1, <2>2, <1>m DEF Labels
<1>2. ASSUME ConstantsEnd PROVE IInv'
  <2>1. Moves("interface", "constants", "functions") /\ i > N
    BY <1>2, LeaveMoves DEF ConstantsEnd, N
  <2>2. i = N + 1 /\ Has("interface", N, {})
    <3>1. pc = <<"interface", "constants">> /\ pc[1] = "interface" /\ pc[2] = "constants"
      BY <2>1 DEF Moves
    <3>2. i <= N + 1
      BY <3>1, <1>t, <1>0 DEF Typed, InLoop
    <3>3. i = N + 1 /\ i - 1 = N
      BY <3>1, <3>2, <2>1, <1>t
    <3> QED
      BY <3>1, <3>3, <1>t DEF InterfaceInv
  <2>3. InterfaceInv'
    BY <2>1, <2>2, <1>k, <1>t, MethodsKept DEF Moves, InterfaceInv, Has
  <2> QED
    BY <2>1, <2>3, <1>m DEF Labels
<1>3. ASSUME InterfaceEnd PROVE IInv'
  <2>1. Moves("interface", "functions", "end") /\ i > N
    BY <1>3, LeaveMoves DEF InterfaceEnd, N
  <2>2. i = N + 1 /\ Has("interface", N, Funs(Methods, N))
    <3>1. pc = <<"interface", "functions">> /\ pc[1] = "interface" /\ pc[2] = "functions"
      BY <2>1 DEF Moves
    <3>2. i <= N + 1
      BY <3>1, <1>t, <1>0 DEF Typed, InLoop
    <3>3. i = N + 1 /\ i - 1 = N
      BY <3>1, <3>2, <2>1, <1>t
    <3> QED
      BY <3>1, <3>3, <1>t DEF InterfaceInv
  <2>3. InterfaceInv'
    BY <2>1, <2>2, <1>t, MethodsKept DEF Moves, InterfaceInv, Has
  <2> QED
    BY <2>1, <2>3, <1>m DEF Labels
<1>4. ASSUME Constants PROVE IInv'
  <2>1. Prints("interface", "constants", <<ConstOf(M)>>) /\ i <= N
    BY <1>0, <1>4, InterfacePrints
  <2>2. /\ pc = <<"interface", "constants">> /\ pc' = pc /\ i' = i + 1
        /\ text'["interface"] = text["interface"] \o <<ConstOf(M)>>
        /\ Methods' = Methods /\ N' = N
    BY <2>1, MethodsKept DEF Prints
  <2>3. HasText("interface", text["interface"], Methods, i - 1, {})
    BY <2>2, <1>t DEF InterfaceInv, Has
  <2>4. ConstOf(M) = Row("interface", Methods, (i - 1) + 1) /\ (i - 1) + 1 = i /\ (i + 1) - 1 = i
    BY <2>2, <1>t DEF Row, M
  <2>5. HasText("interface", text["interface"] \o <<ConstOf(M)>>, Methods, (i - 1) + 1, {})
    BY <2>3, <2>4, RowAdded
  <2>6. InterfaceInv'
    BY <2>2, <2>4, <2>5 DEF InterfaceInv, Has
  <2> QED
    BY <2>1, <2>6, <1>p DEF Handlers
<1>5. ASSUME InterfaceFunctions PROVE IInv'
  <2>1. Prints("interface", "functions", <<FunOf(M)>>) /\ i <= N
    BY <1>0, <1>5, InterfacePrints
  <2>2. /\ pc = <<"interface", "functions">> /\ pc' = pc /\ i' = i + 1
        /\ text'["interface"] = text["interface"] \o <<FunOf(M)>>
        /\ Methods' = Methods /\ N' = N
    BY <2>1, MethodsKept DEF Prints
  <2>3. HasText("interface", text["interface"], Methods, N, Funs(Methods, i - 1))
    BY <2>2, <1>t DEF InterfaceInv, Has
  <2>4. Funs(Methods, i - 1) \union {FunOf(M)} = Funs(Methods, i) /\ (i + 1) - 1 = i
    BY <2>2, <1>t, Growth DEF M
  <2>5. HasText("interface", text["interface"] \o <<FunOf(M)>>, Methods, N, Funs(Methods, i))
    BY <2>3, <2>4, RestAdded, Single
  <2>6. InterfaceInv'
    BY <2>2, <2>4, <2>5 DEF InterfaceInv, Has
  <2> QED
    BY <2>1, <2>6, <1>p DEF Handlers
<1> QED
  BY <1>1, <1>2, <1>3, <1>4, <1>5

(* In the rows of the client and of the server.                            *)
LEMMA RowsKeep ==
  ASSUME IInv, NEW p \in {"client", "server"}, UNCHANGED <<file, s, handled>>,
         pc[1] = p, pc[2] \in {"header", "tracers", "untraced", "traced"},
         NEW x \in {"tracers", "untraced", "traced"}, pc' = <<p, x>>, RowsInv(p)'
  PROVE  (p = "client" => ClientInv') /\ (p = "server" => ServerInv' /\ HandledInv')
<1>1. ASSUME p = "client" PROVE ClientInv'
  BY <1>1 DEF ClientInv
<1>2. ASSUME p = "server" PROVE ServerInv'
  <2>1. \A h \in Handlers : x # h
    BY DEF Handlers
  <2> QED
    BY <1>2, <2>1 DEF ServerInv
<1>3. ASSUME p = "server" PROVE HandledInv'
  <2>1. Typed /\ s > 0 /\ HandledInv
    BY <1>3, Sections DEF IInv
  <2>2. HandledTo(0)
    BY <1>3, <2>1 DEF HandledInv
  <2>3. HandledTo(0)'
    BY <2>2, MethodsKept DEF HandledTo
  <2>4. x \notin Handlers \union {"payloads", "companion", "end"} /\ x # "handlers"
    BY DEF Handlers
  <2> QED
    BY <2>3, <2>4 DEF HandledInv
<1> QED
  BY <1>1, <1>2, <1>3

LEMMA RowsEntered ==
  ASSUME IInv, NEW p \in {"client", "server"}, NEW next \in {"tracers", "untraced", "traced"},
         \/ Moves(p, "header", "tracers") /\ next = "tracers"
         \/ Moves(p, "tracers", "untraced") /\ i > N /\ next = "untraced"
         \/ Moves(p, "untraced", "traced") /\ i > N /\ next = "traced"
  PROVE  IInv'
<1>1. PICK section \in {"header", "tracers", "untraced"} : Moves(p, section, next)
  OBVIOUS
<1>2. /\ pc = <<p, section>> /\ pc[1] = p /\ pc[2] = section
      /\ pc' = <<p, next>> /\ i' = 1 /\ UNCHANGED <<file, s, text, handled>>
      /\ Methods' = Methods /\ N' = N
  BY <1>1, MethodsKept DEF Moves
<1>3. Typed /\ s > 0 /\ N \in Nat /\ i \in Nat \ {0} /\ RowsInv(p) /\ InLoop
  BY <1>2, Sections, MethodsTyped DEF IInv, ClientInv, ServerInv, Typed
<1>4. RowsInv(p)'
  <2>1. CASE section = "header"
    BY <2>1, <1>2, <1>3 DEF RowsInv, Has, Moves
  <2>2. CASE section = "tracers"
    <3>1. i - 1 = N /\ N + (1 - 1) = N /\ next = "untraced"
      BY <2>2, <1>2, <1>3 DEF InLoop, Moves
    <3> QED
      BY <2>2, <3>1, <1>2, <1>3 DEF RowsInv, Has
  <2>3. CASE section = "untraced"
    <3>1. N + (i - 1) = 2 * N /\ 2 * N + (1 - 1) = 2 * N /\ next = "traced"
      BY <2>3, <1>2, <1>3 DEF InLoop, Moves
    <3> QED
      BY <2>3, <3>1, <1>2, <1>3 DEF RowsInv, Has
  <2> QED
    BY <2>1, <2>2, <2>3
<1>5. (p = "client" => ClientInv') /\ (p = "server" => ServerInv' /\ HandledInv')
  BY <1>2, <1>4, RowsKeep
<1>6. <<p, next>> \in Labels /\ p \in Sources /\ p # "interface"
  BY DEF Labels, Sources
<1> QED
  BY <1>1, <1>5, <1>6, MovesKeep

LEMMA RowsPrinted ==
  ASSUME IInv, NEW p \in {"client", "server"}, i <= N, NEW d,
         NEW section \in {"tracers", "untraced", "traced"}, Prints(p, section, <<d>>),
         d = CASE section = "tracers" -> TracerOf(p, M)
               [] section = "untraced" -> AssignmentOf("untraced", M)
               [] section = "traced" -> AssignmentOf("traced", M)
  PROVE  IInv'
<1>1. /\ pc = <<p, section>> /\ pc[1] = p /\ pc[2] = section
      /\ pc' = <<p, section>> /\ i' = i + 1 /\ UNCHANGED <<file, s, handled>>
      /\ text'[p] = text[p] \o <<d>> /\ Methods' = Methods /\ N' = N
  BY MethodsKept DEF Prints
<1>2. Typed /\ s > 0 /\ N \in Nat /\ i \in Nat \ {0} /\ RowsInv(p)
  BY <1>1, Sections, MethodsTyped DEF IInv, ClientInv, ServerInv, Typed
<1>3. /\ i \in 1 .. N /\ Row(p, Methods, i) = TracerOf(p, M)
      /\ Row(p, Methods, N + i) = AssignmentOf("untraced", M)
      /\ Row(p, Methods, 2 * N + i) = AssignmentOf("traced", M)
  BY <1>2, RowIs DEF N, M
<1>a. /\ (i - 1) + 1 = i /\ (i + 1) - 1 = i /\ (N + (i - 1)) + 1 = N + i
      /\ N + ((i + 1) - 1) = N + i
      /\ (2 * N + (i - 1)) + 1 = 2 * N + i /\ 2 * N + ((i + 1) - 1) = 2 * N + i
  BY <1>2
<1>4. RowsInv(p)'
  <2>1. CASE section = "tracers"
    <3>1. HasText(p, text[p], Methods, i - 1, {}) /\ d = Row(p, Methods, (i - 1) + 1)
      BY <2>1, <1>1, <1>2, <1>3, <1>a DEF RowsInv, Has
    <3>2. HasText(p, text[p] \o <<d>>, Methods, (i - 1) + 1, {})
      BY <3>1, RowAdded
    <3> QED
      BY <2>1, <3>2, <1>1, <1>a DEF RowsInv, Has
  <2>2. CASE section = "untraced"
    <3>1. HasText(p, text[p], Methods, N + (i - 1), {}) /\ d = Row(p, Methods, (N + (i - 1)) + 1)
      BY <2>2, <1>1, <1>2, <1>3, <1>a DEF RowsInv, Has
    <3>2. HasText(p, text[p] \o <<d>>, Methods, (N + (i - 1)) + 1, {})
      BY <3>1, RowAdded
    <3> QED
      BY <2>2, <3>2, <1>1, <1>a DEF RowsInv, Has
  <2>3. CASE section = "traced"
    <3>1. /\ HasText(p, text[p], Methods, 2 * N + (i - 1), {})
          /\ d = Row(p, Methods, (2 * N + (i - 1)) + 1)
      BY <2>3, <1>1, <1>2, <1>3, <1>a DEF RowsInv, Has
    <3>2. HasText(p, text[p] \o <<d>>, Methods, (2 * N + (i - 1)) + 1, {})
      BY <3>1, RowAdded
    <3> QED
      BY <2>3, <3>2, <1>1, <1>a DEF RowsInv, Has
  <2> QED
    BY <2>1, <2>2, <2>3
<1>5. (p = "client" => ClientInv') /\ (p = "server" => ServerInv' /\ HandledInv')
  BY <1>1, <1>4, RowsKeep
<1>6. section \notin Handlers /\ p \in Sources /\ p # "interface"
  BY DEF Handlers, Sources
<1> QED
  BY <1>5, <1>6, PrintsKeep

LEMMA RowSteps ==
  ASSUME IInv
  PROVE  /\ ClientHeader \/ ServerHeader => IInv'
         /\ ClientTracers \/ ServerTracers => IInv'
         /\ \A p \in {"client", "server"} :
              InitBlock(p) \/ Untraced(p) \/ UntracedEnd(p) \/ Traced(p) => IInv'
<1>0. Typed
  BY DEF IInv
<1>1. ClientHeader \/ ServerHeader => IInv'
  <2>1. ClientHeader => Moves("client", "header", "tracers")
    BY LeaveMoves DEF ClientHeader, Header
  <2>2. ServerHeader => Moves("server", "header", "tracers")
    BY LeaveMoves DEF ServerHeader, Header
  <2> QED
    BY <2>1, <2>2, RowsEntered
<1>2. ASSUME NEW p \in {"client", "server"},
             (p = "client" /\ ClientTracers) \/ (p = "server" /\ ServerTracers)
      PROVE  IInv'
  <2>1. Prints(p, "tracers", <<TracerOf(p, M)>>) /\ i <= N
    BY <1>0, <1>2, RowsPrint
  <2> QED
    BY <2>1, RowsPrinted
<1>3. ASSUME NEW p \in {"client", "server"}, InitBlock(p) PROVE IInv'
  <2>1. Moves(p, "tracers", "untraced") /\ i > N
    BY <1>3, LeaveMoves DEF InitBlock, N
  <2> QED
    BY <2>1, RowsEntered
<1>4. ASSUME NEW p \in {"client", "server"}, Untraced(p) PROVE IInv'
  <2>1. Prints(p, "untraced", <<AssignmentOf("untraced", M)>>) /\ i <= N
    BY <1>0, <1>4, RowsPrint
  <2> QED
    BY <2>1, RowsPrinted
<1>5. ASSUME NEW p \in {"client", "server"}, UntracedEnd(p) PROVE IInv'
  <2>1. Moves(p, "untraced", "traced") /\ i > N
    BY <1>5, LeaveMoves DEF UntracedEnd, N
  <2> QED
    BY <2>1, RowsEntered
<1>6. ASSUME NEW p \in {"client", "server"}, Traced(p) PROVE IInv'
  <2>1. Prints(p, "traced", <<AssignmentOf("traced", M)>>) /\ i <= N
    BY <1>0, <1>6, RowsPrint
  <2> QED
    BY <2>1, RowsPrinted
<1> QED
  BY <1>1, <1>2, <1>3, <1>4, <1>5, <1>6

LEMMA ClientSteps ==
  ASSUME IInv
  PROVE  ClientTracedEnd \/ ClientMethods \/ ClientEnd => IInv'
<1>0. Typed
  BY DEF IInv
<1>t. ASSUME pc[1] = "client"
      PROVE  s > 0 /\ N \in Nat /\ i \in Nat \ {0} /\ ClientInv /\ InLoop
  BY <1>t, <1>0, Sections, MethodsTyped DEF IInv, Typed
<1>k. ClientMethodsOf(Methods, 0) = {}
  BY Growth, 1 \in Nat \ {0}
<1>1. ASSUME ClientTracedEnd PROVE IInv'
  <2>1. Moves("client", "traced", "methods") /\ i > N
    BY <1>1, LeaveMoves DEF ClientTracedEnd, N
  <2>2. /\ pc = <<"client", "traced">> /\ pc[1] = "client" /\ pc[2] = "traced"
        /\ pc' = <<"client", "methods">> /\ i' = 1 /\ UNCHANGED text
        /\ Methods' = Methods /\ N' = N
    BY <2>1, MethodsKept DEF Moves
  <2>3. 2 * N + (i - 1) = 3 * N
    BY <2>1, <2>2, <1>t DEF InLoop
  <2>4. Has("client", 3 * N, {})
    BY <2>2, <2>3, <1>t DEF ClientInv, RowsInv
  <2>5. ClientInv'
    BY <2>2, <2>4, <1>k DEF ClientInv, RowsInv, Has
  <2> QED
    BY <2>1, <2>5, MovesKeep DEF Labels, Sources
<1>2. ASSUME ClientEnd PROVE IInv'
  <2>1. Moves("client", "methods", "end") /\ i > N
    BY <1>2, LeaveMoves DEF ClientEnd, N
  <2>2. /\ pc = <<"client", "methods">> /\ pc[1] = "client" /\ pc[2] = "methods"
        /\ pc' = <<"client", "end">> /\ UNCHANGED text
        /\ Methods' = Methods /\ N' = N
    BY <2>1, MethodsKept DEF Moves
  <2>3. i - 1 = N
    BY <2>1, <2>2, <1>t DEF InLoop
  <2>4. Has("client", 3 * N, ClientMethodsOf(Methods, N))
    BY <2>2, <2>3, <1>t DEF ClientInv
  <2>5. ClientInv'
    BY <2>2, <2>4 DEF ClientInv, RowsInv, Has
  <2> QED
    BY <2>1, <2>5, MovesKeep DEF Labels, Sources
<1>3. ASSUME ClientMethods PROVE IInv'
  <2> DEFINE ds == <<OverloadOf(M), OverrideOf(M), BodyOf(M)>>
  <2>1. Prints("client", "methods", ds) /\ i <= N
    BY <1>0, <1>3, ClientPrints
  <2>2. IsSeq(ds) /\ Range(ds) = {OverloadOf(M), OverrideOf(M), BodyOf(M)}
    <3>1. Range(ds) = {OverloadOf(M), OverrideOf(M), BodyOf(M)}
      BY DEF Range
    <3>2. ds \in Seq({OverloadOf(M), OverrideOf(M), BodyOf(M)})
      OBVIOUS
    <3> QED
      BY <3>1, <3>2 DEF IsSeq
  <2> HIDE DEF ds
  <2>3. /\ pc = <<"client", "methods">> /\ pc' = pc /\ i' = i + 1
        /\ text'["client"] = text["client"] \o ds
        /\ Methods' = Methods /\ N' = N
    BY <2>1, MethodsKept DEF Prints
  <2>4. HasText("client", text["client"], Methods, 3 * N, ClientMethodsOf(Methods, i - 1))
    BY <2>3, <1>t DEF ClientInv, Has
  <2>5. /\ ClientMethodsOf(Methods, i - 1) \union Range(ds) = ClientMethodsOf(Methods, i)
        /\ (i + 1) - 1 = i
    BY <2>2, <2>3, <1>t, Growth DEF M
  <2>6. HasText("client", text["client"] \o ds, Methods, 3 * N, ClientMethodsOf(Methods, i))
    BY <2>2, <2>4, <2>5, RestAdded
  <2>7. ClientInv'
    BY <2>3, <2>5, <2>6 DEF ClientInv, RowsInv, Has
  <2> QED
    BY <2>1, <2>7, PrintsKeep DEF Handlers, Sources
<1> QED
  BY <1>1, <1>2, <1>3

LEMMA StartSteps ==
  ASSUME IInv
  PROVE  StartService \/ StartClient \/ StartServer => IInv'
<1>0. Typed
  BY DEF IInv
<1>1. ASSUME NEW p, Open(p)
      PROVE  /\ pc' = <<p, "header">> /\ i' = 1
             /\ handled' = [h \in Handlers |-> <<>>]
             /\ handled' = [h \in Handlers |-> handled'[h]]
             /\ \A h \in Handlers : IsSeq(handled'[h]) /\ Range(handled'[h]) = {}
  <2>1. IsSeq(<<>>) /\ Range(<<>>) = {}
    <3>1. Range(<<>>) = {}
      BY DEF Range
    <3> QED
      BY <3>1 DEF IsSeq
  <2> QED
    BY <1>1, <2>1 DEF Open
<1>2. ASSUME StartService PROVE IInv'
  <2>1. /\ pc[2] = "end" /\ pc[1] \in {"plugin", "server"} /\ s < Len(file)
        /\ s' = s + 1 /\ text' = Nothing /\ Open("interface") /\ UNCHANGED file
    BY <1>2 DEF StartService
  <2>2. s' \in 0 .. Len(file) /\ s' > 0
    BY <2>1, <1>0 DEF Typed
  <2>3. pc' = <<"interface", "header">> /\ pc' \in Labels /\ pc'[1] = "interface"
    BY <2>1, <1>1 DEF Labels
  <2>4. InLoop'
    BY <2>3 DEF InLoop, Handlers
  <2>5. Typed'
    BY <1>0, <1>1, <2>1, <2>2, <2>3, <2>4 DEF Typed, Nothing
  <2>6. \A p \in Sources : Has(p, 0, {})'
    <3>1. \A p \in Sources : text'[p] = <<>>
      BY <2>1 DEF Nothing
    <3>2. Range(<<>>) = {} /\ Len(<<>>) = 0
      BY DEF Range
    <3>3. IsSeq(<<>>)
      BY <3>2 DEF IsSeq
    <3>4. \A p, ms : HasText(p, <<>>, ms, 0, {})
      BY <3>2, <3>3 DEF HasText
    <3> QED
      BY <3>1, <3>4 DEF Has
  <2>7. InterfaceInv'
    BY <2>3, <2>6 DEF InterfaceInv, Sources
  <2>8. ClientInv'
    BY <2>3, <2>6 DEF ClientInv, RowsInv, Sources
  <2>9. ServerInv' /\ HandledInv'
    BY <2>3, <2>6 DEF ServerInv, RowsInv, Sources, HandledInv
  <2> QED
    BY <2>5, <2>7, <2>8, <2>9 DEF IInv
<1>3. ASSUME NEW p \in {"client", "server"}, pc[2] = "end",
             p = "client" => pc[1] = "interface", p = "server" => pc[1] = "client",
             s' = s, Open(p), UNCHANGED <<file, text>>
      PROVE  IInv'
  <2>1. s > 0
    BY <1>0, <1>3, Sections
  <2>2. pc' = <<p, "header">> /\ pc' \in Labels /\ pc'[1] = p /\ pc'[2] = "header" /\ p # "plugin"
    BY <1>1, <1>3 DEF Labels
  <2>3. InLoop'
    BY <2>2 DEF InLoop, Handlers
  <2>4. Typed'
    BY <1>0, <1>1, <1>3, <2>1, <2>2, <2>3 DEF Typed
  <2>5. Methods' = Methods /\ N' = N
    BY <1>3, MethodsKept
  <2>6. pc \in Labels /\ pc = <<pc[1], "end">>
    BY <1>0, <1>3 DEF Typed, Labels
  <2>7. InterfaceInv /\ ClientInv /\ ServerInv
    BY <2>1 DEF IInv
  <2>8. InterfaceInv'
    BY <1>3, <2>2, <2>5, <2>6, <2>7 DEF InterfaceInv, Has
  <2>9. ClientInv'
    BY <1>3, <2>2, <2>5, <2>6, <2>7 DEF ClientInv, RowsInv, Has
  <2>10. ServerInv'
    <3>1. Has("server", 0, {})'
      BY <1>3, <2>5, <2>7 DEF ServerInv, Has
    <3>2. \A h \in Handlers : h # "header"
      BY DEF Handlers
    <3> QED
      BY <2>2, <3>1, <3>2 DEF ServerInv, RowsInv
  <2>11. HandledInv'
    <3>1. HandledTo(0)'
      <4>1. \A f : {f[x] : x \in {}} = {}
        OBVIOUS
      <4>2. \A h \in Handlers : {y \in 1 .. 0 : Handler(Methods'[y]) = h} = {}
        OBVIOUS
      <4> QED
        BY <1>1, <1>3, <4>1, <4>2 DEF HandledTo
    <3> QED
      BY <2>2, <3>1 DEF HandledInv, Handlers
  <2> QED
    BY <2>4, <2>8, <2>9, <2>10, <2>11 DEF IInv
<1>4. ASSUME StartClient PROVE IInv'
  <2>1. /\ pc = <<"interface", "end">> /\ s' = s /\ Open("client") /\ UNCHANGED <<file, text>>
    BY <1>4 DEF StartClient
  <2> QED
    BY <2>1, <1>3
<1>5. ASSUME StartServer PROVE IInv'
  <2>1. /\ pc = <<"client", "end">> /\ s' = s /\ Open("server") /\ UNCHANGED <<file, text>>
    BY <1>5 DEF StartServer
  <2> QED
    BY <2>1, <1>3
<1> QED
  BY <1>2, <1>4, <1>5

LEMMA Appended ==
  ASSUME NEW t, IsSeq(t), NEW d
  PROVE  IsSeq(Append(t, d)) /\ Range(Append(t, d)) = Range(t) \union {d}
         /\ Len(Append(t, d)) = Len(t) + 1 /\ Len(t) \in Nat
<1> DEFINE v == t \o <<d>>
<1>2. Append(t, d) = v
  <2> DEFINE S == Range(t)
  <2>1. t \in Seq(S)
    BY DEF IsSeq
  <2> HIDE DEF S
  <2>2. t \in Seq(S \union {d})
    BY <2>1
  <2> DEFINE Q == S \union {d}
  <2>3. t \in Seq(Q) /\ d \in Q
    BY <2>2
  <2> HIDE DEF Q
  <2> QED
    BY <2>3
<1>3. /\ IsSeq(v) /\ Len(v) = Len(t) + 1 /\ Len(t) \in Nat
      /\ \A x \in 1 .. Len(t) : v[x] = t[x]
      /\ v[Len(t) + 1] = d
  BY Extended
<1> HIDE DEF v
<1>4. DOMAIN t = 1 .. Len(t) /\ DOMAIN v = 1 .. Len(v)
  BY <1>3 DEF IsSeq
<1>5. DOMAIN v = DOMAIN t \union {Len(t) + 1}
  BY <1>3, <1>4
<1>6. Range(v) = Range(t) \union {d}
  BY <1>3, <1>4, <1>5 DEF Range
<1> QED
  BY <1>2, <1>3, <1>6

LEMMA CollectStep ==
  ASSUME IInv, Collect
  PROVE  IInv'
<1>1. /\ pc = <<"server", "handlers">> /\ i <= N /\ pc' = pc /\ i' = i + 1
      /\ handled' = [handled EXCEPT ![Handler(M)] = Append(@, M)]
      /\ UNCHANGED <<file, s, text>> /\ Methods' = Methods /\ N' = N
  BY MethodsKept DEF Collect, N
<1>2. /\ Typed /\ s > 0 /\ N \in Nat /\ i \in Nat \ {0} /\ ServerInv /\ HandledInv
      /\ handled = [h \in Handlers |-> handled[h]] /\ \A h \in Handlers : IsSeq(handled[h])
  BY <1>1, Sections, MethodsTyped DEF IInv, Typed
<1>3. Handler(M) \in Handlers
  BY DEF Handler, Handlers
<1>4. /\ handled' = [h \in Handlers |-> handled'[h]]
      /\ handled'[Handler(M)] = Append(handled[Handler(M)], M)
      /\ \A h \in Handlers \ {Handler(M)} : handled'[h] = handled[h]
  BY <1>1, <1>2, <1>3
<1>5. /\ IsSeq(handled'[Handler(M)])
      /\ Range(handled'[Handler(M)]) = Range(handled[Handler(M)]) \union {M}
  BY <1>2, <1>3, <1>4, Appended
<1>6. Typed'
  <2>1. \A h \in Handlers : IsSeq(handled'[h])
    BY <1>2, <1>4, <1>5
  <2>2. InLoop'
    BY <1>1, <1>2 DEF InLoop, Handlers
  <2> QED
    BY <1>1, <1>2, <1>4, <2>1, <2>2 DEF Typed
<1>7. InterfaceInv' /\ ClientInv'
  BY <1>1, <1>2, OthersKept
<1>8. ServerInv'
  <2>1. Has("server", 3 * N, {})'
    BY <1>1, <1>2 DEF ServerInv, Has
  <2> QED
    BY <1>1, <2>1 DEF ServerInv, RowsInv, Handlers
<1>9. HandledTo(i - 1)'
  <2>1. HandledTo(i - 1)
    BY <1>1, <1>2 DEF HandledInv
  <2>2. 1 .. i = (1 .. i - 1) \union {i}
    BY <1>2
  <2>3. ASSUME NEW h \in Handlers
        PROVE  Range(handled'[h]) = {Methods[x] : x \in {y \in 1 .. i : Handler(Methods[y]) = h}}
    <3>1. Range(handled[h]) = {Methods[x] : x \in {y \in 1 .. i - 1 : Handler(Methods[y]) = h}}
      BY <2>1 DEF HandledTo
    <3>2. CASE h = Handler(M)
      <4>1. {y \in 1 .. i : Handler(Methods[y]) = h}
              = {y \in 1 .. i - 1 : Handler(Methods[y]) = h} \union {i}
        BY <2>2, <3>2 DEF M
      <4> QED
        BY <1>5, <3>1, <3>2, <4>1 DEF M
    <3>3. CASE h # Handler(M)
      <4>1. {y \in 1 .. i : Handler(Methods[y]) = h}
              = {y \in 1 .. i - 1 : Handler(Methods[y]) = h}
        BY <2>2, <3>3 DEF M
      <4> QED
        BY <1>4, <3>1, <3>3, <4>1
    <3> QED
      BY <3>2, <3>3
  <2>4. i' - 1 = i
    BY <1>1, <1>2
  <2> QED
    BY <1>1, <2>3, <2>4 DEF HandledTo
<1>10. HandledInv'
  BY <1>1, <1>9 DEF HandledInv, Handlers
<1> QED
  BY <1>6, <1>7, <1>8, <1>10 DEF IInv

(* The server's handlers, in the order in which they are printed.          *)
LEMMA BranchesTogether ==
  /\ AllBranches(Earlier("fireAndForget")) = {}
  /\ \A hs : \A h \in Handlers :
       AllBranches(hs \union {h})
         = AllBranches(hs) \union BranchesOf(h, handled[h], Len(handled[h]))
  /\ Earlier("requestResponse") = Earlier("fireAndForget") \union {"fireAndForget"}
  /\ Earlier("requestStream") = Earlier("requestResponse") \union {"requestResponse"}
  /\ Earlier("requestChannel") = Earlier("requestStream") \union {"requestStream"}
  /\ Handlers = Earlier("requestChannel") \union {"requestChannel"}
<1>1. AllBranches(Earlier("fireAndForget")) = {}
  BY DEF AllBranches, Earlier
<1>2. ASSUME NEW h \in Handlers, NEW hs
      PROVE  AllBranches(hs \union {h})
               = AllBranches(hs) \union BranchesOf(h, handled[h], Len(handled[h]))
  BY DEF AllBranches
<1>3. /\ Earlier("requestResponse") = Earlier("fireAndForget") \union {"fireAndForget"}
      /\ Earlier("requestStream") = Earlier("requestResponse") \union {"requestResponse"}
  BY DEF Earlier
<1>4. Earlier("requestChannel") = Earlier("requestStream") \union {"requestStream"}
  BY DEF Earlier
<1>5. Handlers = Earlier("requestChannel") \union {"requestChannel"}
  BY DEF Earlier, Handlers
<1> QED
  BY <1>1, <1>2, <1>3, <1>4, <1>5

LEMMA CollectedKept ==
  ASSUME IInv, pc[1] = "server", pc[2] \in Handlers \union {"payloads", "companion"},
         NEW x \in Handlers \union {"payloads", "companion", "end"}, pc' = <<"server", x>>,
         UNCHANGED <<file, s, handled>>
  PROVE  HandledInv' /\ \A hs : AllBranches(hs)' = AllBranches(hs)
<1>1. Typed /\ s > 0 /\ HandledInv
  BY Sections DEF IInv
<1>2. HandledTo(N)
  BY <1>1 DEF HandledInv
<1>3. HandledTo(N)'
  BY <1>2, MethodsKept DEF HandledTo
<1>4. x \notin {"header", "tracers", "untraced", "traced", "handlers"}
  BY DEF Handlers
<1>5. \A hs : AllBranches(hs)' = AllBranches(hs)
  BY DEF AllBranches
<1> QED
  BY <1>3, <1>4, <1>5 DEF HandledInv

(* After the last branch of a handler, what comes next.                    *)
LEMMA HandlerLeft ==
  ASSUME IInv, NEW h \in Handlers, NEW next \in Handlers \union {"payloads"},
         Moves("server", h, next), i > Len(handled[h]),
         next \in Handlers => Earlier(next) = Earlier(h) \union {h},
         next = "payloads" => Handlers = Earlier(h) \union {h}
  PROVE  IInv'
<1>1. /\ pc = <<"server", h>> /\ pc[1] = "server" /\ pc[2] = h /\ pc' = <<"server", next>>
      /\ i' = 1 /\ UNCHANGED <<file, s, text, handled>> /\ Methods' = Methods /\ N' = N
  BY MethodsKept DEF Moves
<1>2. Typed /\ s > 0 /\ i \in Nat \ {0} /\ InLoop /\ ServerInv /\ IsSeq(handled[h])
  BY <1>1, Sections DEF IInv, Typed
<1>3. i - 1 = Len(handled[h])
  <2>1. i <= Len(handled[h]) + 1
    BY <1>1, <1>2 DEF InLoop
  <2>2. Len(handled[h]) \in Nat
    BY <1>2, Joined
  <2> QED
    BY <1>2, <2>1, <2>2
<1>4. HandledInv' /\ \A hs : AllBranches(hs)' = AllBranches(hs)
  BY <1>1, CollectedKept
<1>5. Has("server", 3 * N, AllBranches(Earlier(h) \union {h}))
  <2>1. Has("server", 3 * N, AllBranches(Earlier(h))
                               \union BranchesOf(h, handled[h], Len(handled[h])))
    BY <1>1, <1>2, <1>3 DEF ServerInv
  <2> QED
    BY <2>1, BranchesTogether
<1>6. ServerInv'
  <2>1. CASE next = "payloads"
    <3>1. Has("server", 3 * N, AllBranches(Handlers))'
      BY <1>1, <1>4, <1>5, <2>1 DEF Has
    <3> QED
      BY <1>1, <2>1, <3>1 DEF ServerInv, RowsInv, Handlers
  <2>2. CASE next \in Handlers
    <3>1. BranchesOf(next, handled[next], 0) = {}
      BY Growth, 1 \in Nat \ {0}
    <3>2. Has("server", 3 * N, AllBranches(Earlier(next)))
      BY <1>5, <2>2
    <3>3. Has("server", 3 * N, AllBranches(Earlier(next))
                                 \union BranchesOf(next, handled[next], 0))
      BY <3>1, <3>2
    <3>4. Has("server", 3 * N, AllBranches(Earlier(next))
                                 \union BranchesOf(next, handled[next], i - 1))'
      <4>1. i' - 1 = 0 /\ AllBranches(Earlier(next))' = AllBranches(Earlier(next))
        BY <1>1, <1>4
      <4> QED
        BY <1>1, <3>3, <4>1 DEF Has
    <3>5. /\ next \notin {"header", "tracers", "untraced", "traced", "handlers",
                          "payloads", "companion", "end"}
      BY <2>2 DEF Handlers
    <3> QED
      BY <1>1, <3>4, <3>5 DEF ServerInv, RowsInv
  <2> QED
    BY <2>1, <2>2
<1>7. <<"server", next>> \in Labels
  BY DEF Labels
<1> QED
  BY <1>4, <1>6, <1>7, MovesKeep DEF Sources

LEMMA BranchPrinted ==
  ASSUME IInv, NEW h \in Handlers, ServerBranch(h)
  PROVE  IInv'
<1> DEFINE d == BranchOf(h, handled[h][i])
<1>0. Typed
  BY DEF IInv
<1>1. Prints("server", h, <<d>>) /\ i <= Len(handled[h])
  BY <1>0, ServerPrints
<1> HIDE DEF d
<1>2. /\ pc = <<"server", h>> /\ pc[1] = "server" /\ pc[2] = h /\ pc' = <<"server", h>>
      /\ i' = i + 1 /\ text'["server"] = text["server"] \o <<d>>
      /\ UNCHANGED <<file, s, handled>> /\ Methods' = Methods /\ N' = N
  BY <1>1, MethodsKept DEF Prints
<1>3. s > 0 /\ i \in Nat \ {0} /\ ServerInv
  BY <1>0, <1>2, Sections DEF IInv, Typed
<1>4. HandledInv' /\ \A hs : AllBranches(hs)' = AllBranches(hs)
  BY <1>2, CollectedKept
<1>5. ServerInv'
  <2> DEFINE rest == AllBranches(Earlier(h)) \union BranchesOf(h, handled[h], i - 1)
             more == AllBranches(Earlier(h)) \union BranchesOf(h, handled[h], i)
  <2>1. HasText("server", text["server"], Methods, 3 * N, rest)
    BY <1>2, <1>3 DEF ServerInv, Has
  <2>2. rest \union {d} = more
    BY <1>3, Growth DEF d
  <2> HIDE DEF rest
  <2>3. HasText("server", text["server"] \o <<d>>, Methods, 3 * N, more)
    BY <2>1, <2>2, RestAdded, Single
  <2>4. (i + 1) - 1 = i
    BY <1>3
  <2>5. Has("server", 3 * N, AllBranches(Earlier(h)) \union BranchesOf(h, handled[h], i - 1))'
    BY <1>2, <1>4, <2>3, <2>4 DEF Has
  <2>6. h \notin {"header", "tracers", "untraced", "traced", "handlers",
                  "payloads", "companion", "end"}
    BY DEF Handlers
  <2> QED
    BY <1>2, <2>5, <2>6 DEF ServerInv, RowsInv
<1> QED
  BY <1>1, <1>4, <1>5, PrintsKeep DEF Sources

LEMMA ServerSteps ==
  ASSUME IInv
  PROVE  /\ ServerTracedEnd \/ Collect \/ Collected => IInv'
         /\ FireAndForget \/ RequestResponse \/ RequestStream \/ RequestChannel => IInv'
         /\ FireAndForgetEnd \/ RequestResponseEnd \/ RequestStreamEnd \/ RequestChannelEnd => IInv'
         /\ Payloads \/ Companion => IInv'
<1>0. Typed
  BY DEF IInv
<1>t. ASSUME pc[1] = "server"
      PROVE  s > 0 /\ N \in Nat /\ i \in Nat \ {0} /\ ServerInv /\ HandledInv /\ InLoop
  BY <1>t, <1>0, Sections, MethodsTyped DEF IInv, Typed
<1>1. ASSUME ServerTracedEnd PROVE IInv'
  <2>1. Moves("server", "traced", "handlers") /\ i > N
    BY <1>1, LeaveMoves DEF ServerTracedEnd, N
  <2>2. /\ pc = <<"server", "traced">> /\ pc[1] = "server" /\ pc[2] = "traced"
        /\ pc' = <<"server", "handlers">> /\ i' = 1 /\ UNCHANGED <<text, handled>>
        /\ Methods' = Methods /\ N' = N
    BY <2>1, MethodsKept DEF Moves
  <2>3. 2 * N + (i - 1) = 3 * N
    BY <2>1, <2>2, <1>t DEF InLoop
  <2>4. Has("server", 3 * N, {})
    BY <2>2, <2>3, <1>t DEF ServerInv, RowsInv
  <2>5. ServerInv'
    BY <2>2, <2>4 DEF ServerInv, RowsInv, Has, Handlers
  <2>6. HandledTo(0)
    BY <2>2, <1>t DEF HandledInv
  <2>7. HandledTo(i - 1)'
    BY <2>2, <2>6 DEF HandledTo
  <2>8. HandledInv'
    BY <2>2, <2>7 DEF HandledInv, Handlers
  <2> QED
    BY <2>1, <2>5, <2>8, MovesKeep DEF Labels, Sources
<1>2. ASSUME Collected PROVE IInv'
  <2>1. Moves("server", "handlers", "fireAndForget") /\ i > N
    BY <1>2, LeaveMoves DEF Collected, N
  <2>2. /\ pc = <<"server", "handlers">> /\ pc[1] = "server" /\ pc[2] = "handlers"
        /\ pc' = <<"server", "fireAndForget">> /\ i' = 1 /\ UNCHANGED <<text, handled>>
        /\ Methods' = Methods /\ N' = N
    BY <2>1, MethodsKept DEF Moves
  <2>3. i - 1 = N
    BY <2>1, <2>2, <1>t DEF InLoop
  <2>4. Has("server", 3 * N, {})
    BY <2>2, <1>t DEF ServerInv
  <2>5. Has("server", 3 * N, AllBranches(Earlier("fireAndForget"))
              \union BranchesOf("fireAndForget", handled["fireAndForget"], i - 1))'
    <3>1. BranchesOf("fireAndForget", handled["fireAndForget"], 0) = {}
      BY Growth, 1 \in Nat \ {0}
    <3>2. AllBranches(Earlier("fireAndForget")) = {}
      BY BranchesTogether
    <3>3. AllBranches(Earlier("fireAndForget"))' = {}
      BY DEF AllBranches, Earlier
    <3> QED
      BY <2>2, <2>4, <3>1, <3>3 DEF Has
  <2>6. ServerInv'
    BY <2>2, <2>5 DEF ServerInv, RowsInv, Handlers
  <2>7. HandledTo(N)
    BY <2>2, <2>3, <1>t DEF HandledInv, Handlers
  <2>8. HandledTo(N)'
    BY <2>2, <2>7 DEF HandledTo
  <2>9. HandledInv'
    BY <2>2, <2>8 DEF HandledInv, Handlers
  <2> QED
    BY <2>1, <2>6, <2>9, MovesKeep DEF Labels, Sources, Handlers
<1>3. FireAndForget \/ RequestResponse \/ RequestStream \/ RequestChannel => IInv'
  <2>1. \A h \in Handlers : ServerBranch(h) => IInv'
    BY BranchPrinted
  <2> QED
    BY <2>1 DEF ServerBranch, Handlers
<1>4. ASSUME FireAndForgetEnd PROVE IInv'
  <2>1. Moves("server", "fireAndForget", "requestResponse") /\ i > Len(handled["fireAndForget"])
    BY <1>4, LeaveMoves DEF FireAndForgetEnd
  <2> QED
    BY <2>1, HandlerLeft, BranchesTogether DEF Handlers
<1>5. ASSUME RequestResponseEnd PROVE IInv'
  <2>1. Moves("server", "requestResponse", "requestStream") /\ i > Len(handled["requestResponse"])
    BY <1>5, LeaveMoves DEF RequestResponseEnd
  <2> QED
    BY <2>1, HandlerLeft, BranchesTogether DEF Handlers
<1>6. ASSUME RequestStreamEnd PROVE IInv'
  <2>1. Moves("server", "requestStream", "requestChannel") /\ i > Len(handled["requestStream"])
    BY <1>6, LeaveMoves DEF RequestStreamEnd
  <2> QED
    BY <2>1, HandlerLeft, BranchesTogether DEF Handlers
<1>7. ASSUME RequestChannelEnd PROVE IInv'
  <2>1. Moves("server", "requestChannel", "payloads") /\ i > Len(handled["requestChannel"])
    BY <1>7, LeaveMoves DEF RequestChannelEnd
  <2>2. /\ "requestChannel" \in Handlers /\ "payloads" \notin Handlers
    BY DEF Handlers
  <2>3. Handlers = Earlier("requestChannel") \union {"requestChannel"}
    BY BranchesTogether
  <2> QED
    BY <2>1, <2>2, <2>3, HandlerLeft
<1>8. ASSUME NEW x \in {"payloads", "companion"}, NEW y \in {"companion", "end"},
             Moves("server", x, y)
      PROVE  IInv'
  <2>1. /\ pc = <<"server", x>> /\ pc[1] = "server" /\ pc[2] = x /\ pc' = <<"server", y>>
        /\ UNCHANGED <<file, s, text, handled>> /\ Methods' = Methods /\ N' = N
    BY <1>8, MethodsKept DEF Moves
  <2>2. HandledInv' /\ \A hs : AllBranches(hs)' = AllBranches(hs)
    BY <2>1, CollectedKept
  <2>3. Has("server", 3 * N, AllBranches(Handlers))
    BY <2>1, <1>t DEF ServerInv
  <2>4. Has("server", 3 * N, AllBranches(Handlers))'
    BY <2>1, <2>2, <2>3 DEF Has
  <2>5. ServerInv'
    BY <2>1, <2>4 DEF ServerInv, RowsInv, Handlers
  <2>6. <<"server", y>> \in Labels
    BY DEF Labels
  <2> QED
    BY <1>8, <2>2, <2>5, <2>6, MovesKeep DEF Sources
<1>9. ASSUME Payloads PROVE IInv'
  BY <1>9, <1>8, LeaveMoves DEF Payloads, Header
<1>10. ASSUME Companion PROVE IInv'
  BY <1>10, <1>8, LeaveMoves DEF Companion, Header
<1> QED
  BY <1>1, <1>2, <1>3, <1>4, <1>5, <1>6, <1>7, <1>9, <1>10, CollectStep

LEMMA IInvInit == Init => IInv
<1> SUFFICES ASSUME Init PROVE IInv
  OBVIOUS
<1>1. IsSeq(<<>>)
  BY DEF IsSeq
<1>2. \A f \in Files : Len(f) \in Nat
  <2> SUFFICES ASSUME NEW f \in Files PROVE Len(f) \in Nat
    OBVIOUS
  <2>1. IsSeq(f)
    BY FilesAssumption DEF IsSeq
  <2> QED
    BY <2>1, Joined
<1>3. file \in Files /\ s = 0 /\ pc = <<"plugin", "end">> /\ i = 1
  BY DEF Init
<1>4. s \in 0 .. Len(file) /\ pc \in Labels
  BY <1>2, <1>3 DEF Labels
<1> QED
  BY <1>1, <1>3, <1>4 DEF Init, IInv, Typed, Nothing

LEMMA IInvNext == IInv /\ [Next]_state => IInv'
<1> SUFFICES ASSUME IInv, [Next]_state PROVE IInv'
  OBVIOUS
<1>1. CASE UNCHANGED state
  <2>1. /\ UNCHANGED <<file, s, pc, i, text, handled>> /\ Methods' = Methods /\ N' = N
    BY <1>1, MethodsKept DEF state
  <2>2. Typed'
    BY <2>1 DEF IInv, Typed, InLoop
  <2>3. s > 0 => InterfaceInv'
    BY <2>1 DEF IInv, InterfaceInv, Has
  <2>4. s > 0 => ClientInv'
    BY <2>1 DEF IInv, ClientInv, RowsInv, Has
  <2>5. s > 0 => ServerInv'
    <3>1. \A hs : AllBranches(hs)' = AllBranches(hs)
      BY <2>1 DEF AllBranches
    <3> QED
      BY <2>1, <3>1 DEF IInv, ServerInv, RowsInv, Has
  <2>6. s > 0 => HandledInv'
    BY <2>1 DEF IInv, HandledInv, HandledTo
  <2> QED
    BY <2>1, <2>2, <2>3, <2>4, <2>5, <2>6 DEF IInv
<1>2. CASE Next
  BY <1>2, StartSteps, InterfaceSteps, RowSteps, ClientSteps, ServerSteps DEF Next
<1> QED
  BY <1>1, <1>2

LEMMA IInvHolds == Spec => []IInv
BY IInvInit, IInvNext, PTL DEF Spec

-----------------------------------------------------------------------------
(* What is printed when a service is generated.                            *)

LEMMA TextRange ==
  ASSUME NEW p, NEW t, NEW ms, NEW n, NEW rest, HasText(p, t, ms, n, rest)
  PROVE  /\ DOMAIN t = 1 .. Len(t) /\ Len(t) \in Nat /\ n \in 0 .. Len(t)
         /\ Range(t) = {Row(p, ms, x) : x \in 1 .. n} \union rest
         /\ \A x \in 1 .. n : t[x] = Row(p, ms, x)
         /\ \A x \in DOMAIN t : x > n => t[x] \in rest
<1>1. /\ IsSeq(t) /\ n \in 0 .. Len(t) /\ \A x \in 1 .. n : t[x] = Row(p, ms, x)
      /\ {t[x] : x \in n + 1 .. Len(t)} = rest
  BY DEF HasText
<1>2. DOMAIN t = 1 .. Len(t) /\ Len(t) \in Nat
  BY <1>1, Joined DEF IsSeq
<1>3. 1 .. Len(t) = (1 .. n) \union (n + 1 .. Len(t))
  BY <1>1, <1>2
<1>4. Range(t) = {t[x] : x \in 1 .. n} \union {t[x] : x \in n + 1 .. Len(t)}
  BY <1>2, <1>3 DEF Range
<1>5. {t[x] : x \in 1 .. n} = {Row(p, ms, x) : x \in 1 .. n}
  BY <1>1
<1>6. \A x \in DOMAIN t : x > n => t[x] \in rest
  BY <1>1, <1>2
<1> QED
  BY <1>1, <1>2, <1>4, <1>5, <1>6

RowsOf(p, ms) ==
  {TracerOf(p, ms[x]) : x \in 1 .. Len(ms)}
    \union {AssignmentOf("untraced", ms[x]) : x \in 1 .. Len(ms)}
    \union {AssignmentOf("traced", ms[x]) : x \in 1 .. Len(ms)}

LEMMA RowsAre ==
  ASSUME NEW p \in {"client", "server"}, NEW ms, Len(ms) \in Nat
  PROVE  {Row(p, ms, x) : x \in 1 .. 3 * Len(ms)} = RowsOf(p, ms)
<1>1. ASSUME NEW x \in 1 .. 3 * Len(ms) PROVE Row(p, ms, x) \in RowsOf(p, ms)
  <2>1. CASE x <= Len(ms)
    BY <2>1, RowIs DEF RowsOf
  <2>2. CASE x > Len(ms) /\ x <= 2 * Len(ms)
    <3>1. x - Len(ms) \in 1 .. Len(ms) /\ x = Len(ms) + (x - Len(ms))
      BY <2>2
    <3> QED
      BY <3>1, RowIs DEF RowsOf
  <2>3. CASE x > 2 * Len(ms)
    <3>1. x - 2 * Len(ms) \in 1 .. Len(ms) /\ x = 2 * Len(ms) + (x - 2 * Len(ms))
      BY <2>3
    <3> QED
      BY <3>1, RowIs DEF RowsOf
  <2> QED
    BY <2>1, <2>2, <2>3
<1>2. ASSUME NEW x \in 1 .. Len(ms)
      PROVE  /\ TracerOf(p, ms[x]) \in {Row(p, ms, y) : y \in 1 .. 3 * Len(ms)}
             /\ AssignmentOf("untraced", ms[x]) \in {Row(p, ms, y) : y \in 1 .. 3 * Len(ms)}
             /\ AssignmentOf("traced", ms[x]) \in {Row(p, ms, y) : y \in 1 .. 3 * Len(ms)}
  <2>1. /\ x \in 1 .. 3 * Len(ms) /\ Len(ms) + x \in 1 .. 3 * Len(ms)
        /\ 2 * Len(ms) + x \in 1 .. 3 * Len(ms)
    OBVIOUS
  <2> QED
    BY <2>1, RowIs
<1> QED
  BY <1>1, <1>2 DEF RowsOf

LEMMA TextsComplete ==
  ASSUME IInv, Generated
  PROVE  /\ s > 0 /\ Typed /\ N \in Nat /\ Len(Methods) = N /\ Range(Methods) = {Methods[x] : x \in 1 .. N}
         /\ \A x \in 1 .. N : /\ Methods[x].client_streaming \in BOOLEAN
                              /\ Methods[x].server_streaming \in BOOLEAN
                              /\ Methods[x].fire_and_forget \in BOOLEAN
         /\ Has("interface", N, Funs(Methods, N))
         /\ Has("client", 3 * N, ClientMethodsOf(Methods, N))
         /\ Has("server", 3 * N, AllBranches(Handlers))
         /\ HandledTo(N)
<1>1. pc = <<"server", "end">> /\ pc[1] = "server" /\ pc[2] = "end"
  BY DEF Generated
<1>2. Typed /\ s > 0
  BY <1>1, Sections DEF IInv
<1>3. InterfaceInv /\ ClientInv /\ ServerInv /\ HandledInv
  BY <1>2 DEF IInv
<1>4. /\ Has("interface", N, Funs(Methods, N))
      /\ Has("client", 3 * N, ClientMethodsOf(Methods, N))
      /\ Has("server", 3 * N, AllBranches(Handlers))
  BY <1>1, <1>3 DEF InterfaceInv, ClientInv, ServerInv
<1>5. HandledTo(N)
  BY <1>1, <1>3 DEF HandledInv
<1>6. Range(Methods) = {Methods[x] : x \in 1 .. N}
  <2>1. DOMAIN Methods = 1 .. N
    BY <1>2, MethodsTyped DEF IsSeq, N
  <2> QED
    BY <2>1 DEF Range
<1> QED
  BY <1>2, <1>4, <1>5, <1>6, MethodsTyped DEF N

LEMMA InterfacePrinted ==
  ASSUME IInv, Generated
  PROVE  /\ Printed("interface", "const") = {ConstOf(Methods[x]) : x \in 1 .. N}
         /\ Printed("interface", "fun") = {FunOf(Methods[x]) : x \in 1 .. N}
<1> DEFINE A == {ConstOf(Methods[x]) : x \in 1 .. N}
           B == {FunOf(Methods[x]) : x \in 1 .. N}
<1>1. HasText("interface", text["interface"], Methods, N, Funs(Methods, N))
  BY TextsComplete DEF Has
<1>2. Range(text["interface"]) = {Row("interface", Methods, x) : x \in 1 .. N} \union Funs(Methods, N)
  BY <1>1, TextRange
<1>3. Range(text["interface"]) = A \union B
  BY <1>2 DEF Row, Funs
<1>4. (\A d \in A : d.kind = "const") /\ (\A d \in B : d.kind = "fun")
  BY DEF ConstOf, FunOf, FunctionOf
<1> HIDE DEF A, B
<1>5. Printed("interface", "const") = A /\ Printed("interface", "fun") = B
  BY <1>3, <1>4 DEF Printed
<1> QED
  BY <1>5 DEF A, B

LEMMA ClientPrinted ==
  ASSUME IInv, Generated
  PROVE  /\ Printed("client", "tracer") = {TracerOf("client", Methods[x]) : x \in 1 .. N}
         /\ \A branch \in {"untraced", "traced"} :
              Printed("client", branch) = {AssignmentOf(branch, Methods[x]) : x \in 1 .. N}
         /\ Printed("client", "overload") = {OverloadOf(Methods[x]) : x \in 1 .. N}
         /\ Printed("client", "override") = {OverrideOf(Methods[x]) : x \in 1 .. N}
         /\ Printed("client", "body") = {BodyOf(Methods[x]) : x \in 1 .. N}
<1> DEFINE A == {TracerOf("client", Methods[x]) : x \in 1 .. N}
           B == {AssignmentOf("untraced", Methods[x]) : x \in 1 .. N}
           C == {AssignmentOf("traced", Methods[x]) : x \in 1 .. N}
           D == {OverloadOf(Methods[x]) : x \in 1 .. N}
           E == {OverrideOf(Methods[x]) : x \in 1 .. N}
           F == {BodyOf(Methods[x]) : x \in 1 .. N}
<1>1. HasText("client", text["client"], Methods, 3 * N, ClientMethodsOf(Methods, N))
      /\ Len(Methods) = N /\ N \in Nat
  BY TextsComplete DEF Has
<1>2. Range(text["client"])
        = {Row("client", Methods, x) : x \in 1 .. 3 * N} \union ClientMethodsOf(Methods, N)
  BY <1>1, TextRange
<1>3. {Row("client", Methods, x) : x \in 1 .. 3 * N} = A \union B \union C
  <2>1. {Row("client", Methods, x) : x \in 1 .. 3 * N} = RowsOf("client", Methods)
    BY <1>1, RowsAre
  <2> QED
    BY <2>1, <1>1 DEF RowsOf
<1>4. ClientMethodsOf(Methods, N) = D \union E \union F
  BY DEF ClientMethodsOf
<1>5. /\ \A d \in A : d.kind = "tracer"
      /\ \A d \in B : d.kind = "untraced"
      /\ \A d \in C : d.kind = "traced"
      /\ \A d \in D : d.kind = "overload"
      /\ \A d \in E : d.kind = "override"
      /\ \A d \in F : d.kind = "body"
  <2>1. \A d \in A : d.kind = "tracer"
    BY DEF TracerOf
  <2>2. \A d \in B : d.kind = "untraced"
    BY DEF AssignmentOf
  <2>3. \A d \in C : d.kind = "traced"
    BY DEF AssignmentOf
  <2>4. \A d \in D : d.kind = "overload"
    BY DEF OverloadOf, FunctionOf
  <2>5. \A d \in E : d.kind = "override"
    BY DEF OverrideOf, FunctionOf
  <2>6. \A d \in F : d.kind = "body"
    BY DEF BodyOf
  <2> HIDE DEF A, B, C, D, E, F
  <2> QED
    BY <2>1, <2>2, <2>3, <2>4, <2>5, <2>6
<1> HIDE DEF A, B, C, D, E, F
<1>6. Range(text["client"]) = A \union B \union C \union D \union E \union F
  BY <1>2, <1>3, <1>4
<1>7. /\ Printed("client", "tracer") = A /\ Printed("client", "untraced") = B
      /\ Printed("client", "traced") = C
  BY <1>5, <1>6 DEF Printed
<1>8. /\ Printed("client", "overload") = D /\ Printed("client", "override") = E
      /\ Printed("client", "body") = F
  BY <1>5, <1>6 DEF Printed
<1> QED
  BY <1>7, <1>8 DEF A, B, C, D, E, F

LEMMA ServerPrinted ==
  ASSUME IInv, Generated
  PROVE  /\ Printed("server", "tracer") = {TracerOf("server", Methods[x]) : x \in 1 .. N}
         /\ \A branch \in {"untraced", "traced"} :
              Printed("server", branch) = {AssignmentOf(branch, Methods[x]) : x \in 1 .. N}
         /\ Branches = {BranchOf(Handler(Methods[x]), Methods[x]) : x \in 1 .. N}
<1> DEFINE A == {TracerOf("server", Methods[x]) : x \in 1 .. N}
           B == {AssignmentOf("untraced", Methods[x]) : x \in 1 .. N}
           C == {AssignmentOf("traced", Methods[x]) : x \in 1 .. N}
           D == {BranchOf(Handler(Methods[x]), Methods[x]) : x \in 1 .. N}
<1>1. /\ HasText("server", text["server"], Methods, 3 * N, AllBranches(Handlers))
      /\ Len(Methods) = N /\ N \in Nat /\ HandledTo(N) /\ Typed
  BY TextsComplete DEF Has
<1>2. Range(text["server"])
        = {Row("server", Methods, x) : x \in 1 .. 3 * N} \union AllBranches(Handlers)
  BY <1>1, TextRange
<1>3. {Row("server", Methods, x) : x \in 1 .. 3 * N} = A \union B \union C
  <2>1. {Row("server", Methods, x) : x \in 1 .. 3 * N} = RowsOf("server", Methods)
    BY <1>1, RowsAre
  <2> QED
    BY <2>1, <1>1 DEF RowsOf
<1>4. AllBranches(Handlers) = D
  <2>1. ASSUME NEW h \in Handlers
        PROVE  BranchesOf(h, handled[h], Len(handled[h]))
                 = {BranchOf(h, Methods[x]) : x \in {y \in 1 .. N : Handler(Methods[y]) = h}}
    <3>1. Range(handled[h]) = {handled[h][x] : x \in 1 .. Len(handled[h])}
      <4>1. DOMAIN handled[h] = 1 .. Len(handled[h])
        BY <1>1 DEF Typed, IsSeq
      <4> QED
        BY <4>1 DEF Range
    <3>2. BranchesOf(h, handled[h], Len(handled[h])) = {BranchOf(h, m) : m \in Range(handled[h])}
      BY <3>1 DEF BranchesOf
    <3>3. Range(handled[h]) = {Methods[x] : x \in {y \in 1 .. N : Handler(Methods[y]) = h}}
      BY <1>1 DEF HandledTo
    <3> QED
      BY <3>2, <3>3
  <2>2. \A x \in 1 .. N : Handler(Methods[x]) \in Handlers
    BY DEF Handler, Handlers
  <2>3. ASSUME NEW d \in AllBranches(Handlers) PROVE d \in D
    <3>1. PICK h \in Handlers : d \in BranchesOf(h, handled[h], Len(handled[h]))
      BY DEF AllBranches
    <3>2. PICK x \in 1 .. N : Handler(Methods[x]) = h /\ d = BranchOf(h, Methods[x])
      BY <3>1, <2>1
    <3> QED
      BY <3>2
  <2>4. ASSUME NEW x \in 1 .. N
        PROVE  BranchOf(Handler(Methods[x]), Methods[x]) \in AllBranches(Handlers)
    <3> DEFINE h == Handler(Methods[x])
               d == BranchOf(h, Methods[x])
    <3>1. h \in Handlers
      BY <2>2
    <3>2. d \in {BranchOf(h, Methods[y]) : y \in {z \in 1 .. N : Handler(Methods[z]) = h}}
      OBVIOUS
    <3> HIDE DEF h, d
    <3>3. d \in BranchesOf(h, handled[h], Len(handled[h]))
      BY <2>1, <3>1, <3>2
    <3>4. d \in AllBranches(Handlers)
      BY <3>1, <3>3 DEF AllBranches
    <3> QED
      BY <3>4 DEF h, d
  <2> QED
    BY <2>3, <2>4
<1>5. /\ \A d \in A : d.kind = "tracer"
      /\ \A d \in B : d.kind = "untraced"
      /\ \A d \in C : d.kind = "traced"
      /\ \A d \in D : d.kind \in Handlers
  <2>1. \A d \in A : d.kind = "tracer"
    BY DEF TracerOf
  <2>2. \A d \in B : d.kind = "untraced"
    BY DEF AssignmentOf
  <2>3. \A d \in C : d.kind = "traced"
    BY DEF AssignmentOf
  <2>4. \A d \in D : d.kind \in Handlers
    BY DEF BranchOf, Handler, Handlers
  <2> HIDE DEF A, B, C, D
  <2> QED
    BY <2>1, <2>2, <2>3, <2>4
<1> HIDE DEF A, B, C, D
<1>6. Range(text["server"]) = A \union B \union C \union D
  BY <1>2, <1>3, <1>4
<1>7. {"tracer", "untraced", "traced"} \cap Handlers = {}
  BY DEF Handlers
<1>8. /\ Printed("server", "tracer") = A /\ Printed("server", "untraced") = B
      /\ Printed("server", "traced") = C
  BY <1>5, <1>6, <1>7 DEF Printed
<1>9. Branches = D
  BY <1>5, <1>6, <1>7 DEF Printed, Branches
<1> QED
  BY <1>8, <1>9 DEF A, B, C, D

-----------------------------------------------------------------------------
(* The results.                                                            *)

(* What the three printers derive from a method's flags agrees.            *)
LEMMA SignaturesAgree ==
  ASSUME NEW m, m.client_streaming \in BOOLEAN, m.server_streaming \in BOOLEAN,
         m.fire_and_forget \in BOOLEAN
  PROVE  /\ <<OverloadOf(m).name, OverloadOf(m).input, OverloadOf(m).returns>>
              = <<FunOf(m).name, FunOf(m).input, FunOf(m).returns>>
         /\ <<OverrideOf(m).name, OverrideOf(m).input, OverrideOf(m).returns>>
              = <<FunOf(m).name, FunOf(m).input, FunOf(m).returns>>
         /\ OverrideOf(m).name = BodyOf(m).name /\ OverrideOf(m).returns = BodyOf(m).returns
         /\ OverrideOf(m).input[1] = (BodyOf(m).interaction = "requestChannel")
         /\ BodyOf(m).interaction = Handler(m)
<1>1. OverloadReturns(m) = InterfaceReturns(m) /\ OverrideReturns(m) = InterfaceReturns(m)
  BY DEF OverloadReturns, OverrideReturns, InterfaceReturns
<1>2. Body(m)[2] = InterfaceReturns(m) /\ Body(m)[1] = Handler(m)
  BY DEF Body, InterfaceReturns, Handler
<1>3. m.client_streaming = (Handler(m) = "requestChannel")
  BY DEF Handler
<1> DEFINE r == InterfaceReturns(m)
<1>4. OverloadReturns(m) = r /\ OverrideReturns(m) = r /\ Body(m)[2] = r
  BY <1>1, <1>2
<1>5. InterfaceReturns(m) = r
  OBVIOUS
<1> HIDE DEF r
<1>6. /\ <<OverloadOf(m).name, OverloadOf(m).input, OverloadOf(m).returns>>
           = <<FunOf(m).name, FunOf(m).input, FunOf(m).returns>>
      /\ <<OverrideOf(m).name, OverrideOf(m).input, OverrideOf(m).returns>>
           = <<FunOf(m).name, FunOf(m).input, FunOf(m).returns>>
  BY <1>4, <1>5 DEF OverloadOf, OverrideOf, FunOf, FunctionOf
<1>7. OverrideOf(m).name = BodyOf(m).name /\ OverrideOf(m).returns = BodyOf(m).returns
  BY <1>4 DEF OverrideOf, FunctionOf, BodyOf
<1>8. BodyOf(m).interaction = Handler(m) /\ OverrideOf(m).input[1] = m.client_streaming
  BY <1>2 DEF OverrideOf, FunctionOf, BodyOf
<1> QED
  BY <1>3, <1>6, <1>7, <1>8

LEMMA BranchAgrees ==
  ASSUME NEW m, m.client_streaming \in BOOLEAN, m.server_streaming \in BOOLEAN,
         m.fire_and_forget \in BOOLEAN, NEW b, b = BranchOf(Handler(m), m)
  PROVE  /\ FunOf(m).name = b.name /\ FunOf(m).input = b.input
         /\ FunOf(m).returns[1] = b.consumes
         /\ b.kind = Handler(m) /\ b.matches = MethodFieldName(m)
         /\ b.name = LowerMethodName(m) /\ b.element = ServerElement(m)
<1>1. ConsumedBy(Handler(m), m) = InterfaceReturns(m)
  BY DEF ConsumedBy, Handler, InterfaceReturns
<1>2. (Handler(m) = "requestChannel") = m.client_streaming
  BY DEF Handler
<1>3. (IF Handler(m) = "fireAndForget" THEN "Empty" ELSE "Payload") = ServerElement(m)
  BY DEF Handler, ServerElement
<1>4. FunOf(m).returns[1] = InterfaceReturns(m)
  BY DEF FunOf, FunctionOf
<1>5. FunOf(m).name = LowerMethodName(m) /\ FunOf(m).input = <<m.client_streaming, m.input_type>>
  BY DEF FunOf, FunctionOf
<1> DEFINE h == Handler(m)
<1>6. /\ b.kind = h /\ b.matches = MethodFieldName(m) /\ b.name = LowerMethodName(m)
      /\ b.input = <<h = "requestChannel", m.input_type>> /\ b.consumes = ConsumedBy(h, m)
      /\ b.element = IF h = "fireAndForget" THEN "Empty" ELSE "Payload"
  <2>1. b = BranchOf(h, m)
    OBVIOUS
  <2> HIDE DEF h
  <2> QED
    BY <2>1 DEF BranchOf
<1> QED
  BY <1>1, <1>2, <1>3, <1>4, <1>5, <1>6

(* The client overrides exactly the interface's methods, its bodies return *)
(* what their methods declare, and the methods without metadata return     *)
(* what the ones they call do, whatever the methods of a service are       *)
(* (PrintInterface, PrintClient).                                          *)
THEOREM SignaturesMatch == Spec => []ClientTypes
<1>1. ASSUME IInv PROVE ClientTypes
  <2> SUFFICES ASSUME Generated
               PROVE  /\ {<<d.name, d.input, d.returns>> : d \in Printed("interface", "fun")}
                          = {<<d.name, d.input, d.returns>> : d \in Printed("client", "override")}
                      /\ {<<d.name, d.input, d.returns>> : d \in Printed("client", "overload")}
                          = {<<d.name, d.input, d.returns>> : d \in Printed("client", "override")}
                      /\ \A b \in Printed("client", "body") :
                           \E o \in Printed("client", "override") :
                             /\ o.name = b.name /\ o.returns = b.returns
                             /\ o.input[1] = (b.interaction = "requestChannel")
    BY DEF ClientTypes
  <2> DEFINE S(d) == <<d.name, d.input, d.returns>>
             F == Printed("interface", "fun")
             O == Printed("client", "override")
             L == Printed("client", "overload")
             B == Printed("client", "body")
  <2>1. /\ F = {FunOf(Methods[x]) : x \in 1 .. N}
        /\ O = {OverrideOf(Methods[x]) : x \in 1 .. N}
        /\ L = {OverloadOf(Methods[x]) : x \in 1 .. N}
        /\ B = {BodyOf(Methods[x]) : x \in 1 .. N}
    BY <1>1, InterfacePrinted, ClientPrinted
  <2>2. \A x \in 1 .. N : LET m == Methods[x] IN
          /\ S(OverrideOf(m)) = S(FunOf(m)) /\ S(OverloadOf(m)) = S(FunOf(m))
          /\ OverrideOf(m).name = BodyOf(m).name /\ OverrideOf(m).returns = BodyOf(m).returns
          /\ OverrideOf(m).input[1] = (BodyOf(m).interaction = "requestChannel")
    BY <1>1, TextsComplete, SignaturesAgree
  <2> HIDE DEF S, F, O, L, B
  <2>3. {S(d) : d \in F} = {S(d) : d \in O}
    BY <2>1, <2>2
  <2>4. {S(d) : d \in L} = {S(d) : d \in O}
    BY <2>1, <2>2
  <2>5. ASSUME NEW b \in B
        PROVE  \E o \in O : /\ o.name = b.name /\ o.returns = b.returns
                            /\ o.input[1] = (b.interaction = "requestChannel")
    <3>1. PICK x \in 1 .. N : b = BodyOf(Methods[x])
      BY <2>1
    <3>2. OverrideOf(Methods[x]) \in O
      BY <2>1
    <3> QED
      BY <2>2, <3>1, <3>2
  <2> QED
    BY <2>3, <2>4, <2>5 DEF S, F, O, L, B
<1> QED
  BY <1>1, IInvHolds, PTL

(* The server passes to and takes from the implementation what the         *)
(* interface declares, whatever the methods are (PrintServer).             *)
THEOREM ServerMatchesInterface == Spec => []ServerTypes
<1>1. ASSUME IInv PROVE ServerTypes
  <2> SUFFICES ASSUME Generated, NEW b \in Branches
               PROVE  \E f \in Printed("interface", "fun") :
                        f.name = b.name /\ f.input = b.input /\ f.returns[1] = b.consumes
    BY DEF ServerTypes
  <2>1. PICK x \in 1 .. N : b = BranchOf(Handler(Methods[x]), Methods[x])
    BY <1>1, ServerPrinted
  <2>2. FunOf(Methods[x]) \in Printed("interface", "fun")
    BY <1>1, InterfacePrinted
  <2>3. /\ FunOf(Methods[x]).name = b.name /\ FunOf(Methods[x]).input = b.input
        /\ FunOf(Methods[x]).returns[1] = b.consumes
    BY <1>1, <2>1, TextsComplete, BranchAgrees
  <2> QED
    BY <2>2, <2>3
<1> QED
  BY <1>1, IInvHolds, PTL

(* In sources that compile no two methods have the same constant or the    *)
(* same tracer.                                                            *)
LEMMA NamesDistinct ==
  ASSUME IInv, Generated, ~Conflict, NEW x \in 1 .. N, NEW y \in 1 .. N
  PROVE  /\ MethodFieldName(Methods[x]) = MethodFieldName(Methods[y]) => x = y
         /\ LowerMethodName(Methods[x]) = LowerMethodName(Methods[y]) => x = y
<1>0. N \in Nat /\ Len(Methods) = N
  BY TextsComplete
<1>1. ASSUME NEW p \in Sources, NEW j \in DOMAIN text[p], NEW k \in DOMAIN text[p],
             text[p][j].kind \in {"const", "tracer"}, text[p][j].kind = text[p][k].kind,
             text[p][j].name = text[p][k].name
      PROVE  j = k
  BY <1>1 DEF Conflict
<1>2. ASSUME MethodFieldName(Methods[x]) = MethodFieldName(Methods[y]) PROVE x = y
  <2>1. HasText("interface", text["interface"], Methods, N, Funs(Methods, N))
    BY TextsComplete DEF Has
  <2>2. /\ x \in DOMAIN text["interface"] /\ y \in DOMAIN text["interface"]
        /\ text["interface"][x] = Row("interface", Methods, x)
        /\ text["interface"][y] = Row("interface", Methods, y)
    BY <1>0, <2>1, TextRange
  <2>3. \A z : Row("interface", Methods, z).kind = "const"
              /\ Row("interface", Methods, z).name = MethodFieldName(Methods[z])
    BY DEF Row, ConstOf
  <2> QED
    BY <1>1, <1>2, <2>2, <2>3 DEF Sources
<1>3. ASSUME LowerMethodName(Methods[x]) = LowerMethodName(Methods[y]) PROVE x = y
  <2>1. HasText("client", text["client"], Methods, 3 * N, ClientMethodsOf(Methods, N))
    BY TextsComplete DEF Has
  <2>2. /\ x \in 1 .. 3 * N /\ y \in 1 .. 3 * N
    BY <1>0
  <2>3. /\ x \in DOMAIN text["client"] /\ y \in DOMAIN text["client"]
        /\ text["client"][x] = Row("client", Methods, x)
        /\ text["client"][y] = Row("client", Methods, y)
    BY <1>0, <2>1, <2>2, TextRange
  <2>4. \A z \in 1 .. N : Row("client", Methods, z) = TracerOf("client", Methods[z])
    BY <1>0, RowIs
  <2>5. \A z \in 1 .. N : Row("client", Methods, z).kind = "tracer"
              /\ Row("client", Methods, z).name = LowerMethodName(Methods[z])
    BY <2>4 DEF TracerOf
  <2> QED
    BY <1>1, <1>3, <2>3, <2>5 DEF Sources
<1> QED
  BY <1>2, <1>3

(* The position of a tracer's assignment.                                  *)
LEMMA AssignmentAt ==
  ASSUME IInv, Generated, NEW p \in {"client", "server"}, NEW branch \in {"untraced", "traced"},
         NEW j \in DOMAIN text[p], text[p][j].kind = branch
  PROVE  \E x \in 1 .. N : /\ text[p][j].name = LowerMethodName(Methods[x])
                           /\ j = (IF branch = "untraced" THEN N ELSE 2 * N) + x
<1>0. N \in Nat /\ Len(Methods) = N /\ Typed
  BY TextsComplete
<1>1. PICK rest : HasText(p, text[p], Methods, 3 * N, rest)
                  /\ \A d \in rest : d.kind \notin {"untraced", "traced"}
  <2>1. CASE p = "client"
    <3>1. Has("client", 3 * N, ClientMethodsOf(Methods, N))
      BY TextsComplete
    <3>2. \A d \in ClientMethodsOf(Methods, N) : d.kind \notin {"untraced", "traced"}
      BY DEF ClientMethodsOf, OverloadOf, OverrideOf, FunctionOf, BodyOf
    <3> QED
      BY <2>1, <3>1, <3>2 DEF Has
  <2>2. CASE p = "server"
    <3>1. Has("server", 3 * N, AllBranches(Handlers))
      BY TextsComplete
    <3>2. \A d \in AllBranches(Handlers) : d.kind \in Handlers
      BY DEF AllBranches, BranchesOf, BranchOf
    <3>3. \A d \in AllBranches(Handlers) : d.kind \notin {"untraced", "traced"}
      BY <3>2 DEF Handlers
    <3> QED
      BY <2>2, <3>1, <3>3 DEF Has
  <2> QED
    BY <2>1, <2>2
<1>2. /\ DOMAIN text[p] = 1 .. Len(text[p]) /\ Len(text[p]) \in Nat
      /\ \A x \in 1 .. 3 * N : text[p][x] = Row(p, Methods, x)
      /\ \A x \in DOMAIN text[p] : x > 3 * N => text[p][x] \in rest
  BY <1>1, TextRange
<1>3. j \in 1 .. 3 * N /\ text[p][j] = Row(p, Methods, j)
  BY <1>0, <1>1, <1>2
<1>a. \A n \in Nat : \A k \in 1 .. 3 * n :
        /\ k > n /\ k <= 2 * n => k - n \in 1 .. n /\ k = n + (k - n)
        /\ k > 2 * n => k - 2 * n \in 1 .. n /\ k = 2 * n + (k - 2 * n)
  OBVIOUS
<1>4. CASE j <= N
  <2>1. j \in 1 .. N
    BY <1>0, <1>3, <1>4
  <2>2. text[p][j] = TracerOf(p, Methods[j])
    BY <1>0, <1>3, <2>1, RowIs
  <2>3. text[p][j].kind = "tracer"
    BY <2>2 DEF TracerOf
  <2> QED
    BY <2>3
<1>5. CASE j > N /\ j <= 2 * N
  <2>1. j - N \in 1 .. N /\ j = N + (j - N)
    BY <1>0, <1>3, <1>5, <1>a
  <2>2. text[p][j] = AssignmentOf("untraced", Methods[j - N])
    BY <1>0, <1>3, <2>1, RowIs
  <2>3. text[p][j].kind = "untraced" /\ text[p][j].name = LowerMethodName(Methods[j - N])
    BY <2>2 DEF AssignmentOf
  <2>4. branch = "untraced"
    BY <2>3
  <2>5. j = (IF branch = "untraced" THEN N ELSE 2 * N) + (j - N)
    BY <2>1, <2>4
  <2> QED
    BY <2>1, <2>3, <2>5
<1>6. CASE j > 2 * N
  <2>1. j - 2 * N \in 1 .. N /\ j = 2 * N + (j - 2 * N)
    BY <1>0, <1>3, <1>6, <1>a
  <2>2. text[p][j] = AssignmentOf("traced", Methods[j - 2 * N])
    BY <1>0, <1>3, <2>1, RowIs
  <2>3. text[p][j].kind = "traced" /\ text[p][j].name = LowerMethodName(Methods[j - 2 * N])
    BY <2>2 DEF AssignmentOf
  <2>4. branch = "traced"
    BY <2>3
  <2>5. j = (IF branch = "untraced" THEN N ELSE 2 * N) + (j - 2 * N)
    BY <2>1, <2>4
  <2> QED
    BY <2>1, <2>3, <2>5
<1> QED
  BY <1>0, <1>3, <1>4, <1>5, <1>6

(* Every tracer is assigned once in each branch of `when (tracer)` and is  *)
(* used with the type of element it was declared for, in the client and in *)
(* the server (the `init` blocks that PrintClient and PrintServer print).  *)
THEOREM TracersMatch == Spec => []TracersAssigned
<1>1. ASSUME IInv PROVE TracersAssigned
  <2> SUFFICES ASSUME Generated, ~Conflict, NEW p \in {"client", "server"}
               PROVE  LET uses == IF p = "client" THEN Printed(p, "body") ELSE Branches IN
                      /\ \A branch \in {"untraced", "traced"} :
                           /\ {d.name : d \in Printed(p, branch)}
                                = {d.name : d \in Printed(p, "tracer")}
                           /\ \A j, k \in DOMAIN text[p] :
                                /\ text[p][j].kind = branch /\ text[p][k].kind = branch
                                /\ text[p][j].name = text[p][k].name
                                => j = k
                      /\ {<<d.name, d.element>> : d \in uses}
                           = {<<d.name, d.element>> : d \in Printed(p, "tracer")}
    BY DEF TracersAssigned
  <2>0. N \in Nat
    BY <1>1, TextsComplete
  <2>1. /\ Printed(p, "tracer") = {TracerOf(p, Methods[x]) : x \in 1 .. N}
        /\ \A branch \in {"untraced", "traced"} :
              Printed(p, branch) = {AssignmentOf(branch, Methods[x]) : x \in 1 .. N}
    BY <1>1, ClientPrinted, ServerPrinted
  <2>2. ASSUME NEW branch \in {"untraced", "traced"}
        PROVE  {d.name : d \in Printed(p, branch)} = {d.name : d \in Printed(p, "tracer")}
    <3>1. \A x \in 1 .. N : AssignmentOf(branch, Methods[x]).name = TracerOf(p, Methods[x]).name
      BY DEF AssignmentOf, TracerOf
    <3> QED
      BY <2>1, <3>1
  <2>3. ASSUME NEW branch \in {"untraced", "traced"},
               NEW j \in DOMAIN text[p], NEW k \in DOMAIN text[p],
               text[p][j].kind = branch, text[p][k].kind = branch,
               text[p][j].name = text[p][k].name
        PROVE  j = k
    <3>1. PICK x \in 1 .. N : /\ text[p][j].name = LowerMethodName(Methods[x])
                              /\ j = (IF branch = "untraced" THEN N ELSE 2 * N) + x
      BY <1>1, <2>3, AssignmentAt
    <3>2. PICK y \in 1 .. N : /\ text[p][k].name = LowerMethodName(Methods[y])
                              /\ k = (IF branch = "untraced" THEN N ELSE 2 * N) + y
      BY <1>1, <2>3, AssignmentAt
    <3>3. x = y
      BY <1>1, <2>3, <3>1, <3>2, NamesDistinct
    <3> QED
      BY <3>1, <3>2, <3>3
  <2>4. CASE p = "client"
    <3>1. Printed(p, "body") = {BodyOf(Methods[x]) : x \in 1 .. N}
      BY <1>1, <2>4, ClientPrinted
    <3>2. \A x \in 1 .. N :
            <<BodyOf(Methods[x]).name, BodyOf(Methods[x]).element>>
              = <<TracerOf(p, Methods[x]).name, TracerOf(p, Methods[x]).element>>
      BY <2>4 DEF BodyOf, TracerOf
    <3>3. {<<d.name, d.element>> : d \in Printed(p, "body")}
            = {<<d.name, d.element>> : d \in Printed(p, "tracer")}
      BY <2>1, <3>1, <3>2
    <3> QED
      BY <2>2, <2>3, <2>4, <3>3
  <2>5. CASE p = "server"
    <3>1. Branches = {BranchOf(Handler(Methods[x]), Methods[x]) : x \in 1 .. N}
      BY <1>1, ServerPrinted
    <3>2. ASSUME NEW x \in 1 .. N
          PROVE  LET b == BranchOf(Handler(Methods[x]), Methods[x]) IN
                   <<b.name, b.element>>
                     = <<TracerOf(p, Methods[x]).name, TracerOf(p, Methods[x]).element>>
      <4> DEFINE b == BranchOf(Handler(Methods[x]), Methods[x])
      <4>1. b.name = LowerMethodName(Methods[x]) /\ b.element = ServerElement(Methods[x])
        BY <1>1, TextsComplete, BranchAgrees
      <4>2. /\ TracerOf(p, Methods[x]).name = LowerMethodName(Methods[x])
            /\ TracerOf(p, Methods[x]).element = ServerElement(Methods[x])
        BY <2>5 DEF TracerOf
      <4> QED
        BY <4>1, <4>2
    <3>3. {<<d.name, d.element>> : d \in Branches}
            = {<<d.name, d.element>> : d \in Printed(p, "tracer")}
      BY <2>1, <3>1, <3>2
    <3> QED
      BY <2>2, <2>3, <2>5, <3>3
  <2> QED
    BY <2>4, <2>5
<1> QED
  BY <1>1, IInvHolds, PTL

(* In sources that compile, what the client method of a descriptor sends   *)
(* is matched by one branch of the handler of the interaction it uses, and *)
(* that branch calls the same method, for services with any methods        *)
(* (PrintClient's routes against the `when (method)` of PrintServer).      *)
THEOREM EveryCallReachesItsMethod == Spec => []CallsReachTheirMethod
<1>1. ASSUME IInv PROVE CallsReachTheirMethod
  <2> SUFFICES ASSUME Generated, ~Conflict, NEW m \in Range(Methods)
               PROVE  \E b \in Printed("client", "body"), c \in Printed("interface", "const") :
                        /\ b.name = LowerMethodName(m)
                        /\ c.name = b.route /\ c.value = m.name
                        /\ \A d \in Branches :
                             d.matches = b.route <=> (d.kind = b.interaction /\ d.name = b.name)
                        /\ \E d \in Branches : d.matches = b.route
    BY DEF CallsReachTheirMethod
  <2>1. PICK x \in 1 .. N : m = Methods[x]
    BY <1>1, TextsComplete
  <2> DEFINE b == BodyOf(m)
             c == ConstOf(m)
             e == BranchOf(Handler(m), m)
  <2>2. b \in Printed("client", "body") /\ c \in Printed("interface", "const")
    BY <1>1, <2>1, ClientPrinted, InterfacePrinted
  <2>3. /\ b.name = LowerMethodName(m) /\ b.route = MethodFieldName(m)
        /\ b.interaction = Handler(m) /\ c.name = MethodFieldName(m) /\ c.value = m.name
    <3>1. b.interaction = Handler(m)
      BY <1>1, <2>1, TextsComplete, SignaturesAgree
    <3> QED
      BY <3>1 DEF BodyOf, ConstOf
  <2>4. e \in Branches /\ e.matches = MethodFieldName(m)
    <3>1. e \in Branches
      BY <1>1, <2>1, ServerPrinted
    <3>2. e.matches = MethodFieldName(m)
      BY <1>1, <2>1, TextsComplete, BranchAgrees
    <3> QED
      BY <3>1, <3>2
  <2>5. ASSUME NEW d \in Branches
        PROVE  d.matches = MethodFieldName(m)
                 <=> (d.kind = Handler(m) /\ d.name = LowerMethodName(m))
    <3>1. PICK y \in 1 .. N : d = BranchOf(Handler(Methods[y]), Methods[y])
      BY <1>1, ServerPrinted
    <3>2. /\ d.matches = MethodFieldName(Methods[y]) /\ d.kind = Handler(Methods[y])
          /\ d.name = LowerMethodName(Methods[y])
      BY <1>1, <3>1, TextsComplete, BranchAgrees
    <3>3. /\ MethodFieldName(Methods[x]) = MethodFieldName(Methods[y]) => x = y
          /\ LowerMethodName(Methods[x]) = LowerMethodName(Methods[y]) => x = y
      BY <1>1, NamesDistinct
    <3> QED
      BY <2>1, <3>2, <3>3
  <2> HIDE DEF b, c, e
  <2> QED
    BY <2>2, <2>3, <2>4, <2>5
<1> QED
  BY <1>1, IInvHolds, PTL

-----------------------------------------------------------------------------
(* The files.  The three of the service t are opened one after the other.  *)

Order(q) == CASE q = "interface" -> 1 [] q = "client" -> 2 [] q = "server" -> 3

OpenedInv ==
  /\ IsSeq(opened)
  /\ Len(opened) = IF pc[1] = "plugin" THEN 0 ELSE 3 * (s - 1) + Order(pc[1])
  /\ \A j \in 1 .. Len(opened) :
       \E t \in 1 .. s, q \in Sources :
         opened[j] = file[t].name \o Suffix(q) /\ j = 3 * (t - 1) + Order(q)

LEMMA OpenStep ==
  ASSUME OpenedInv, Typed, NEW q \in Sources, Open(q), file' = file,
         s' \in Nat \ {0}, s' >= s, s \in Nat,
         3 * (s' - 1) + Order(q) = Len(opened) + 1
  PROVE  OpenedInv'
<1> DEFINE name == file[s'].name \o Suffix(q)
<1>1. pc' = <<q, "header">> /\ opened' = Append(opened, name) /\ q # "plugin" /\ pc'[1] = q
  BY DEF Open, Sources
<1> HIDE DEF name
<1>2. IsSeq(opened') /\ Len(opened') = Len(opened) + 1 /\ Len(opened) \in Nat
  BY <1>1, Appended DEF OpenedInv
<1>3. /\ \A j \in 1 .. Len(opened) : opened'[j] = opened[j]
      /\ opened'[Len(opened) + 1] = name
  <2> DEFINE S == Range(opened) \union {name}
  <2>1. opened \in Seq(S) /\ name \in S
    <3> DEFINE R == Range(opened)
    <3>1. opened \in Seq(R)
      BY DEF OpenedInv, IsSeq
    <3> HIDE DEF R
    <3>2. opened \in Seq(R \union {name})
      BY <3>1
    <3> QED
      BY <3>2 DEF R
  <2> HIDE DEF S
  <2> QED
    BY <1>1, <2>1
<1>4. ASSUME NEW j \in 1 .. Len(opened')
      PROVE  \E t \in 1 .. s', r \in Sources :
               opened'[j] = file[t].name \o Suffix(r) /\ j = 3 * (t - 1) + Order(r)
  <2>1. CASE j <= Len(opened)
    <3>1. j \in 1 .. Len(opened)
      BY <1>2, <2>1
    <3>2. PICK t \in 1 .. s, r \in Sources :
            opened[j] = file[t].name \o Suffix(r) /\ j = 3 * (t - 1) + Order(r)
      BY <3>1 DEF OpenedInv
    <3>3. t \in 1 .. s'
      OBVIOUS
    <3> QED
      BY <1>3, <3>1, <3>2, <3>3
  <2>2. CASE ~(j <= Len(opened))
    <3>1. j = Len(opened) + 1
      BY <1>2, <2>2
    <3>2. s' \in 1 .. s' /\ opened'[j] = file[s'].name \o Suffix(q)
      BY <1>3, <3>1 DEF name
    <3> QED
      BY <3>1, <3>2
  <2> QED
    BY <2>1, <2>2
<1>5. Len(opened') = IF pc'[1] = "plugin" THEN 0 ELSE 3 * (s' - 1) + Order(pc'[1])
  BY <1>1, <1>2
<1>6. \A j \in 1 .. Len(opened') :
        \E t \in 1 .. s', r \in Sources :
          opened'[j] = file'[t].name \o Suffix(r) /\ j = 3 * (t - 1) + Order(r)
  BY <1>4
<1> QED
  BY <1>2, <1>5, <1>6 DEF OpenedInv

LEMMA OpenedKept ==
  ASSUME OpenedInv, UNCHANGED <<file, s, opened>>, pc'[1] = pc[1]
  PROVE  OpenedInv'
<1>1. file' = file /\ s' = s /\ opened' = opened /\ pc'[1] = pc[1]
  OBVIOUS
<1>2. IsSeq(opened)'
  BY <1>1 DEF OpenedInv, IsSeq
<1>3. (Len(opened) = IF pc[1] = "plugin" THEN 0 ELSE 3 * (s - 1) + Order(pc[1]))'
  BY <1>1 DEF OpenedInv
<1>4. ASSUME NEW j \in 1 .. Len(opened')
      PROVE  \E t \in 1 .. s', q \in Sources :
               opened'[j] = file'[t].name \o Suffix(q) /\ j = 3 * (t - 1) + Order(q)
  <2>1. j \in 1 .. Len(opened)
    BY <1>1
  <2>2. PICK t \in 1 .. s, q \in Sources :
          opened[j] = file[t].name \o Suffix(q) /\ j = 3 * (t - 1) + Order(q)
    BY <2>1 DEF OpenedInv
  <2>3. t \in 1 .. s' /\ opened'[j] = file'[t].name \o Suffix(q)
    BY <1>1, <2>2
  <2> QED
    BY <2>2, <2>3, Zenon
<1> QED
  BY <1>2, <1>3, <1>4 DEF OpenedInv

Printing ==
  \/ InterfaceHeader \/ Constants \/ ConstantsEnd \/ InterfaceFunctions \/ InterfaceEnd
  \/ ClientHeader \/ ClientTracers \/ ClientTracedEnd \/ ClientMethods \/ ClientEnd
  \/ \E p \in {"client", "server"} :
       InitBlock(p) \/ Untraced(p) \/ UntracedEnd(p) \/ Traced(p)
  \/ ServerHeader \/ ServerTracers \/ ServerTracedEnd \/ Collect \/ Collected
  \/ FireAndForget \/ FireAndForgetEnd \/ RequestResponse \/ RequestResponseEnd
  \/ RequestStream \/ RequestStreamEnd \/ RequestChannel \/ RequestChannelEnd
  \/ Payloads \/ Companion

LEMMA PrintingOpensNothing ==
  ASSUME Printing
  PROVE  UNCHANGED <<file, s, opened>> /\ pc'[1] = pc[1]
<1>1. ASSUME NEW label, NEW list, Loop(label, list)
      PROVE  UNCHANGED <<file, s, opened>> /\ pc'[1] = pc[1]
  BY <1>1 DEF Loop
<1>2. ASSUME NEW label, NEW list, NEW tokens, NEW next, Leave(label, list, tokens, next)
      PROVE  UNCHANGED <<file, s, opened>> /\ pc'[1] = pc[1]
  BY <1>2 DEF Leave
<1>3. CASE InterfaceHeader \/ ConstantsEnd \/ InterfaceEnd
  BY <1>2, <1>3 DEF InterfaceHeader, Header, ConstantsEnd, InterfaceEnd
<1>4. CASE Constants \/ InterfaceFunctions
  BY <1>1, <1>4 DEF Constants, InterfaceFunctions
<1>5. CASE ClientHeader \/ ClientTracedEnd \/ ClientEnd
  BY <1>2, <1>5 DEF ClientHeader, Header, ClientTracedEnd, ClientEnd
<1>6. CASE ClientTracers \/ ClientMethods
  BY <1>1, <1>6 DEF ClientTracers, ClientMethods
<1>7. ASSUME NEW p, InitBlock(p) \/ UntracedEnd(p)
      PROVE  UNCHANGED <<file, s, opened>> /\ pc'[1] = pc[1]
  BY <1>2, <1>7 DEF InitBlock, UntracedEnd
<1>8. ASSUME NEW p, Untraced(p) \/ Traced(p)
      PROVE  UNCHANGED <<file, s, opened>> /\ pc'[1] = pc[1]
  BY <1>1, <1>8 DEF Untraced, Traced
<1>9. CASE ServerHeader \/ ServerTracedEnd \/ Collected
  BY <1>2, <1>9 DEF ServerHeader, Header, ServerTracedEnd, Collected
<1>10. CASE ServerTracers \/ Collect
  BY <1>1, <1>10 DEF ServerTracers, Collect
<1>11. CASE FireAndForget \/ RequestResponse \/ RequestStream \/ RequestChannel
  BY <1>1, <1>11 DEF FireAndForget, RequestResponse, RequestStream, RequestChannel, Branch
<1>12. CASE FireAndForgetEnd \/ RequestResponseEnd \/ RequestStreamEnd \/ RequestChannelEnd
  BY <1>2, <1>12 DEF FireAndForgetEnd, RequestResponseEnd, RequestStreamEnd, RequestChannelEnd
<1>13. CASE Payloads \/ Companion
  BY <1>2, <1>13 DEF Payloads, Companion, Header
<1> QED
  BY <1>3, <1>4, <1>5, <1>6, <1>7, <1>8, <1>9, <1>10, <1>11, <1>12, <1>13 DEF Printing

LEMMA OpenedNext == IInv /\ OpenedInv /\ [Next]_state => OpenedInv'
<1> SUFFICES ASSUME IInv, OpenedInv, [Next]_state PROVE OpenedInv'
  OBVIOUS
<1>0. Typed
  BY DEF IInv
<1>t. s \in Nat /\ (pc[1] # "plugin" => s > 0) /\ (pc[1] = "plugin" => s = 0)
  BY <1>0 DEF Typed
<1>1. CASE UNCHANGED state
  BY <1>1, OpenedKept DEF state
<1>2. CASE Printing
  BY <1>2, PrintingOpensNothing, OpenedKept
<1>3. CASE StartService
  <2>1. /\ pc[1] \in {"plugin", "server"} /\ s' = s + 1 /\ Open("interface") /\ file' = file
    BY <1>3 DEF StartService
  <2>2. Len(opened) = 3 * s
    BY <2>1, <1>t DEF OpenedInv, Order
  <2>3. 3 * (s' - 1) + Order("interface") = Len(opened) + 1 /\ s' \in Nat \ {0} /\ s' >= s
    BY <2>1, <2>2, <1>t DEF Order
  <2> QED
    BY <2>1, <2>3, <1>0, <1>t, OpenStep DEF Sources
<1>4. CASE StartClient
  <2>1. /\ pc[1] = "interface" /\ s' = s /\ Open("client") /\ file' = file
    BY <1>4 DEF StartClient
  <2>2. Len(opened) = 3 * (s - 1) + 1
    BY <2>1, <1>t DEF OpenedInv, Order
  <2>3. 3 * (s' - 1) + Order("client") = Len(opened) + 1 /\ s' \in Nat \ {0} /\ s' >= s
    BY <2>1, <2>2, <1>t DEF Order
  <2> QED
    BY <2>1, <2>3, <1>0, <1>t, OpenStep DEF Sources
<1>5. CASE StartServer
  <2>1. /\ pc[1] = "client" /\ s' = s /\ Open("server") /\ file' = file
    BY <1>5 DEF StartServer
  <2>2. Len(opened) = 3 * (s - 1) + 2
    BY <2>1, <1>t DEF OpenedInv, Order
  <2>3. 3 * (s' - 1) + Order("server") = Len(opened) + 1 /\ s' \in Nat \ {0} /\ s' >= s
    BY <2>1, <2>2, <1>t DEF Order
  <2> QED
    BY <2>1, <2>3, <1>0, <1>t, OpenStep DEF Sources
<1> QED
  BY <1>1, <1>2, <1>3, <1>4, <1>5 DEF Next, Printing

LEMMA OpenedInit == Init => OpenedInv
BY DEF Init, OpenedInv, IsSeq

LEMMA LastApart ==
  ASSUME NEW a, IsSeq(a), NEW b, IsSeq(b), NEW x, NEW y, a \o <<x>> = b \o <<y>>
  PROVE  a = b /\ x = y
<1> DEFINE v == a \o <<x>>
<1>1. /\ Len(a) \in Nat /\ Len(v) = Len(a) + 1 /\ \A k \in 1 .. Len(a) : v[k] = a[k]
      /\ v[Len(a) + 1] = x
  BY Extended
<1> DEFINE w == b \o <<y>>
<1>2. /\ Len(b) \in Nat /\ Len(w) = Len(b) + 1 /\ \A k \in 1 .. Len(b) : w[k] = b[k]
      /\ w[Len(b) + 1] = y
  BY Extended
<1>3. v = w
  OBVIOUS
<1> HIDE DEF v, w
<1>4. Len(a) = Len(b)
  BY <1>1, <1>2, <1>3
<1>5. \A k \in 1 .. Len(a) : a[k] = b[k]
  BY <1>1, <1>2, <1>3, <1>4
<1>6. a = [k \in 1 .. Len(a) |-> a[k]] /\ b = [k \in 1 .. Len(b) |-> b[k]]
  BY DEF IsSeq
<1>7. a = b
  BY <1>4, <1>5, <1>6
<1> QED
  BY <1>1, <1>2, <1>3, <1>4, <1>7

Clash(a, b) == \E x \in {<<"Client">>, <<"Server">>} : a = b \o x \/ b = a \o x

(* Names of services that differ give names of files that differ, but for  *)
(* a service named like another one's client or server.                    *)
LEMMA SuffixApart ==
  ASSUME NEW a, IsSeq(a), NEW b, IsSeq(b), NEW q \in Sources, NEW r \in Sources,
         a \o Suffix(q) = b \o Suffix(r)
  PROVE  (a = b /\ q = r) \/ Clash(a, b)
<1>2. a \o <<>> = a /\ b \o <<>> = b
  <2>1. \A t : IsSeq(t) => t \o <<>> = t
    BY DEF IsSeq
  <2> QED
    BY <2>1
<1>3. /\ Suffix("interface") = <<>> /\ Suffix("client") = <<"Client">>
      /\ Suffix("server") = <<"Server">>
  BY DEF Suffix
<1>4. CASE q = "interface" \/ r = "interface"
  <2>1. CASE q = "interface" /\ r = "interface"
    BY <1>2, <1>3, <2>1
  <2>2. CASE q = "interface" /\ r # "interface"
    <3>1. a = b \o Suffix(r)
      BY <1>2, <1>3, <2>2
    <3>2. Suffix(r) \in {<<"Client">>, <<"Server">>}
      BY <1>3, <2>2 DEF Sources
    <3> QED
      BY <3>1, <3>2 DEF Clash
  <2>3. CASE q # "interface" /\ r = "interface"
    <3>1. b = a \o Suffix(q)
      BY <1>2, <1>3, <2>3
    <3>2. Suffix(q) \in {<<"Client">>, <<"Server">>}
      BY <1>3, <2>3 DEF Sources
    <3> QED
      BY <3>1, <3>2 DEF Clash
  <2> QED
    BY <1>4, <2>1, <2>2, <2>3
<1>5. CASE q # "interface" /\ r # "interface"
  <2>1. q \in {"client", "server"} /\ r \in {"client", "server"}
    BY <1>5 DEF Sources
  <2>3. CASE q = "client" /\ r = "client"
    <3>1. a \o <<"Client">> = b \o <<"Client">>
      BY <1>3, <2>3
    <3>2. a = b
      BY <3>1, LastApart
    <3> QED
      BY <2>3, <3>2
  <2>4. CASE q = "client" /\ r = "server"
    <3>1. a \o <<"Client">> = b \o <<"Server">>
      BY <1>3, <2>4
    <3>2. "Client" = "Server"
      BY <3>1, LastApart
    <3> QED
      BY <3>2
  <2>5. CASE q = "server" /\ r = "client"
    <3>1. a \o <<"Server">> = b \o <<"Client">>
      BY <1>3, <2>5
    <3>2. "Server" = "Client"
      BY <3>1, LastApart
    <3> QED
      BY <3>2
  <2>6. CASE q = "server" /\ r = "server"
    <3>1. a \o <<"Server">> = b \o <<"Server">>
      BY <1>3, <2>6
    <3>2. a = b
      BY <3>1, LastApart
    <3> QED
      BY <2>6, <3>2
  <2> QED
    BY <2>1, <2>3, <2>4, <2>5, <2>6
<1> QED
  BY <1>4, <1>5

(* No file is opened twice unless a service is named like the client or    *)
(* the server of another one, for files with any services                  *)
(* (KotlinRSocketRpcGenerator::Generate, context->Open).                   *)
THEOREM NoFileOverwritten == Spec => []FilesDistinct
<1>1. ASSUME IInv, OpenedInv PROVE FilesDistinct
  <2> SUFFICES ASSUME NEW j \in DOMAIN opened, NEW k \in DOMAIN opened, j # k,
                      opened[j] = opened[k]
               PROVE  \E t, u \in DOMAIN file, x \in {<<"Client">>, <<"Server">>} :
                        file[t].name = file[u].name \o x
    BY DEF FilesDistinct
  <2>1. DOMAIN opened = 1 .. Len(opened)
    BY <1>1 DEF OpenedInv, IsSeq
  <2>2. PICK t \in 1 .. s, q \in Sources :
          opened[j] = file[t].name \o Suffix(q) /\ j = 3 * (t - 1) + Order(q)
    BY <1>1, <2>1 DEF OpenedInv
  <2>3. PICK u \in 1 .. s, r \in Sources :
          opened[k] = file[u].name \o Suffix(r) /\ k = 3 * (u - 1) + Order(r)
    BY <1>1, <2>1 DEF OpenedInv
  <2>4. file \in Files /\ DOMAIN file = 1 .. Len(file) /\ Len(file) \in Nat
    <3>1. file \in Files
      BY <1>1 DEF IInv, Typed
    <3>2. IsSeq(file)
      BY <3>1, FilesAssumption DEF IsSeq
    <3> QED
      BY <3>1, <3>2, Joined DEF IsSeq
  <2>5. t \in DOMAIN file /\ u \in DOMAIN file
    BY <1>1, <2>4 DEF IInv, Typed
  <2>6. /\ IsSeq(file[t].name) /\ IsSeq(file[u].name)
        /\ file[t].name = file[u].name => t = u
    BY <2>4, <2>5, FilesAssumption DEF IsSeq
  <2>7. (file[t].name = file[u].name /\ q = r) \/ Clash(file[t].name, file[u].name)
    <3> DEFINE a == file[t].name
               b == file[u].name
    <3>1. /\ IsSeq(a) /\ IsSeq(b) /\ q \in Sources /\ r \in Sources
          /\ a \o Suffix(q) = b \o Suffix(r)
      BY <2>2, <2>3, <2>6
    <3> HIDE DEF a, b
    <3>2. (a = b /\ q = r) \/ Clash(a, b)
      BY <3>1, SuffixApart
    <3> QED
      BY <3>2 DEF a, b
  <2>8. ~(file[t].name = file[u].name /\ q = r)
    BY <2>2, <2>3, <2>6
  <2> QED
    BY <2>5, <2>7, <2>8 DEF Clash
<1> QED
  BY <1>1, IInvHolds, OpenedInit, OpenedNext, PTL DEF Spec

-----------------------------------------------------------------------------
(* What the recursive functions of MethodNames compute.                    *)

(* Induction over an interval, for the members of a set.                   *)
LEMMA Induction ==
  ASSUME NEW lo \in Nat, NEW hi \in Nat, NEW T,
         lo \in T, \A k \in lo + 1 .. hi : k - 1 \in T => k \in T
  PROVE  \A k \in lo .. hi : k \in T
<1> DEFINE U == {k \in lo .. hi : k \notin T}
           R == {pair \in Nat \X Nat : pair[1] < pair[2]}
<1> SUFFICES ASSUME U # {} PROVE FALSE
  OBVIOUS
<1>1. IsWellFoundedOn(R, Nat)
  BY NatLessThanWellFounded DEF OpToRel
<1>2. U \subseteq Nat
  OBVIOUS
<1> HIDE DEF R
<1>3. PICK x \in U : \A y \in U : <<y, x>> \notin R
  <2> HIDE DEF U
  <2> QED BY <1>1, <1>2, WFMin
<1>4. x \in lo + 1 .. hi /\ x - 1 \in lo .. hi /\ <<x - 1, x>> \in R
  BY DEF R
<1>5. x - 1 \in T
  BY <1>3, <1>4
<1> QED BY <1>4, <1>5

(* f is what the steps F make of b, from lo to hi.                         *)
Iterates(f, b, lo, hi, F) == f[lo] = b /\ \A k \in lo + 1 .. hi : f[k] = F[k][f[k - 1]]

(* A function defined by recursion over an interval exists.                *)
LEMMA Iteration ==
  ASSUME NEW S, NEW b \in S, NEW lo \in Nat, NEW hi \in Nat, lo <= hi,
         NEW F \in [lo + 1 .. hi -> [S -> S]]
  PROVE  \E f \in [lo .. hi -> S] : Iterates(f, b, lo, hi, F)
<1> DEFINE T == {m \in Nat : \E f \in [lo .. m -> S] : Iterates(f, b, lo, m, F)}
<1>1. lo \in T
  <2>1. [k \in lo .. lo |-> b] \in [lo .. lo -> S]
        /\ Iterates([k \in lo .. lo |-> b], b, lo, lo, F)
    BY DEF Iterates
  <2> QED BY <2>1
<1>2. ASSUME NEW m \in lo + 1 .. hi, m - 1 \in T
      PROVE  m \in T
  <2>1. PICK f \in [lo .. m - 1 -> S] : Iterates(f, b, lo, m - 1, F)
    BY <1>2
  <2> DEFINE x == F[m][f[m - 1]]
             g == [k \in lo .. m |-> IF k = m THEN x ELSE f[k]]
  <2>2. x \in S
    OBVIOUS
  <2> HIDE DEF x
  <2>3. /\ g \in [lo .. m -> S] /\ g[m] = x
        /\ \A k \in lo .. m - 1 : g[k] = f[k]
    BY <2>2
  <2> HIDE DEF g
  <2>4. ASSUME NEW k \in lo + 1 .. m
        PROVE  g[k] = F[k][g[k - 1]]
    <3>1. CASE k = m
      BY <3>1, <2>3 DEF x
    <3>2. CASE k # m
      <4>1. k \in lo + 1 .. m - 1 /\ k \in lo .. m - 1 /\ k - 1 \in lo .. m - 1
        BY <3>2
      <4> QED BY <4>1, <2>1, <2>3 DEF Iterates
    <3> QED BY <3>1, <3>2
  <2>5. g[lo] = b
    BY <2>1, <2>3 DEF Iterates
  <2>6. m \in Nat
    OBVIOUS
  <2> QED BY <2>3, <2>4, <2>5, <2>6 DEF Iterates
<1> HIDE DEF T
<1>3. \A m \in lo .. hi : m \in T
  BY <1>1, <1>2, Induction
<1> QED BY <1>3 DEF T

-----------------------------------------------------------------------------
(* Characters that are closed under what the generator makes of them.      *)
Alphabet(A) == "_" \in A /\ \A c \in A : toupper(c) \in A /\ tolower(c) \in A

LetterOf(letters, c) == IF c = "_" THEN letters ELSE Append(letters, tolower(c))

(* f has the letters of the first characters of name.                      *)
LettersUpto(name, f) ==
  f[0] = <<>> /\ \A k \in 1 .. Len(name) : f[k] = LetterOf(f[k - 1], name[k])

LEMMA LettersDefined ==
  ASSUME NEW A, Alphabet(A), NEW name \in Seq(A)
  PROVE  \E f \in [0 .. Len(name) -> Seq(A)] :
           LettersUpto(name, f) /\ Letters(name) = f[Len(name)]
<1> DEFINE n == Len(name)
           S == Seq(A)
           b == <<>>
           lo == 0
           F == [k \in lo + 1 .. n |-> [x \in S |-> LetterOf(x, name[k])]]
           Upto(f, k) == IF k = 0 THEN <<>>
                         ELSE IF name[k] = "_" THEN f[k - 1]
                         ELSE Append(f[k - 1], tolower(name[k]))
<1>1. n \in Nat /\ b \in S /\ lo \in Nat /\ lo <= n
  OBVIOUS
<1>2. ASSUME NEW k \in 1 .. n, NEW x \in S
      PROVE  LetterOf(x, name[k]) \in S
  <2>1. name[k] \in A
    OBVIOUS
  <2>2. tolower(name[k]) \in A
    BY <2>1 DEF Alphabet
  <2>3. Append(x, tolower(name[k])) \in S
    BY <2>2
  <2> QED BY <2>3 DEF LetterOf
<1>3. F \in [lo + 1 .. n -> [S -> S]]
  BY <1>2
<1> HIDE DEF n, F, S, b, lo
<1>4. PICK g \in [lo .. n -> S] : Iterates(g, b, lo, n, F)
  BY <1>1, <1>3, Iteration
<1>5. ASSUME NEW k \in 1 .. n
      PROVE  g[k] = LetterOf(g[k - 1], name[k])
  <2>1. k - 1 \in lo .. n /\ k \in lo + 1 .. n
    BY <1>1 DEF lo
  <2> QED BY <1>4, <2>1 DEF F, Iterates
<1>6. ASSUME NEW k \in 0 .. n
      PROVE  g[k] = Upto(g, k)
  <2>1. CASE k = 0
    BY <2>1, <1>4 DEF b, lo, Iterates
  <2>2. CASE k # 0
    <3>1. k \in 1 .. n
      BY <2>2, <1>1
    <3> QED BY <2>2, <3>1, <1>5 DEF LetterOf
  <2> QED BY <2>1, <2>2
<1>7. g = [k \in 0 .. Len(name) |-> Upto(g, k)]
  BY <1>4, <1>6 DEF n, lo
<1> DEFINE f[k \in 0 .. Len(name)] == Upto(f, k)
<1>8. f = [k \in 0 .. Len(name) |-> Upto(f, k)]
  BY <1>7
<1>9. Letters(name) = f[Len(name)]
  BY DEF Letters
<1> HIDE DEF f
<1>10. f[0] = <<>> /\ \A k \in 1 .. n : f[k] = LetterOf(f[k - 1], name[k])
  <2>1. \A k \in 0 .. n : f[k] = Upto(f, k)
    BY <1>8 DEF n
  <2>2. 0 \in 0 .. n /\ \A k \in 1 .. n : k \in 0 .. n /\ k # 0
    BY <1>1
  <2> QED BY <2>1, <2>2 DEF LetterOf
<1>11. \A k \in 0 .. n : f[k] \in S
  <2> DEFINE T == {k \in 0 .. n : f[k] \in S}
  <2>1. \A k \in 0 + 1 .. n : k - 1 \in T => k \in T
    BY <1>1, <1>2, <1>10
  <2>2. 0 \in T
    BY <1>1, <1>10 DEF b
  <2>3. \A k \in 0 .. n : k \in T
    <3> HIDE DEF T
    <3> QED BY <1>1, <2>1, <2>2, Induction
  <2> QED BY <2>3
<1>12. f \in [0 .. n -> S]
  BY <1>8, <1>11 DEF n
<1> QED BY <1>9, <1>10, <1>12 DEF n, S, LettersUpto

LEMMA LettersAppended ==
  ASSUME NEW A, Alphabet(A), NEW name \in Seq(A), NEW c \in A
  PROVE  Letters(name) \in Seq(A)
         /\ Letters(Append(name, c)) = LetterOf(Letters(name), c)
<1> DEFINE longer == Append(name, c)
           n == Len(name)
<1>1. longer \in Seq(A) /\ Len(longer) = n + 1 /\ n \in Nat /\ longer[n + 1] = c
      /\ \A k \in 1 .. n : longer[k] = name[k]
  OBVIOUS
<1>2. PICK f \in [0 .. Len(name) -> Seq(A)] :
        LettersUpto(name, f) /\ Letters(name) = f[Len(name)]
  BY LettersDefined
<1> HIDE DEF longer
<1>3. PICK g \in [0 .. Len(longer) -> Seq(A)] :
        LettersUpto(longer, g) /\ Letters(longer) = g[Len(longer)]
  BY <1>1, LettersDefined
<1>4. \A k \in 0 .. n : f[k] = g[k]
  <2> DEFINE T == {k \in 0 .. n : f[k] = g[k]}
  <2>1. 0 \in T
    BY <1>1, <1>2, <1>3 DEF LettersUpto
  <2>2. ASSUME NEW k \in 0 + 1 .. n, k - 1 \in T
        PROVE  k \in T
    <3>1. k \in 1 .. Len(name) /\ k \in 1 .. Len(longer) /\ longer[k] = name[k]
          /\ f[k - 1] = g[k - 1]
      BY <1>1, <2>2
    <3>2. f[k] = LetterOf(f[k - 1], name[k]) /\ g[k] = LetterOf(g[k - 1], longer[k])
      BY <1>2, <1>3, <3>1 DEF LettersUpto
    <3> QED BY <3>1, <3>2
  <2> HIDE DEF T
  <2>3. \A k \in 0 .. n : k \in T
    BY <1>1, <2>1, <2>2, Induction
  <2> QED BY <2>3 DEF T
<1>5. n + 1 \in 1 .. Len(longer) /\ (n + 1) - 1 = n /\ n \in 0 .. n
  BY <1>1
<1>6. g[n + 1] = LetterOf(g[n], c)
  BY <1>1, <1>3, <1>5 DEF LettersUpto
<1> QED BY <1>1, <1>2, <1>3, <1>4, <1>5, <1>6 DEF longer

LEMMA NoLetters == ASSUME NEW A, Alphabet(A) PROVE Letters(<<>>) = <<>>
<1>1. <<>> \in Seq(A) /\ Len(<<>>) = 0
  OBVIOUS
<1>2. PICK f \in [0 .. Len(<<>>) -> Seq(A)] :
        LettersUpto(<<>>, f) /\ Letters(<<>>) = f[Len(<<>>)]
  BY <1>1, LettersDefined
<1> QED BY <1>1, <1>2 DEF LettersUpto

(* Case does not change which letter a character is.                       *)
LEMMA SameLetter ==
  ASSUME NEW c
  PROVE  /\ tolower(toupper(c)) = tolower(c) /\ tolower(tolower(c)) = tolower(c)
         /\ toupper(c) = "_" <=> c = "_"
         /\ tolower(c) = "_" <=> c = "_"
<1>1. /\ \A x \in DOMAIN Upper : Upper[x] \in Range(Upper) /\ x \notin Range(Upper)
      /\ "_" \notin DOMAIN Upper /\ "_" \notin Range(Upper)
      /\ \A x, y \in DOMAIN Upper : Upper[x] = Upper[y] => x = y
      /\ \A x \in Range(Upper) : \E y \in DOMAIN Upper : Upper[y] = x
  BY UpperAssumption DEF Range, IsInjective
<1>2. \A x \in Range(Upper) : tolower(x) \in DOMAIN Upper /\ Upper[tolower(x)] = x
  BY <1>1 DEF tolower, isupper
<1>3. \A x \in DOMAIN Upper : tolower(x) = x /\ toupper(x) = Upper[x]
  BY <1>1 DEF tolower, toupper, isupper, islower
<1>4. \A x : x \notin Range(Upper) => tolower(x) = x
  BY DEF tolower, isupper
<1>5. \A x : x \notin DOMAIN Upper => toupper(x) = x
  BY DEF toupper, islower
<1>6. ASSUME NEW x \in DOMAIN Upper
      PROVE  tolower(Upper[x]) = x
  <2>1. Upper[x] \in Range(Upper)
    BY <1>1
  <2>2. tolower(Upper[x]) \in DOMAIN Upper /\ Upper[tolower(Upper[x])] = Upper[x]
    BY <2>1, <1>2
  <2> QED BY <2>2, <1>1
<1>7. CASE c \in DOMAIN Upper
  <2>1. toupper(c) = Upper[c] /\ tolower(c) = c /\ tolower(Upper[c]) = c
    BY <1>7, <1>3, <1>6
  <2>2. c # "_"
    BY <1>7, <1>1, Zenon
  <2>3. Upper[c] \in Range(Upper)
    BY <1>7, <1>1
  <2>4. Upper[c] # "_"
    BY <2>3, <1>1, Zenon
  <2> QED BY <2>1, <2>2, <2>4
<1>8. CASE c \notin DOMAIN Upper /\ c \in Range(Upper)
  BY <1>8, <1>1, <1>2, <1>3, <1>5
<1>9. CASE c \notin DOMAIN Upper /\ c \notin Range(Upper)
  BY <1>9, <1>4, <1>5
<1> QED BY <1>7, <1>8, <1>9

UpperOf(word, upper, k) ==
  IF k < Len(word) /\ islower(word[k]) /\ isupper(word[k + 1])
    THEN Append(Append(upper, toupper(word[k])), "_")
    ELSE Append(upper, toupper(word[k]))

UpperUpto(word, f) ==
  f[0] = <<>> /\ \A k \in 1 .. Len(word) : f[k] = UpperOf(word, f[k - 1], k)

LEMMA AppendType ==
  ASSUME NEW A, NEW x \in Seq(A), NEW c \in A PROVE Append(x, c) \in Seq(A)
OBVIOUS

LEMMA UpperDefined ==
  ASSUME NEW A, Alphabet(A), NEW word \in Seq(A)
  PROVE  \E f \in [0 .. Len(word) -> Seq(A)] :
           UpperUpto(word, f) /\ ToAllUpperCase(word) = f[Len(word)]
<1> DEFINE n == Len(word)
           S == Seq(A)
           b == <<>>
           lo == 0
           F == [k \in lo + 1 .. n |-> [x \in S |-> UpperOf(word, x, k)]]
           Upto(f, k) == IF k = 0 THEN <<>>
                         ELSE LET upper == Append(f[k - 1], toupper(word[k])) IN
                                IF k < Len(word) /\ islower(word[k]) /\ isupper(word[k + 1])
                                  THEN Append(upper, "_") ELSE upper
<1>1. n \in Nat /\ b \in S /\ lo \in Nat /\ lo <= n
  OBVIOUS
<1>2. ASSUME NEW k \in 1 .. n, NEW x \in S
      PROVE  UpperOf(word, x, k) \in S
  <2>1. word[k] \in A
    OBVIOUS
  <2> DEFINE c == toupper(word[k])
             u == "_"
             y == Append(x, c)
  <2>2. c \in A /\ u \in A
    BY <2>1 DEF Alphabet
  <2> HIDE DEF c, u
  <2>3. y \in S
    BY <2>2, AppendType
  <2> HIDE DEF y
  <2>4. Append(y, u) \in S
    BY <2>2, <2>3, AppendType
  <2> QED BY <2>3, <2>4 DEF UpperOf, c, u, y
<1>3. F \in [lo + 1 .. n -> [S -> S]]
  BY <1>2
<1> HIDE DEF n, F, S, b, lo
<1>4. PICK g \in [lo .. n -> S] : Iterates(g, b, lo, n, F)
  BY <1>1, <1>3, Iteration
<1>5. ASSUME NEW k \in 1 .. n
      PROVE  g[k] = UpperOf(word, g[k - 1], k)
  <2>1. k - 1 \in lo .. n /\ k \in lo + 1 .. n
    BY <1>1 DEF lo
  <2> QED BY <1>4, <2>1 DEF F, Iterates
<1>6. ASSUME NEW k \in 0 .. n
      PROVE  g[k] = Upto(g, k)
  <2>1. CASE k = 0
    BY <2>1, <1>4 DEF b, lo, Iterates
  <2>2. CASE k # 0
    <3>1. k \in 1 .. n
      BY <2>2, <1>1
    <3> QED BY <2>2, <3>1, <1>5 DEF UpperOf
  <2> QED BY <2>1, <2>2
<1>7. g = [k \in 0 .. Len(word) |-> Upto(g, k)]
  BY <1>4, <1>6 DEF n, lo
<1> DEFINE f[k \in 0 .. Len(word)] == Upto(f, k)
<1>8. f = [k \in 0 .. Len(word) |-> Upto(f, k)]
  BY <1>7
<1>9. ToAllUpperCase(word) = f[Len(word)]
  BY DEF ToAllUpperCase
<1> HIDE DEF f
<1>10. f[0] = <<>> /\ \A k \in 1 .. n : f[k] = UpperOf(word, f[k - 1], k)
  <2>1. \A k \in 0 .. n : f[k] = Upto(f, k)
    BY <1>8 DEF n
  <2>2. 0 \in 0 .. n /\ \A k \in 1 .. n : k \in 0 .. n /\ k # 0
    BY <1>1
  <2> QED BY <2>1, <2>2 DEF UpperOf
<1>11. \A k \in 0 .. n : f[k] \in S
  <2> DEFINE T == {k \in 0 .. n : f[k] \in S}
  <2>1. \A k \in 0 + 1 .. n : k - 1 \in T => k \in T
    BY <1>1, <1>2, <1>10
  <2>2. 0 \in T
    BY <1>1, <1>10 DEF b
  <2>3. \A k \in 0 .. n : k \in T
    <3> HIDE DEF T
    <3> QED BY <1>1, <2>1, <2>2, Induction
  <2> QED BY <2>3
<1>12. f \in [0 .. n -> S]
  BY <1>8, <1>11 DEF n
<1> QED BY <1>9, <1>10, <1>12 DEF n, S, UpperUpto

(* ToAllUpperCase keeps the letters of a name.                             *)
LEMMA UpperLetters ==
  ASSUME NEW A, Alphabet(A), NEW word \in Seq(A)
  PROVE  Letters(ToAllUpperCase(word)) = Letters(word)
<1> DEFINE n == Len(word)
<1>1. n \in Nat
  OBVIOUS
<1>2. PICK f \in [0 .. Len(word) -> Seq(A)] :
        LettersUpto(word, f) /\ Letters(word) = f[Len(word)]
  BY LettersDefined
<1>3. PICK u \in [0 .. Len(word) -> Seq(A)] :
        UpperUpto(word, u) /\ ToAllUpperCase(word) = u[Len(word)]
  BY UpperDefined
<1> DEFINE T == {k \in 0 .. n : Letters(u[k]) = f[k]}
<1>4. 0 \in T
  BY <1>1, <1>2, <1>3, NoLetters DEF LettersUpto, UpperUpto
<1>5. ASSUME NEW k \in 0 + 1 .. n, k - 1 \in T
      PROVE  k \in T
  <2> DEFINE x == u[k - 1]
             c == word[k]
             d == toupper(c)
             y == Append(x, d)
  <2>1. k \in 1 .. n /\ k \in 0 .. n /\ x \in Seq(A) /\ c \in A /\ Letters(x) = f[k - 1]
    BY <1>1, <1>5
  <2>2. f[k] = LetterOf(f[k - 1], c) /\ u[k] = UpperOf(word, x, k)
    BY <1>2, <1>3, <2>1 DEF LettersUpto, UpperUpto
  <2>3. d \in A /\ "_" \in A
    BY <2>1 DEF Alphabet
  <2> HIDE DEF x, c, d
  <2>4. y \in Seq(A) /\ Letters(y) = LetterOf(Letters(x), d)
    BY <2>1, <2>3, LettersAppended, AppendType
  <2> HIDE DEF y
  <2>5. Letters(Append(y, "_")) = Letters(y)
    BY <2>3, <2>4, LettersAppended DEF LetterOf
  <2>6. u[k] = y \/ u[k] = Append(y, "_")
    <3>1. UpperOf(word, x, k) = Append(x, toupper(word[k]))
          \/ UpperOf(word, x, k) = Append(Append(x, toupper(word[k])), "_")
      BY DEF UpperOf
    <3> QED BY <3>1, <2>2 DEF y, c, d
  <2>7. LetterOf(Letters(x), d) = LetterOf(Letters(x), c)
    BY SameLetter DEF LetterOf, d
  <2> QED BY <2>1, <2>2, <2>4, <2>5, <2>6, <2>7
<1> HIDE DEF T
<1>6. \A k \in 0 .. n : k \in T
  BY <1>1, <1>4, <1>5, Induction
<1> QED BY <1>1, <1>2, <1>3, <1>6 DEF T

LowerOf(acc, c) ==
  IF c = "_" THEN [acc EXCEPT !.after_underscore = TRUE]
  ELSE [w |-> Append(acc.w, IF acc.after_underscore THEN toupper(c) ELSE c),
        after_underscore |-> FALSE]

LowerUpto(word, f) ==
  /\ f[1] = [w |-> <<tolower(word[1])>>, after_underscore |-> FALSE]
  /\ \A k \in 2 .. Len(word) : f[k] = LowerOf(f[k - 1], word[k])

LEMMA LowerDefined ==
  ASSUME NEW A, Alphabet(A), NEW word \in Seq(A), word # <<>>
  PROVE  \E f \in [1 .. Len(word) -> [w : Seq(A), after_underscore : BOOLEAN]] :
           LowerUpto(word, f) /\ MixedLower(word) = f[Len(word)].w
<1> DEFINE n == Len(word)
           S == [w : Seq(A), after_underscore : BOOLEAN]
           b == [w |-> <<tolower(word[1])>>, after_underscore |-> FALSE]
           lo == 1
           F == [k \in lo + 1 .. n |-> [x \in S |-> LowerOf(x, word[k])]]
           Upto(f, k) ==
             IF k = 1 THEN [w |-> <<tolower(word[1])>>, after_underscore |-> FALSE]
             ELSE LET acc == f[k - 1] IN
                    IF word[k] = "_" THEN [acc EXCEPT !.after_underscore = TRUE]
                    ELSE [w |-> Append(acc.w, IF acc.after_underscore THEN toupper(word[k])
                                              ELSE word[k]),
                          after_underscore |-> FALSE]
<1>1. n \in Nat /\ b \in S /\ lo \in Nat /\ lo <= n
  <2>1. n \in Nat /\ 1 <= n /\ word[1] \in A
    OBVIOUS
  <2>2. tolower(word[1]) \in A
    BY <2>1 DEF Alphabet
  <2>3. <<tolower(word[1])>> \in Seq(A)
    BY <2>2
  <2> QED BY <2>1, <2>3
<1>2. ASSUME NEW k \in 1 .. n, NEW x \in S
      PROVE  LowerOf(x, word[k]) \in S
  <2> DEFINE c == word[k]
             d == IF x.after_underscore THEN toupper(c) ELSE c
  <2>1. c \in A
    OBVIOUS
  <2>2. toupper(c) \in A
    BY <2>1 DEF Alphabet
  <2>3. d \in A
    BY <2>1, <2>2
  <2>4. x.w \in Seq(A)
    OBVIOUS
  <2> HIDE DEF d
  <2>5. Append(x.w, d) \in Seq(A)
    BY <2>3, <2>4
  <2>6. [w |-> Append(x.w, d), after_underscore |-> FALSE] \in S
    BY <2>5
  <2>7. [x EXCEPT !.after_underscore = TRUE] \in S
    OBVIOUS
  <2> QED BY <2>6, <2>7 DEF LowerOf, d
<1>3. F \in [lo + 1 .. n -> [S -> S]]
  BY <1>2
<1> HIDE DEF n, F, S, b, lo
<1>4. PICK g \in [lo .. n -> S] : Iterates(g, b, lo, n, F)
  BY <1>1, <1>3, Iteration
<1>5. ASSUME NEW k \in 2 .. n
      PROVE  g[k] = LowerOf(g[k - 1], word[k])
  <2>1. k - 1 \in lo .. n /\ k \in lo + 1 .. n
    BY <1>1 DEF lo
  <2> QED BY <1>4, <2>1 DEF F, Iterates
<1>6. ASSUME NEW k \in 1 .. n
      PROVE  g[k] = Upto(g, k)
  <2>1. CASE k = 1
    BY <2>1, <1>4 DEF b, lo, Iterates
  <2>2. CASE k # 1
    <3>1. k \in 2 .. n
      BY <2>2, <1>1
    <3> QED BY <2>2, <3>1, <1>5 DEF LowerOf
  <2> QED BY <2>1, <2>2
<1>7. g = [k \in 1 .. Len(word) |-> Upto(g, k)]
  BY <1>4, <1>6 DEF n, lo
<1> DEFINE f[k \in 1 .. Len(word)] == Upto(f, k)
<1>8. f = [k \in 1 .. Len(word) |-> Upto(f, k)]
  BY <1>7
<1>9. MixedLower(word) = f[Len(word)].w
  BY DEF MixedLower
<1> HIDE DEF f
<1>10. f[1] = b /\ \A k \in 2 .. n : f[k] = LowerOf(f[k - 1], word[k])
  <2>1. \A k \in 1 .. n : f[k] = Upto(f, k)
    BY <1>8 DEF n
  <2>2. 1 \in 1 .. n /\ \A k \in 2 .. n : k \in 1 .. n /\ k # 1
    BY <1>1 DEF lo
  <2>3. f[1] = b
    BY <2>1, <2>2 DEF b
  <2>4. \A k \in 2 .. n : f[k] = LowerOf(f[k - 1], word[k])
    BY <2>1, <2>2 DEF LowerOf
  <2> QED BY <2>3, <2>4
<1>11. \A k \in 1 .. n : f[k] \in S
  <2> DEFINE T == {k \in 1 .. n : f[k] \in S}
  <2>1. \A k \in 1 + 1 .. n : k - 1 \in T => k \in T
    BY <1>1, <1>2, <1>10
  <2>2. 1 \in T
    BY <1>1, <1>10 DEF lo
  <2>3. \A k \in 1 .. n : k \in T
    <3> HIDE DEF T
    <3> QED BY <1>1, <2>1, <2>2, Induction
  <2> QED BY <2>3
<1>12. f \in [1 .. n -> S]
  BY <1>8, <1>11 DEF n
<1> QED BY <1>9, <1>10, <1>12 DEF n, S, b, LowerUpto

(* MixedLower keeps the letters of a name.                                 *)
LEMMA LowerLetters ==
  ASSUME NEW A, Alphabet(A), NEW word \in Seq(A), word # <<>>
  PROVE  Letters(MixedLower(word)) = Letters(word)
<1> DEFINE n == Len(word)
<1>1. n \in Nat /\ 1 \in 1 .. n
  OBVIOUS
<1>2. PICK f \in [0 .. Len(word) -> Seq(A)] :
        LettersUpto(word, f) /\ Letters(word) = f[Len(word)]
  BY LettersDefined
<1>3. PICK l \in [1 .. Len(word) -> [w : Seq(A), after_underscore : BOOLEAN]] :
        LowerUpto(word, l) /\ MixedLower(word) = l[Len(word)].w
  BY LowerDefined
<1> DEFINE T == {k \in 1 .. n : Letters(l[k].w) = f[k]}
<1>4. 1 \in T
  <2> DEFINE c == word[1]
             e == <<>>
             d == tolower(c)
  <2>1. c \in A /\ e \in Seq(A) /\ l[1].w = Append(e, d)
    BY <1>1, <1>3 DEF LowerUpto
  <2>2. d \in A
    BY <2>1 DEF Alphabet
  <2>3. f[1] = LetterOf(e, c)
    BY <1>1, <1>2 DEF LettersUpto
  <2> HIDE DEF d, e
  <2>4. Letters(Append(e, d)) = LetterOf(Letters(e), d)
    BY <2>1, <2>2, LettersAppended
  <2>5. Letters(e) = e
    BY NoLetters DEF e
  <2>6. LetterOf(e, d) = LetterOf(e, c)
    BY SameLetter DEF LetterOf, d
  <2> QED BY <1>1, <2>1, <2>3, <2>4, <2>5, <2>6
<1>5. ASSUME NEW k \in 1 + 1 .. n, k - 1 \in T
      PROVE  k \in T
  <2> DEFINE acc == l[k - 1]
             x == acc.w
             c == word[k]
             d == IF acc.after_underscore THEN toupper(c) ELSE c
  <2>1. k \in 2 .. n /\ k \in 1 .. n /\ acc \in [w : Seq(A), after_underscore : BOOLEAN]
        /\ c \in A /\ Letters(x) = f[k - 1]
    BY <1>1, <1>5
  <2>2. f[k] = LetterOf(f[k - 1], c) /\ l[k] = LowerOf(acc, c)
    BY <1>2, <1>3, <2>1 DEF LettersUpto, LowerUpto
  <2>3. CASE c = "_"
    <3>1. l[k].w = x
      BY <2>1, <2>2, <2>3 DEF LowerOf
    <3> QED BY <2>1, <2>2, <2>3, <3>1 DEF LetterOf
  <2>4. CASE c # "_"
    <3>1. x \in Seq(A) /\ toupper(c) \in A
      BY <2>1 DEF Alphabet
    <3>2. d \in A
      BY <2>1, <3>1
    <3>3. l[k].w = Append(x, d)
      <4> HIDE DEF acc, c
      <4>1. LowerOf(acc, c) = [w |-> Append(x, d), after_underscore |-> FALSE]
        BY <2>4 DEF LowerOf
      <4> QED BY <4>1, <2>2
    <3>4. LetterOf(Letters(x), d) = LetterOf(Letters(x), c)
      BY SameLetter DEF LetterOf
    <3> HIDE DEF x, d
    <3>5. Letters(Append(x, d)) = LetterOf(Letters(x), d)
      BY <3>1, <3>2, LettersAppended
    <3> QED BY <2>1, <2>2, <3>3, <3>4, <3>5
  <2> QED BY <2>3, <2>4
<1> HIDE DEF T
<1>6. \A k \in 1 .. n : k \in T
  BY <1>1, <1>4, <1>5, Induction
<1> QED BY <1>1, <1>2, <1>3, <1>6 DEF T

-----------------------------------------------------------------------------
(* Names clash only by case.                                               *)

LEMMA MethodNamed ==
  ASSUME Typed, s > 0, NEW x \in 1 .. N
  PROVE  \E A : Alphabet(A) /\ Methods[x].name \in Seq(A) /\ Methods[x].name # <<>>
<1> DEFINE name == Methods[x].name
           A == Range(name) \union DOMAIN Upper \union Range(Upper) \union {"_"}
<1>1. name \in Seq(Range(name)) /\ name # <<>>
  <2>1. file \in Files /\ s \in DOMAIN file /\ IsSeq(Methods)
    BY MethodsTyped DEF Typed
  <2>2. Methods[x] \in Range(Methods)
    BY <2>1 DEF IsSeq, N, Range
  <2> QED BY <2>1, <2>2, FilesAssumption DEF Methods
<1>2. Range(name) \subseteq A
  OBVIOUS
<1>3. name \in Seq(A)
  <2> HIDE DEF A, name
  <2> QED BY <1>1, <1>2
<1>4. Alphabet(A)
  <2>1. \A c \in DOMAIN Upper : Upper[c] \in Range(Upper)
    BY DEF Range
  <2>2. \A c \in Range(Upper) : \E l \in DOMAIN Upper : Upper[l] = c
    BY DEF Range
  <2>3. \A c \in Range(Upper) : tolower(c) \in DOMAIN Upper
    BY <2>2 DEF tolower, isupper
  <2>4. \A c \in A : toupper(c) \in A
    BY <2>1 DEF toupper, islower
  <2>5. \A c \in A : c \notin Range(Upper) => tolower(c) = c
    BY DEF tolower, isupper
  <2>6. \A c \in A : tolower(c) \in A
    BY <2>3, <2>5
  <2>7. "_" \in A
    OBVIOUS
  <2> QED BY <2>4, <2>6, <2>7 DEF Alphabet
<1> QED BY <1>1, <1>3, <1>4

(* Methods with the same constant or the same tracer have the same letters. *)
LEMMA SameLetters ==
  ASSUME Typed, s > 0, NEW x \in 1 .. N, NEW y \in 1 .. N,
         \/ MethodFieldName(Methods[x]) = MethodFieldName(Methods[y])
         \/ LowerMethodName(Methods[x]) = LowerMethodName(Methods[y])
  PROVE  Letters(Methods[x].name) = Letters(Methods[y].name)
<1>1. ASSUME NEW z \in 1 .. N
      PROVE  /\ Letters(MethodFieldName(Methods[z])) = Letters(Methods[z].name)
             /\ Letters(LowerMethodName(Methods[z])) = Letters(Methods[z].name)
  <2>1. PICK A : Alphabet(A) /\ Methods[z].name \in Seq(A) /\ Methods[z].name # <<>>
    BY MethodNamed
  <2> QED BY <2>1, UpperLetters, LowerLetters DEF MethodFieldName, LowerMethodName
<1> QED BY <1>1

Unnamed(rest) == \A d \in rest : d.kind \notin {"const", "tracer"}

NameOf(p, m) == IF p = "interface" THEN MethodFieldName(m) ELSE LowerMethodName(m)

(* Constants and tracers are in the first row of a text.                   *)
NamedRow(p, t, ms) ==
  \A x \in DOMAIN t : t[x].kind \in {"const", "tracer"} =>
    x \in 1 .. Len(ms) /\ t[x].name = NameOf(p, ms[x])

LEMMA NamedText ==
  ASSUME NEW p \in Sources, NEW t, NEW ms, NEW n, NEW rest, HasText(p, t, ms, n, rest),
         Len(ms) \in Nat, n <= (IF p = "interface" THEN Len(ms) ELSE 3 * Len(ms)),
         Unnamed(rest)
  PROVE  NamedRow(p, t, ms)
<1> SUFFICES ASSUME NEW x \in DOMAIN t, t[x].kind \in {"const", "tracer"}
             PROVE  x \in 1 .. Len(ms) /\ t[x].name = NameOf(p, ms[x])
  BY DEF NamedRow
<1>1. /\ x \in 1 .. Len(t) /\ Len(t) \in Nat /\ n \in 0 .. Len(t)
      /\ x > n => t[x] \in rest
      /\ x \in 1 .. n => t[x] = Row(p, ms, x)
  BY TextRange
<1>2. x \in 1 .. n
  BY <1>1 DEF Unnamed
<1>3. CASE p = "interface"
  BY <1>1, <1>2, <1>3 DEF Row, ConstOf, NameOf
<1>4. CASE p \in {"client", "server"}
  <2>1. x <= Len(ms)
    <3>1. ~(x <= Len(ms)) => Row(p, ms, x).kind \in {"untraced", "traced"}
      BY <1>4 DEF Row, AssignmentOf
    <3> QED BY <1>1, <1>2, <3>1
  <2>2. Row(p, ms, x) = TracerOf(p, ms[x])
    BY <1>4, <2>1 DEF Row
  <2> QED BY <1>1, <1>2, <1>4, <2>1, <2>2 DEF TracerOf, NameOf
<1> QED BY <1>3, <1>4 DEF Sources

LEMMA OthersUnnamed ==
  ASSUME NEW ms, NEW n
  PROVE  Unnamed({}) /\ Unnamed(Funs(ms, n)) /\ Unnamed(ClientMethodsOf(ms, n))
<1>1. \A d \in Funs(ms, n) : d.kind = "fun"
  BY DEF Funs, FunOf, FunctionOf
<1>2. \A d \in ClientMethodsOf(ms, n) : d.kind \in {"overload", "override", "body"}
  BY DEF ClientMethodsOf, OverloadOf, OverrideOf, BodyOf, FunctionOf
<1> QED BY <1>1, <1>2 DEF Unnamed

LEMMA BranchesUnnamed ==
  ASSUME NEW h \in Handlers, NEW hs \in SUBSET Handlers, NEW n
  PROVE  Unnamed(AllBranches(hs) \union BranchesOf(h, handled[h], n)) /\ Unnamed(AllBranches(hs))
<1>1. ASSUME NEW x \in Handlers, NEW ms, NEW y, NEW d \in BranchesOf(x, ms, y)
      PROVE  d.kind \in Handlers
  BY DEF BranchesOf, BranchOf
<1>2. \A d \in AllBranches(hs) : d.kind \in Handlers
  BY <1>1 DEF AllBranches
<1>3. "const" \notin Handlers /\ "tracer" \notin Handlers
  BY DEF Handlers
<1> QED BY <1>1, <1>2, <1>3 DEF Unnamed

(* The texts at any moment, as far as names are concerned.                 *)
LEMMA NamedByHas ==
  ASSUME Typed, s > 0, NEW p \in Sources, NEW n, NEW rest, Has(p, n, rest),
         n <= (IF p = "interface" THEN N ELSE 3 * N), Unnamed(rest)
  PROVE  NamedRow(p, text[p], Methods)
BY MethodsTyped, NamedText DEF Has, N

LEMMA InterfaceNamed ==
  ASSUME IInv, s > 0 PROVE NamedRow("interface", text["interface"], Methods)
<1>1. Typed /\ InterfaceInv /\ N \in Nat /\ i \in Nat
  BY MethodsTyped DEF IInv, Typed
<1>2. pc \in Labels /\ pc[1] # "plugin"
  BY <1>1 DEF Typed
<1>3. \/ pc \in {<<"interface", x>> : x \in {"header", "constants", "functions", "end"}}
      \/ pc[1] \in {"client", "server"}
  BY <1>2 DEF Labels
<1>4. CASE pc = <<"interface", "header">>
  BY <1>1, <1>4, NamedByHas, OthersUnnamed DEF InterfaceInv, Sources
<1>5. CASE pc = <<"interface", "constants">>
  <2>1. i - 1 <= N
    BY <1>1, <1>5 DEF Typed, InLoop
  <2> QED BY <1>1, <1>5, <2>1, NamedByHas, OthersUnnamed DEF InterfaceInv, Sources
<1>6. CASE pc = <<"interface", "functions">>
  BY <1>1, <1>6, NamedByHas, OthersUnnamed DEF InterfaceInv, Sources
<1>7. CASE pc = <<"interface", "end">> \/ pc[1] \in {"client", "server"}
  BY <1>1, <1>7, NamedByHas, OthersUnnamed DEF InterfaceInv, Sources
<1> QED BY <1>3, <1>4, <1>5, <1>6, <1>7

(* Client and server print the same rows.                                  *)
LEMMA RowsNamed ==
  ASSUME Typed, s > 0, NEW p \in {"client", "server"}, RowsInv(p),
         NEW section \in {"header", "tracers", "untraced", "traced"}, pc = <<p, section>>
  PROVE  NamedRow(p, text[p], Methods)
<1>1. N \in Nat /\ i \in Nat /\ p \in Sources /\ p # "interface"
  BY MethodsTyped DEF Typed, Sources
<1>2. section # "header" => i - 1 <= N
  BY <1>1 DEF Typed, InLoop
<1>3. \E n : n <= 3 * N /\ Has(p, n, {})
  <2>1. CASE section = "header"
    BY <1>1, <2>1 DEF RowsInv
  <2>2. CASE section = "tracers"
    <3>1. i - 1 <= 3 * N
      BY <1>1, <1>2, <2>2
    <3> QED BY <2>2, <3>1 DEF RowsInv
  <2>3. CASE section = "untraced"
    <3>1. N + (i - 1) <= 3 * N
      BY <1>1, <1>2, <2>3
    <3> QED BY <2>3, <3>1 DEF RowsInv
  <2>4. CASE section = "traced"
    <3>1. 2 * N + (i - 1) <= 3 * N
      BY <1>1, <1>2, <2>4
    <3> QED BY <2>4, <3>1 DEF RowsInv
  <2> QED BY <2>1, <2>2, <2>3, <2>4
<1> QED BY <1>1, <1>3, NamedByHas, OthersUnnamed

LEMMA ClientNamed ==
  ASSUME IInv, s > 0 PROVE NamedRow("client", text["client"], Methods)
<1>1. Typed /\ ClientInv /\ N \in Nat /\ "client" \in Sources
  BY MethodsTyped DEF IInv, Sources
<1>2. pc \in Labels /\ pc[1] # "plugin"
  BY <1>1 DEF Typed
<1>3. \/ pc[1] \in {"interface", "server"}
      \/ pc \in {<<"client", x>> : x \in {"header", "tracers", "untraced", "traced",
                                          "methods", "end"}}
  BY <1>2 DEF Labels
<1>4. CASE pc[1] = "interface"
  BY <1>1, <1>4, NamedByHas, OthersUnnamed DEF ClientInv
<1>5. CASE pc \in {<<"client", x>> : x \in {"header", "tracers", "untraced", "traced"}}
  BY <1>1, <1>5, RowsNamed DEF ClientInv
<1>6. CASE pc = <<"client", "methods">>
  BY <1>1, <1>6, NamedByHas, OthersUnnamed DEF ClientInv
<1>7. CASE pc = <<"client", "end">> \/ pc[1] = "server"
  BY <1>1, <1>7, NamedByHas, OthersUnnamed DEF ClientInv
<1> QED BY <1>3, <1>4, <1>5, <1>6, <1>7

LEMMA ServerNamed ==
  ASSUME IInv, s > 0 PROVE NamedRow("server", text["server"], Methods)
<1>1. Typed /\ ServerInv /\ N \in Nat /\ "server" \in Sources
  BY MethodsTyped DEF IInv, Sources
<1>2. pc \in Labels /\ pc[1] # "plugin"
  BY <1>1 DEF Typed
<1>3. \/ pc[1] \in {"interface", "client"}
      \/ \E x \in {"header", "tracers", "untraced", "traced"} : pc = <<"server", x>>
      \/ pc = <<"server", "handlers">>
      \/ \E h \in Handlers : pc = <<"server", h>>
      \/ pc \in {<<"server", "payloads">>, <<"server", "companion">>, <<"server", "end">>}
  BY <1>2 DEF Labels
<1>4. CASE pc[1] \in {"interface", "client"}
  BY <1>1, <1>4, NamedByHas, OthersUnnamed DEF ServerInv
<1>5. CASE \E x \in {"header", "tracers", "untraced", "traced"} : pc = <<"server", x>>
  BY <1>1, <1>5, RowsNamed DEF ServerInv
<1>6. CASE pc = <<"server", "handlers">>
  BY <1>1, <1>6, NamedByHas, OthersUnnamed DEF ServerInv
<1>7. ASSUME NEW h \in Handlers, pc = <<"server", h>>
      PROVE  NamedRow("server", text["server"], Methods)
  <2> DEFINE rest == AllBranches(Earlier(h)) \union BranchesOf(h, handled[h], i - 1)
  <2>1. Earlier(h) \in SUBSET Handlers
    BY DEF Earlier, Handlers
  <2>2. Has("server", 3 * N, rest)
    BY <1>1, <1>7 DEF ServerInv
  <2>3. Unnamed(rest)
    BY <2>1, BranchesUnnamed
  <2> HIDE DEF rest
  <2> QED BY <1>1, <2>2, <2>3, NamedByHas
<1>8. CASE pc \in {<<"server", "payloads">>, <<"server", "companion">>, <<"server", "end">>}
  <2>1. Has("server", 3 * N, AllBranches(Handlers))
    BY <1>1, <1>8 DEF ServerInv
  <2>2. Unnamed(AllBranches(Handlers))
    BY BranchesUnnamed DEF Handlers
  <2> QED BY <1>1, <2>1, <2>2, NamedByHas
<1> QED BY <1>3, <1>4, <1>5, <1>6, <1>7, <1>8

(* Nothing is printed before the first service.                            *)
NothingYet == s = 0 => text = Nothing

LEMMA NothingInit == Init => NothingYet
BY DEF Init, NothingYet

LEMMA NothingNext == IInv /\ NothingYet /\ [Next]_state => NothingYet'
<1> SUFFICES ASSUME IInv, NothingYet, [Next]_state, s' = 0
             PROVE  text' = Nothing
  BY DEF NothingYet
<1>1. Typed /\ s \in Nat
  BY DEF IInv, Typed
<1>2. ~StartService
  BY <1>1 DEF StartService
<1>3. CASE UNCHANGED state
  BY <1>3 DEF state, NothingYet
<1>4. CASE Next
  <2>1. s' = s
    BY <1>2, <1>4 DEF Next, StartClient, StartServer, InterfaceHeader, Constants,
       ConstantsEnd, InterfaceFunctions, InterfaceEnd, ClientHeader, ClientTracers,
       ClientTracedEnd, ClientMethods, ClientEnd, InitBlock, Untraced, UntracedEnd, Traced,
       ServerHeader, ServerTracers, ServerTracedEnd, Collect, Collected, FireAndForget,
       FireAndForgetEnd, RequestResponse, RequestResponseEnd, RequestStream,
       RequestStreamEnd, RequestChannel, RequestChannelEnd, Payloads, Companion,
       Header, Leave, Loop, Branch
  <2>2. pc = <<"plugin", "end">>
    BY <1>1, <2>1 DEF Typed, Labels
  <2>3. FALSE
    BY <1>2, <1>4, <2>2 DEF Next, StartClient, StartServer, InterfaceHeader, Constants,
       ConstantsEnd, InterfaceFunctions, InterfaceEnd, ClientHeader, ClientTracers,
       ClientTracedEnd, ClientMethods, ClientEnd, InitBlock, Untraced, UntracedEnd, Traced,
       ServerHeader, ServerTracers, ServerTracedEnd, Collect, Collected, FireAndForget,
       FireAndForgetEnd, RequestResponse, RequestResponseEnd, RequestStream,
       RequestStreamEnd, RequestChannel, RequestChannelEnd, Payloads, Companion,
       Header, Leave, Loop, Branch
  <2> QED BY <2>3
<1> QED BY <1>3, <1>4

(* For names of any length: where two constants or two tracers of a source *)
(* have one name, two methods of the service are named alike but for case  *)
(* and underscores.  Neither MixedLower nor ToAllUpperCase drops, adds or  *)
(* moves a letter.                                                         *)
THEOREM ConflictsExplained == Spec => []ConflictOnlyByCase
<1>1. IInv /\ NothingYet => ConflictOnlyByCase
  <2> SUFFICES ASSUME IInv, NothingYet, Conflict
               PROVE  \E j, k \in DOMAIN Methods :
                        j # k /\ Letters(Methods[j].name) = Letters(Methods[k].name)
    BY DEF ConflictOnlyByCase
  <2>1. PICK p \in Sources : \E j, k \in DOMAIN text[p] :
          /\ j # k
          /\ text[p][j].kind \in {"const", "tracer"}
          /\ text[p][j].kind = text[p][k].kind
          /\ text[p][j].name = text[p][k].name
    BY DEF Conflict
  <2>2. PICK j \in DOMAIN text[p], k \in DOMAIN text[p] :
          /\ j # k
          /\ text[p][j].kind \in {"const", "tracer"}
          /\ text[p][j].kind = text[p][k].kind
          /\ text[p][j].name = text[p][k].name
    BY <2>1
  <2>3. Typed /\ s \in Nat
    BY DEF IInv, Typed
  <2>4. s # 0
    <3>1. s = 0 => text[p] = <<>>
      BY DEF NothingYet, Nothing
    <3> QED BY <2>2, <3>1
  <2>5. s > 0
    BY <2>3, <2>4
  <2>6. NamedRow(p, text[p], Methods)
    BY <2>5, InterfaceNamed, ClientNamed, ServerNamed DEF Sources
  <2>7. /\ j \in 1 .. N /\ k \in 1 .. N
        /\ NameOf(p, Methods[j]) = NameOf(p, Methods[k])
    BY <2>2, <2>6 DEF NamedRow, N
  <2>8. Letters(Methods[j].name) = Letters(Methods[k].name)
    BY <2>3, <2>5, <2>7, SameLetters DEF NameOf
  <2>9. DOMAIN Methods = 1 .. N
    BY <2>3, <2>5, MethodsTyped DEF IsSeq, N
  <2> QED BY <2>2, <2>7, <2>8, <2>9
<1> QED
  BY <1>1, IInvHolds, NothingInit, IInvInit, IInvNext, NothingNext, PTL DEF Spec

-----------------------------------------------------------------------------
(* Braces and indentation.  What a list of tokens does to a layout is      *)
(* defined by recursion on the list; Iteration and Induction give the      *)
(* layouts between its tokens.                                             *)

Tokens == {"{", "}", ">", "<"}

Layouts == [depth : Int, broken : BOOLEAN, indent : Nat, unmatched : Nat]

(* f has the layouts after the first tokens.                               *)
LayoutsUpto(l, tokens, f) ==
  f[0] = l /\ \A k \in 1 .. Len(tokens) : f[k] = Token(f[k - 1], tokens[k])

LEMMA TokenType == ASSUME NEW l \in Layouts, NEW t \in Tokens PROVE Token(l, t) \in Layouts
<1>1. l.depth \in Int /\ l.broken \in BOOLEAN /\ l.indent \in Nat /\ l.unmatched \in Nat
  BY DEF Layouts
<1>2. CASE t = "{"
  <2>1. l.depth + 1 \in Int
    BY <1>1
  <2>2. Token(l, t) = [l EXCEPT !.depth = @ + 1]
    BY <1>2 DEF Token
  <2> QED BY <2>1, <2>2 DEF Layouts
<1>3. CASE t = "}"
  <2>1. l.depth - 1 \in Int /\ (l.broken \/ l.depth = 0) \in BOOLEAN
    BY <1>1
  <2>2. Token(l, t) = [l EXCEPT !.depth = @ - 1, !.broken = @ \/ l.depth = 0]
    BY <1>3 DEF Token
  <2> QED BY <1>1, <2>1, <2>2 DEF Layouts
<1>4. CASE t = ">"
  BY <1>1, <1>4 DEF Token, Layouts
<1>5. CASE t = "<"
  <2>1. CASE l.indent = 0
    BY <1>1, <1>5, <2>1 DEF Token, Layouts
  <2>2. CASE l.indent # 0
    <3>1. l.indent - 1 \in Nat
      BY <1>1, <2>2
    <3>2. Token(l, t) = [l EXCEPT !.indent = @ - 1]
      BY <1>5, <2>2 DEF Token
    <3> QED BY <1>1, <3>1, <3>2 DEF Layouts
  <2> QED BY <2>1, <2>2
<1> QED BY <1>2, <1>3, <1>4, <1>5 DEF Tokens

LEMMA LayoutsDefined ==
  ASSUME NEW l \in Layouts, NEW tokens \in Seq(Tokens)
  PROVE  \E f \in [0 .. Len(tokens) -> Layouts] :
           LayoutsUpto(l, tokens, f) /\ After(l, tokens) = f[Len(tokens)]
<1> DEFINE n == Len(tokens)
           lo == 0
           F == [k \in lo + 1 .. n |-> [x \in Layouts |-> Token(x, tokens[k])]]
           Upto(f, k) == IF k = 0 THEN l ELSE Token(f[k - 1], tokens[k])
<1>1. n \in Nat /\ lo \in Nat /\ lo <= n
  OBVIOUS
<1>2. ASSUME NEW k \in 1 .. n, NEW x \in Layouts
      PROVE  Token(x, tokens[k]) \in Layouts
  <2>1. tokens[k] \in Tokens
    OBVIOUS
  <2> QED BY <2>1, TokenType
<1>3. F \in [lo + 1 .. n -> [Layouts -> Layouts]]
  BY <1>2
<1> HIDE DEF n, F, lo
<1>4. PICK g \in [lo .. n -> Layouts] : Iterates(g, l, lo, n, F)
  BY <1>1, <1>3, Iteration
<1>5. ASSUME NEW k \in 1 .. n
      PROVE  g[k] = Token(g[k - 1], tokens[k])
  <2>1. k - 1 \in lo .. n /\ k \in lo + 1 .. n
    BY <1>1 DEF lo
  <2> QED BY <1>4, <2>1 DEF F, Iterates
<1>6. ASSUME NEW k \in 0 .. n
      PROVE  g[k] = Upto(g, k)
  <2>1. CASE k = 0
    BY <2>1, <1>4 DEF lo, Iterates
  <2>2. CASE k # 0
    <3>1. k \in 1 .. n
      BY <2>2, <1>1
    <3> QED BY <2>2, <3>1, <1>5
  <2> QED BY <2>1, <2>2
<1>7. g = [k \in 0 .. Len(tokens) |-> Upto(g, k)]
  BY <1>4, <1>6 DEF n, lo
<1> DEFINE f[k \in 0 .. Len(tokens)] == Upto(f, k)
<1>8. f = [k \in 0 .. Len(tokens) |-> Upto(f, k)]
  BY <1>7
<1>9. After(l, tokens) = f[Len(tokens)]
  BY DEF After
<1> HIDE DEF f
<1>10. f[0] = l /\ \A k \in 1 .. n : f[k] = Token(f[k - 1], tokens[k])
  <2>1. \A k \in 0 .. n : f[k] = Upto(f, k)
    BY <1>8 DEF n
  <2>2. 0 \in 0 .. n /\ \A k \in 1 .. n : k \in 0 .. n /\ k # 0
    BY <1>1
  <2> QED BY <2>1, <2>2
<1>11. \A k \in 0 .. n : f[k] \in Layouts
  <2> DEFINE T == {k \in 0 .. n : f[k] \in Layouts}
  <2>1. \A k \in 0 + 1 .. n : k - 1 \in T => k \in T
    BY <1>1, <1>2, <1>10
  <2>2. 0 \in T
    BY <1>1, <1>10
  <2>3. \A k \in 0 .. n : k \in T
    <3> HIDE DEF T
    <3> QED BY <1>1, <2>1, <2>2, Induction
  <2> QED BY <2>3
<1>12. f \in [0 .. n -> Layouts]
  BY <1>8, <1>11 DEF n
<1> QED BY <1>9, <1>10, <1>12 DEF n, LayoutsUpto

(* Printing one list of tokens behind another.                             *)
LEMMA AfterJoined ==
  ASSUME NEW l \in Layouts, NEW t \in Seq(Tokens), NEW u \in Seq(Tokens)
  PROVE  After(l, t) \in Layouts /\ After(l, t \o u) = After(After(l, t), u)
<1> DEFINE m == After(l, t)
           v == t \o u
           n == Len(t)
<1>1. PICK f \in [0 .. Len(t) -> Layouts] : LayoutsUpto(l, t, f) /\ m = f[Len(t)]
  BY LayoutsDefined
<1>2. m \in Layouts /\ n \in Nat
  BY <1>1
<1> HIDE DEF m
<1>3. PICK g \in [0 .. Len(u) -> Layouts] : LayoutsUpto(m, u, g) /\ After(m, u) = g[Len(u)]
  BY <1>2, LayoutsDefined
<1>4. /\ v \in Seq(Tokens) /\ Len(v) = n + Len(u) /\ Len(u) \in Nat
      /\ \A k \in 1 .. n : v[k] = t[k]
      /\ \A k \in 1 .. Len(u) : v[n + k] = u[k]
  OBVIOUS
<1> HIDE DEF v
<1>5. PICK h \in [0 .. Len(v) -> Layouts] : LayoutsUpto(l, v, h) /\ After(l, v) = h[Len(v)]
  BY <1>4, LayoutsDefined
<1>6. \A k \in 0 .. n : h[k] = f[k]
  <2> DEFINE T == {k \in 0 .. n : h[k] = f[k]}
  <2>1. 0 \in T
    BY <1>1, <1>2, <1>5 DEF LayoutsUpto
  <2>2. ASSUME NEW k \in 0 + 1 .. n, k - 1 \in T
        PROVE  k \in T
    <3>1. k \in 1 .. Len(t) /\ k \in 1 .. Len(v) /\ v[k] = t[k] /\ h[k - 1] = f[k - 1]
      BY <1>2, <1>4, <2>2
    <3> QED BY <3>1, <1>1, <1>5 DEF LayoutsUpto
  <2> HIDE DEF T
  <2>3. \A k \in 0 .. n : k \in T
    BY <1>2, <2>1, <2>2, Induction
  <2> QED BY <2>3 DEF T
<1>7. \A k \in 0 .. Len(u) : h[n + k] = g[k]
  <2> DEFINE T == {k \in 0 .. Len(u) : h[n + k] = g[k]}
  <2>1. 0 \in T
    BY <1>1, <1>2, <1>3, <1>4, <1>6 DEF LayoutsUpto
  <2>2. ASSUME NEW k \in 0 + 1 .. Len(u), k - 1 \in T
        PROVE  k \in T
    <3>1. /\ k \in 1 .. Len(u) /\ n + k \in 1 .. Len(v) /\ v[n + k] = u[k]
          /\ h[n + (k - 1)] = g[k - 1] /\ n + (k - 1) = (n + k) - 1
      BY <1>2, <1>4, <2>2
    <3>2. h[n + k] = Token(h[(n + k) - 1], v[n + k]) /\ g[k] = Token(g[k - 1], u[k])
      BY <3>1, <1>3, <1>5 DEF LayoutsUpto
    <3> QED BY <3>1, <3>2
  <2> HIDE DEF T
  <2>3. \A k \in 0 .. Len(u) : k \in T
    BY <1>4, <2>1, <2>2, Induction
  <2> QED BY <2>3 DEF T
<1>8. Len(u) \in 0 .. Len(u)
  BY <1>4
<1>9. h[Len(v)] = g[Len(u)]
  BY <1>4, <1>7, <1>8
<1>10. After(l, v) = After(m, u)
  BY <1>3, <1>5, <1>9, Zenon
<1> QED BY <1>2, <1>10, Zenon DEF m, v

-----------------------------------------------------------------------------
(* A layout without a closing brace too many.                              *)
Sound(depth, indent, unmatched) ==
  [depth |-> depth, broken |-> FALSE, indent |-> indent, unmatched |-> unmatched]

LEMMA SoundType ==
  ASSUME NEW d \in Nat, NEW n \in Nat, NEW x \in Nat
  PROVE  Sound(d, n, x) \in Layouts
BY DEF Sound, Layouts

LEMMA SoundOpened ==
  ASSUME NEW d \in Nat, NEW n \in Nat, NEW x \in Nat
  PROVE  Token(Sound(d, n, x), "{") = Sound(d + 1, n, x)
BY DEF Sound, Token

LEMMA SoundClosed ==
  ASSUME NEW d \in Nat, NEW n \in Nat, NEW x \in Nat
  PROVE  Token(Sound(d + 1, n, x), "}") = Sound(d, n, x)
<1> DEFINE l == Sound(d + 1, n, x)
           b == l.broken \/ l.depth = 0
<1>1. l.depth = d + 1 /\ l.broken = FALSE
      /\ l = [depth |-> d + 1, broken |-> FALSE, indent |-> n, unmatched |-> x]
  BY DEF Sound
<1>2. Token(l, "}") = [l EXCEPT !.depth = l.depth - 1, !.broken = b]
  BY DEF Token
<1>3. ~b /\ l.depth - 1 = d
  BY <1>1
<1>4. b = FALSE
  BY <1>3
<1> HIDE DEF b
<1>5. Token(l, "}") = [l EXCEPT !.depth = d, !.broken = FALSE]
  <2> HIDE DEF l
  <2> QED BY <1>2, <1>3, <1>4
<1> QED BY <1>1, <1>5 DEF Sound

LEMMA SoundIndented ==
  ASSUME NEW d \in Nat, NEW n \in Nat, NEW x \in Nat
  PROVE  Token(Sound(d, n, x), ">") = Sound(d, n + 1, x)
BY DEF Sound, Token

LEMMA SoundOutdented ==
  ASSUME NEW d \in Nat, NEW n \in Nat, NEW x \in Nat
  PROVE  Token(Sound(d, n + 1, x), "<") = Sound(d, n, x)
<1> DEFINE l == Sound(d, n + 1, x)
<1>1. l.indent = n + 1
      /\ l = [depth |-> d, broken |-> FALSE, indent |-> n + 1, unmatched |-> x]
  BY DEF Sound
<1>2. l.indent # 0 /\ l.indent - 1 = n
  BY <1>1
<1>3. Token(l, "<") = [l EXCEPT !.indent = l.indent - 1]
  BY <1>2 DEF Token
<1>4. Token(l, "<") = [l EXCEPT !.indent = n]
  <2> HIDE DEF l
  <2> QED BY <1>2, <1>3
<1> QED BY <1>1, <1>4 DEF Sound

LEMMA SoundUnmatched ==
  ASSUME NEW d \in Nat, NEW x \in Nat
  PROVE  Token(Sound(d, 0, x), "<") = Sound(d, 0, x + 1)
BY DEF Sound, Token

(* Lists of none, one and two tokens.                                     *)
LEMMA AfterUpTo2 ==
  ASSUME NEW l \in Layouts, NEW w \in Seq(Tokens), Len(w) \in 0 .. 2
  PROVE  \E f \in [0 .. Len(w) -> Layouts] :
           /\ After(l, w) = f[Len(w)] /\ f[0] = l
           /\ Len(w) >= 1 => f[1] = Token(f[0], w[1])
           /\ Len(w) >= 2 => f[2] = Token(f[1], w[2])
<1>1. PICK f \in [0 .. Len(w) -> Layouts] : LayoutsUpto(l, w, f) /\ After(l, w) = f[Len(w)]
  BY LayoutsDefined
<1>2. ASSUME NEW k \in 1 .. 2, NEW j \in 0 .. 1, j = k - 1, Len(w) >= k
      PROVE  f[k] = Token(f[j], w[k])
  BY <1>1, <1>2 DEF LayoutsUpto
<1>3. f[0] = l
  BY <1>1 DEF LayoutsUpto
<1>4. 1 \in 1 .. 2 /\ 2 \in 1 .. 2 /\ 0 \in 0 .. 1 /\ 1 \in 0 .. 1 /\ 0 = 1 - 1 /\ 1 = 2 - 1
  OBVIOUS
<1>5. /\ Len(w) >= 1 => f[1] = Token(f[0], w[1])
      /\ Len(w) >= 2 => f[2] = Token(f[1], w[2])
  BY <1>2, <1>4
<1> QED BY <1>1, <1>3, <1>5

LEMMA AfterNone == ASSUME NEW l \in Layouts PROVE After(l, <<>>) = l
<1> DEFINE w == <<>>
<1>1. w \in Seq(Tokens) /\ Len(w) = 0
  OBVIOUS
<1> HIDE DEF w
<1>2. PICK f \in [0 .. Len(w) -> Layouts] : LayoutsUpto(l, w, f) /\ After(l, w) = f[Len(w)]
  BY <1>1, LayoutsDefined
<1>3. After(l, w) = l
  BY <1>1, <1>2 DEF LayoutsUpto
<1> QED BY <1>3 DEF w

LEMMA AfterOne == ASSUME NEW l \in Layouts, NEW t \in Tokens PROVE After(l, <<t>>) = Token(l, t)
<1> DEFINE w == <<t>>
<1>1. w \in Seq(Tokens) /\ Len(w) = 1 /\ w[1] = t
  OBVIOUS
<1> HIDE DEF w
<1>2. After(l, w) = Token(l, t)
  BY <1>1, AfterUpTo2
<1> QED BY <1>2 DEF w

LEMMA AfterTwo ==
  ASSUME NEW l \in Layouts, NEW t \in Tokens, NEW u \in Tokens
  PROVE  After(l, <<t, u>>) = Token(Token(l, t), u)
<1> DEFINE w == <<t, u>>
<1>1. w \in Seq(Tokens) /\ Len(w) = 2 /\ w[1] = t /\ w[2] = u
  OBVIOUS
<1> HIDE DEF w
<1>2. PICK f \in [0 .. Len(w) -> Layouts] :
        /\ After(l, w) = f[Len(w)] /\ f[0] = l
        /\ Len(w) >= 1 => f[1] = Token(f[0], w[1])
        /\ Len(w) >= 2 => f[2] = Token(f[1], w[2])
  <2>1. Len(w) \in 0 .. 2
    BY <1>1
  <2> QED BY <1>1, <2>1, AfterUpTo2, Zenon
<1>3. f[0] = l /\ f[1] = Token(f[0], t) /\ f[2] = Token(f[1], u) /\ After(l, w) = f[2]
  BY <1>1, <1>2
<1>4. After(l, w) = Token(Token(l, t), u)
  BY <1>3, Zenon
<1> QED BY <1>4 DEF w

(* Tokens that lead from one depth and indentation to another.             *)
Leads(tokens, d, n, e, m) ==
  /\ tokens \in Seq(Tokens) /\ {d, n, e, m} \subseteq Nat
  /\ After(Sound(d, n, 0), tokens) = Sound(e, m, 0)

LEMMA Joins ==
  ASSUME NEW t, NEW u, NEW d, NEW n, NEW e, NEW m, NEW f, NEW k,
         Leads(t, d, n, e, m), Leads(u, e, m, f, k)
  PROVE  Leads(t \o u, d, n, f, k)
<1>1. Sound(d, n, 0) \in Layouts
  BY SoundType DEF Leads
<1>2. After(Sound(d, n, 0), t \o u) = After(After(Sound(d, n, 0), t), u)
  BY <1>1, AfterJoined DEF Leads
<1>3. t \o u \in Seq(Tokens)
  BY DEF Leads
<1> QED BY <1>2, <1>3 DEF Leads

LEMMA Pieces ==
  ASSUME NEW d \in Nat, NEW n \in Nat
  PROVE  /\ Leads(<<>>, d, n, d, n)
         /\ Leads(<<">">>, d, n, d, n + 1)
         /\ Leads(<<"<">>, d, n + 1, d, n)
         /\ Leads(<<"}">>, d + 1, n, d, n)
         /\ Leads(Begin, d, n, d + 1, n + 1)
         /\ Leads(End, d + 1, n + 1, d, n)
         /\ Leads(Block, d, n, d, n)
         /\ Leads(<<">", ">">>, d, n, d, n + 2)
         /\ Leads(<<">", "<">>, d, n, d, n)
         /\ Leads(<<">", "{">>, d, n, d + 1, n + 1)
         /\ Leads(<<"{", "}">>, d, n, d, n)
<1>t. \A t, u \in Tokens :
        <<>> \in Seq(Tokens) /\ <<t>> \in Seq(Tokens) /\ <<t, u>> \in Seq(Tokens)
  OBVIOUS
<1>4. "{" \in Tokens /\ "}" \in Tokens /\ ">" \in Tokens /\ "<" \in Tokens
  BY DEF Tokens
<1>s. \A a, b \in Nat :
        /\ Sound(a, b, 0) \in Layouts
        /\ Token(Sound(a, b, 0), "{") = Sound(a + 1, b, 0)
        /\ Token(Sound(a + 1, b, 0), "}") = Sound(a, b, 0)
        /\ Token(Sound(a, b, 0), ">") = Sound(a, b + 1, 0)
        /\ Token(Sound(a, b + 1, 0), "<") = Sound(a, b, 0)
  <2> TAKE a, b \in Nat
  <2>0. 0 \in Nat
    OBVIOUS
  <2>1. Sound(a, b, 0) \in Layouts
    BY <2>0, SoundType, Zenon
  <2>2. Token(Sound(a, b, 0), "{") = Sound(a + 1, b, 0)
    BY <2>0, SoundOpened, Zenon
  <2>3. Token(Sound(a + 1, b, 0), "}") = Sound(a, b, 0)
    BY <2>0, SoundClosed, Zenon
  <2>4. Token(Sound(a, b, 0), ">") = Sound(a, b + 1, 0)
    BY <2>0, SoundIndented, Zenon
  <2>5. Token(Sound(a, b + 1, 0), "<") = Sound(a, b, 0)
    BY <2>0, SoundOutdented, Zenon
  <2> QED BY <2>1, <2>2, <2>3, <2>4, <2>5
<1>n. d + 1 \in Nat /\ n + 1 \in Nat /\ n + 2 \in Nat /\ n + 2 = (n + 1) + 1
  OBVIOUS
<1>l. Sound(d, n, 0) \in Layouts /\ Sound(d + 1, n + 1, 0) \in Layouts
  BY <1>n, <1>s, Zenon
<1>1. Leads(<<>>, d, n, d, n)
  <2>1. After(Sound(d, n, 0), <<>>) = Sound(d, n, 0)
    BY <1>4, <1>s, <1>n, AfterNone, AfterOne, Zenon
  <2>2. <<>> \in Seq(Tokens)
    BY <1>t, <1>4, Zenon
  <2> QED BY <1>n, <2>1, <2>2 DEF Leads
<1>2. Leads(<<">">>, d, n, d, n + 1)
  <2>1. After(Sound(d, n, 0), <<">">>) = Token(Sound(d, n, 0), ">")
    BY <1>4, <1>s, <1>n, AfterNone, AfterOne, Zenon
  <2>2. <<">">> \in Seq(Tokens)
    BY <1>t, <1>4, Zenon
  <2>3. Token(Sound(d, n, 0), ">") = Sound(d, n + 1, 0)
    BY <1>s, <1>n, Zenon
  <2>q. After(Sound(d, n, 0), <<">">>) = Sound(d, n + 1, 0)
    BY <2>1, <2>3, Zenon
  <2> QED BY <1>n, <2>2, <2>q DEF Leads
<1>3. Leads(<<"<">>, d, n + 1, d, n)
  <2>1. After(Sound(d, n + 1, 0), <<"<">>) = Token(Sound(d, n + 1, 0), "<")
    BY <1>4, <1>s, <1>n, AfterNone, AfterOne, Zenon
  <2>2. <<"<">> \in Seq(Tokens)
    BY <1>t, <1>4, Zenon
  <2>3. Token(Sound(d, n + 1, 0), "<") = Sound(d, n, 0)
    BY <1>s, <1>n, Zenon
  <2>q. After(Sound(d, n + 1, 0), <<"<">>) = Sound(d, n, 0)
    BY <2>1, <2>3, Zenon
  <2> QED BY <1>n, <2>2, <2>q DEF Leads
<1>5. Leads(<<"}">>, d + 1, n, d, n)
  <2>1. After(Sound(d + 1, n, 0), <<"}">>) = Token(Sound(d + 1, n, 0), "}")
    BY <1>4, <1>s, <1>n, AfterNone, AfterOne, Zenon
  <2>2. <<"}">> \in Seq(Tokens)
    BY <1>t, <1>4, Zenon
  <2>3. Token(Sound(d + 1, n, 0), "}") = Sound(d, n, 0)
    BY <1>s, <1>n, Zenon
  <2>q. After(Sound(d + 1, n, 0), <<"}">>) = Sound(d, n, 0)
    BY <2>1, <2>3, Zenon
  <2> QED BY <1>n, <2>2, <2>q DEF Leads
<1>6. Leads(Begin, d, n, d + 1, n + 1)
  <2>1. After(Sound(d, n, 0), <<"{", ">">>) = Token(Token(Sound(d, n, 0), "{"), ">")
    BY <1>4, <1>l, AfterTwo, Zenon
  <2>2. <<"{", ">">> \in Seq(Tokens)
    BY <1>t, <1>4, Zenon
  <2>3. Token(Sound(d, n, 0), "{") = Sound(d + 1, n, 0)
    BY <1>s, <1>n, Zenon
  <2>4. Token(Sound(d + 1, n, 0), ">") = Sound(d + 1, n + 1, 0)
    BY <1>s, <1>n, Zenon
  <2>q. After(Sound(d, n, 0), <<"{", ">">>) = Sound(d + 1, n + 1, 0)
    BY <2>1, <2>3, <2>4, Zenon
  <2> QED BY <1>n, <2>2, <2>q DEF Leads, Begin
<1>7. Leads(End, d + 1, n + 1, d, n)
  <2>1. After(Sound(d + 1, n + 1, 0), <<"<", "}">>) = Token(Token(Sound(d + 1, n + 1, 0), "<"), "}")
    BY <1>4, <1>l, AfterTwo, Zenon
  <2>2. <<"<", "}">> \in Seq(Tokens)
    BY <1>t, <1>4, Zenon
  <2>3. Token(Sound(d + 1, n + 1, 0), "<") = Sound(d + 1, n, 0)
    BY <1>s, <1>n, Zenon
  <2>4. Token(Sound(d + 1, n, 0), "}") = Sound(d, n, 0)
    BY <1>s, <1>n, Zenon
  <2>q. After(Sound(d + 1, n + 1, 0), <<"<", "}">>) = Sound(d, n, 0)
    BY <2>1, <2>3, <2>4, Zenon
  <2> QED BY <1>n, <2>2, <2>q DEF Leads, End
<1>8. Leads(Block, d, n, d, n)
  BY <1>6, <1>7, Joins DEF Block
<1>9. Leads(<<">", ">">>, d, n, d, n + 2)
  <2>1. After(Sound(d, n, 0), <<">", ">">>) = Token(Token(Sound(d, n, 0), ">"), ">")
    BY <1>4, <1>l, AfterTwo, Zenon
  <2>2. <<">", ">">> \in Seq(Tokens)
    BY <1>t, <1>4, Zenon
  <2>3. Token(Sound(d, n, 0), ">") = Sound(d, n + 1, 0)
    BY <1>s, <1>n, Zenon
  <2>4. Token(Sound(d, n + 1, 0), ">") = Sound(d, (n + 1) + 1, 0)
    BY <1>s, <1>n, Zenon
  <2>q. After(Sound(d, n, 0), <<">", ">">>) = Sound(d, (n + 1) + 1, 0)
    BY <2>1, <2>3, <2>4, Zenon
  <2> QED BY <1>n, <2>2, <2>q DEF Leads
<1>10. Leads(<<">", "<">>, d, n, d, n)
  <2>1. After(Sound(d, n, 0), <<">", "<">>) = Token(Token(Sound(d, n, 0), ">"), "<")
    BY <1>4, <1>l, AfterTwo, Zenon
  <2>2. <<">", "<">> \in Seq(Tokens)
    BY <1>t, <1>4, Zenon
  <2>3. Token(Sound(d, n, 0), ">") = Sound(d, n + 1, 0)
    BY <1>s, <1>n, Zenon
  <2>4. Token(Sound(d, n + 1, 0), "<") = Sound(d, n, 0)
    BY <1>s, <1>n, Zenon
  <2>q. After(Sound(d, n, 0), <<">", "<">>) = Sound(d, n, 0)
    BY <2>1, <2>3, <2>4, Zenon
  <2> QED BY <1>n, <2>2, <2>q DEF Leads
<1>11. Leads(<<">", "{">>, d, n, d + 1, n + 1)
  <2>1. After(Sound(d, n, 0), <<">", "{">>) = Token(Token(Sound(d, n, 0), ">"), "{")
    BY <1>4, <1>l, AfterTwo, Zenon
  <2>2. <<">", "{">> \in Seq(Tokens)
    BY <1>t, <1>4, Zenon
  <2>3. Token(Sound(d, n, 0), ">") = Sound(d, n + 1, 0)
    BY <1>s, <1>n, Zenon
  <2>4. Token(Sound(d, n + 1, 0), "{") = Sound(d + 1, n + 1, 0)
    BY <1>s, <1>n, Zenon
  <2>q. After(Sound(d, n, 0), <<">", "{">>) = Sound(d + 1, n + 1, 0)
    BY <2>1, <2>3, <2>4, Zenon
  <2> QED BY <1>n, <2>2, <2>q DEF Leads
<1>12. Leads(<<"{", "}">>, d, n, d, n)
  <2>1. After(Sound(d, n, 0), <<"{", "}">>) = Token(Token(Sound(d, n, 0), "{"), "}")
    BY <1>4, <1>l, AfterTwo, Zenon
  <2>2. <<"{", "}">> \in Seq(Tokens)
    BY <1>t, <1>4, Zenon
  <2>3. Token(Sound(d, n, 0), "{") = Sound(d + 1, n, 0)
    BY <1>s, <1>n, Zenon
  <2>4. Token(Sound(d + 1, n, 0), "}") = Sound(d, n, 0)
    BY <1>s, <1>n, Zenon
  <2>q. After(Sound(d, n, 0), <<"{", "}">>) = Sound(d, n, 0)
    BY <2>1, <2>3, <2>4, Zenon
  <2> QED BY <1>n, <2>2, <2>q DEF Leads
<1> QED BY <1>1, <1>2, <1>3, <1>5, <1>6, <1>7, <1>8, <1>9, <1>10, <1>11, <1>12

(* The same pieces, between depths and margins that are given.             *)
LEMMA NoneAt ==
  ASSUME NEW d \in Nat, NEW n \in Nat
  PROVE  Leads(<<>>, d, n, d, n)
BY Pieces

LEMMA BlockAt ==
  ASSUME NEW d \in Nat, NEW n \in Nat
  PROVE  Leads(Block, d, n, d, n)
BY Pieces

LEMMA InOutAt ==
  ASSUME NEW d \in Nat, NEW n \in Nat
  PROVE  Leads(<<">", "<">>, d, n, d, n)
BY Pieces

LEMMA BeginAt ==
  ASSUME NEW d \in Nat, NEW n \in Nat, NEW e \in Nat, NEW m \in Nat, e = d + 1, m = n + 1
  PROVE  Leads(Begin, d, n, e, m)
BY Pieces

LEMMA EndAt ==
  ASSUME NEW d \in Nat, NEW n \in Nat, NEW e \in Nat, NEW m \in Nat, e = d + 1, m = n + 1
  PROVE  Leads(End, e, m, d, n)
BY Pieces

LEMMA InAt ==
  ASSUME NEW d \in Nat, NEW n \in Nat, NEW m \in Nat, m = n + 1
  PROVE  Leads(<<">">>, d, n, d, m)
BY Pieces

LEMMA OutAt ==
  ASSUME NEW d \in Nat, NEW n \in Nat, NEW m \in Nat, m = n + 1
  PROVE  Leads(<<"<">>, d, m, d, n)
BY Pieces

LEMMA InTwiceAt ==
  ASSUME NEW d \in Nat, NEW n \in Nat, NEW m \in Nat, m = n + 2
  PROVE  Leads(<<">", ">">>, d, n, d, m)
BY Pieces

LEMMA CloseAt ==
  ASSUME NEW d \in Nat, NEW n \in Nat, NEW e \in Nat, e = d + 1
  PROVE  Leads(<<"}">>, e, n, d, n)
BY Pieces

LEMMA InOpenAt ==
  ASSUME NEW d \in Nat, NEW n \in Nat, NEW e \in Nat, NEW m \in Nat, e = d + 1, m = n + 1
  PROVE  Leads(<<">", "{">>, d, n, e, m)
BY Pieces

LEMMA BracesAt ==
  ASSUME NEW d \in Nat, NEW n \in Nat
  PROVE  Leads(<<"{", "}">>, d, n, d, n)
BY Pieces

(* The lists that the sections print.                                      *)
LEMMA InterfaceOpens ==
  Leads(Begin \o Begin, 0, 0, 2, 2)
<1>1. Leads(Begin, 0, 0, 1, 1)
  BY BeginAt
<1>2. Leads(Begin, 1, 1, 2, 2)
  BY BeginAt
<1> QED BY <1>1, <1>2, Joins

LEMMA ClientOpens ==
  Leads(<<">">> \o Begin, 0, 0, 1, 2)
<1>1. Leads(<<">">>, 0, 0, 0, 1)
  BY InAt
<1>2. Leads(Begin, 0, 1, 1, 2)
  BY BeginAt
<1> QED BY <1>1, <1>2, Joins

LEMMA InitBlockOpens ==
  ASSUME NEW n \in Nat
  PROVE  Leads(Begin \o Begin \o Begin, 1, n, 4, n + 3)
<1>1. Leads(Begin, 1, n, 2, n + 1)
  BY BeginAt
<1>2. Leads(Begin, 2, n + 1, 3, n + 2)
  BY BeginAt
<1>3. Leads(Begin, 3, n + 2, 4, n + 3)
  BY BeginAt
<1> QED BY <1>1, <1>2, <1>3, Joins

LEMMA BranchesOpen ==
  ASSUME NEW n \in Nat
  PROVE  Leads(End \o Begin, 4, n + 1, 4, n + 1)
<1>1. Leads(End, 4, n + 1, 3, n)
  BY EndAt
<1>2. Leads(Begin, 3, n, 4, n + 1)
  BY BeginAt
<1> QED BY <1>1, <1>2, Joins

LEMMA InitBlockEnds ==
  ASSUME NEW n \in Nat
  PROVE  Leads(InitBlockEnd, 4, n + 3, 1, n)
<1>1. Leads(End, 4, n + 3, 3, n + 2)
  BY EndAt
<1>2. Leads(End, 3, n + 2, 2, n + 1)
  BY EndAt
<1>3. Leads(End, 2, n + 1, 1, n)
  BY EndAt
<1> QED BY <1>1, <1>2, <1>3, Joins DEF InitBlockEnd

LEMMA MethodOpens ==
  ASSUME NEW n \in Nat
  PROVE  Leads(Block \o <<">", "{">>, 1, n, 2, n + 1)
<1>1. Leads(Block, 1, n, 1, n)
  BY BlockAt
<1>2. Leads(<<">", "{">>, 1, n, 2, n + 1)
  <2>1. 1 \in Nat /\ 2 \in Nat /\ 2 = 1 + 1 /\ n + 1 \in Nat
    OBVIOUS
  <2> QED BY <2>1, InOpenAt, Zenon
<1> QED BY <1>1, <1>2, Joins

LEMMA ChannelEnds ==
  ASSUME NEW n \in Nat
  PROVE  Leads(ChannelBody, 2, n + 1, 1, n + 1)
<1>1. Leads(<<">", ">">>, 2, n + 1, 2, n + 3)
  BY InTwiceAt
<1>2. Leads(Begin, 2, n + 3, 3, n + 4)
  BY BeginAt
<1>3. Leads(Begin, 3, n + 4, 4, n + 5)
  BY BeginAt
<1>4. Leads(Block, 4, n + 5, 4, n + 5)
  BY BlockAt
<1>5. Leads(End, 4, n + 5, 3, n + 4)
  BY EndAt
<1>6. Leads(End, 3, n + 4, 2, n + 3)
  BY EndAt
<1>7. Leads(<<"<">>, 2, n + 3, 2, n + 2)
  BY OutAt
<1>8. Leads(End, 2, n + 2, 1, n + 1)
  BY EndAt
<1> QED BY <1>1, <1>2, <1>3, <1>4, <1>5, <1>6, <1>7, <1>8, Joins DEF ChannelBody

LEMMA DeferredEnds ==
  ASSUME NEW n \in Nat
  PROVE  Leads(DeferredBody, 2, n + 1, 1, n)
<1>1. Leads(<<">">>, 2, n + 1, 2, n + 2)
  BY InAt
<1>2. Leads(Block, 2, n + 2, 2, n + 2)
  BY BlockAt
<1>3. Leads(<<"<">>, 2, n + 2, 2, n + 1)
  BY OutAt
<1>4. Leads(End, 2, n + 1, 1, n)
  BY EndAt
<1> QED BY <1>1, <1>2, <1>3, <1>4, Joins DEF DeferredBody

LEMMA ClientEnds ==
  ASSUME NEW n \in Nat
  PROVE  Leads(Begin \o Block \o Block \o End \o <<">">> \o <<"{", "}">> \o End, 1, n, 0, n)
<1>1. Leads(Begin, 1, n, 2, n + 1)
  BY BeginAt
<1>2. Leads(Block, 2, n + 1, 2, n + 1)
  BY BlockAt
<1>3. Leads(End, 2, n + 1, 1, n)
  BY EndAt
<1>4. Leads(<<">">>, 1, n, 1, n + 1)
  BY InAt
<1>5. Leads(<<"{", "}">>, 1, n + 1, 1, n + 1)
  <2>1. 1 \in Nat /\ n + 1 \in Nat
    OBVIOUS
  <2> QED BY <2>1, BracesAt, Zenon
<1>6. Leads(End, 1, n + 1, 0, n)
  BY EndAt
<1> QED BY <1>1, <1>2, <1>3, <1>4, <1>5, <1>6, Joins

LEMMA OnewayBranch ==
  ASSUME NEW n \in Nat
  PROVE  Leads(<<">">> \o Block \o <<"<">>, 4, n, 4, n)
<1>1. Leads(<<">">>, 4, n, 4, n + 1)
  BY InAt
<1>2. Leads(Block, 4, n + 1, 4, n + 1)
  BY BlockAt
<1>3. Leads(<<"<">>, 4, n + 1, 4, n)
  BY OutAt
<1> QED BY <1>1, <1>2, <1>3, Joins

LEMMA ChannelBranch ==
  ASSUME NEW n \in Nat
  PROVE  Leads(Begin \o <<">", "<">> \o End, 4, n, 4, n)
<1>1. Leads(Begin, 4, n, 5, n + 1)
  BY BeginAt
<1>2. Leads(<<">", "<">>, 5, n + 1, 5, n + 1)
  BY InOutAt
<1>3. Leads(End, 5, n + 1, 4, n)
  BY EndAt
<1> QED BY <1>1, <1>2, <1>3, Joins

(* What Companion prints before its last brace.                            *)
CompanionBody ==
  Begin \o Begin \o Block \o Block \o Block \o End \o <<"<">>
    \o Begin \o Begin \o Block \o Block \o End \o End \o End

LEMMA CompanionLeads == ASSUME NEW n \in Nat PROVE Leads(CompanionBody, 1, n + 1, 1, n)
<1> DEFINE t == Begin \o Begin \o Block \o Block \o Block \o End \o <<"<">>
<1>1. Leads(Begin, 1, n + 1, 2, n + 2)
  BY BeginAt
<1>2. Leads(Begin, 2, n + 2, 3, n + 3)
  BY BeginAt
<1>3. Leads(Block, 3, n + 3, 3, n + 3)
  BY BlockAt
<1>4. Leads(End, 3, n + 3, 2, n + 2)
  BY EndAt
<1>5. Leads(<<"<">>, 2, n + 2, 2, n + 1)
  BY OutAt
<1>6. Leads(t, 1, n + 1, 2, n + 1)
  <2>1. Leads(Begin \o Begin \o Block \o Block \o Block \o End, 1, n + 1, 2, n + 2)
    BY <1>1, <1>2, <1>3, <1>4, Joins
  <2> QED BY <1>5, <2>1, Joins, Zenon
<1>7. CompanionBody = t \o Begin \o Begin \o Block \o Block \o End \o End \o End
  BY DEF CompanionBody
<1> HIDE DEF t
<1>8. Leads(Begin, 2, n + 1, 3, n + 2)
  BY BeginAt
<1>9. Leads(Begin, 3, n + 2, 4, n + 3)
  BY BeginAt
<1>10. Leads(Block, 4, n + 3, 4, n + 3)
  BY BlockAt
<1>11. Leads(End, 4, n + 3, 3, n + 2)
  BY EndAt
<1>12. Leads(End, 3, n + 2, 2, n + 1)
  BY EndAt
<1>13. Leads(End, 2, n + 1, 1, n)
  BY EndAt
<1>14. Leads(t \o Begin \o Begin \o Block \o Block \o End \o End \o End, 1, n + 1, 1, n)
  BY <1>6, <1>8, <1>9, <1>10, <1>11, <1>12, <1>13, Joins
<1> QED BY <1>7, <1>14

LEMMA CompanionEnds ==
  ASSUME NEW n \in Nat
  PROVE  \/ \E m \in Nat : After(Sound(1, n + 1, 0), CompanionBody \o End) = Sound(0, m, 0)
         \/ n = 0 /\ After(Sound(1, n + 1, 0), CompanionBody \o End) = Sound(0, 0, 1)
<1>1. CASE n # 0
  <2>1. PICK m \in Nat : n = m + 1
    <3>1. n - 1 \in Nat /\ n = (n - 1) + 1
      BY <1>1
    <3> QED BY <3>1
  <2>2. Leads(End, 1, n, 0, m)
    BY <2>1, EndAt
  <2>3. Leads(CompanionBody \o End, 1, n + 1, 0, m)
    BY <2>2, CompanionLeads, Joins
  <2> QED BY <2>3 DEF Leads
<1>2. CASE n = 0
  <2>1. 0 \in Nat /\ 1 \in Nat /\ 0 + 1 = 1
    OBVIOUS
  <2>2. Sound(1, 0, 0) \in Layouts
    BY <2>1, SoundType, Zenon
  <2>3. Token(Sound(1, 0, 0), "<") = Sound(1, 0, 1)
    <3>1. Token(Sound(1, 0, 0), "<") = Sound(1, 0, 0 + 1)
      BY <2>1, SoundUnmatched, Zenon
    <3> QED BY <2>1, <3>1, Zenon
  <2>4. Token(Sound(1, 0, 1), "}") = Sound(0, 0, 1)
    <3>1. Token(Sound(0 + 1, 0, 1), "}") = Sound(0, 0, 1)
      BY <2>1, SoundClosed, Zenon
    <3> QED BY <2>1, <3>1, Zenon
  <2>5. "<" \in Tokens /\ "}" \in Tokens
    BY DEF Tokens
  <2>6. End \in Seq(Tokens)
    BY <2>1, Pieces DEF Leads
  <2>7. After(Sound(1, 0, 0), End) = Sound(0, 0, 1)
    <3>1. After(Sound(1, 0, 0), <<"<", "}">>) = Token(Token(Sound(1, 0, 0), "<"), "}")
      BY <2>2, <2>5, AfterTwo, Zenon
    <3>2. After(Sound(1, 0, 0), <<"<", "}">>) = Sound(0, 0, 1)
      BY <2>3, <2>4, <3>1, Zenon
    <3> QED BY <3>2, Zenon DEF End
  <2>8. /\ CompanionBody \in Seq(Tokens) /\ Sound(1, n + 1, 0) \in Layouts
        /\ After(Sound(1, n + 1, 0), CompanionBody) = Sound(1, 0, 0)
    <3>1. Leads(CompanionBody, 1, n + 1, 1, n)
      BY CompanionLeads
    <3>2. n + 1 \in Nat
      OBVIOUS
    <3>3. Sound(1, n + 1, 0) \in Layouts
      BY <2>1, <3>2, SoundType, Zenon
    <3> QED BY <1>2, <3>1, <3>3 DEF Leads
  <2> QED BY <1>2, <2>6, <2>7, <2>8, AfterJoined
<1> QED BY <1>1, <1>2

-----------------------------------------------------------------------------
(* The Indents that a handler leaves open behind its braces.               *)
Excess(h) == IF handled[h] = <<>> THEN 0 ELSE 1

(* The margin at which a handler begins.                                   *)
Margin(h) == IF h = "requestChannel" THEN 1 + Excess("requestStream") ELSE 1

(* Inside a handler that began at a margin, with or without try and when.  *)
InHandler(h, n) ==
  layout = IF handled[h] = <<>> THEN Sound(2, n + 1, 0) ELSE Sound(4, n + 3, 0)

(* The layout every section of the three files begins with and comes back  *)
(* to after each of its methods.                                           *)
LayoutInv ==
  /\ pc[2] = "header" \/ pc = <<"plugin", "end">> => layout = Sound(0, 0, 0)
  /\ pc = <<"interface", "constants">> => layout = Sound(2, 2, 0)
  /\ pc = <<"interface", "functions">> => layout = Sound(1, 1, 0)
  /\ pc = <<"interface", "end">> => layout = Sound(0, 0, 0)
  /\ pc = <<"client", "tracers">> => layout = Sound(1, 2, 0)
  /\ pc \in {<<"client", "untraced">>, <<"client", "traced">>} => layout = Sound(4, 5, 0)
  /\ pc = <<"client", "methods">> => \E n \in Nat : layout = Sound(1, n + 2, 0)
  /\ pc = <<"client", "end">> => \E n \in Nat : layout = Sound(0, n + 2, 0)
  /\ pc \in {<<"server", "tracers">>, <<"server", "handlers">>} => layout = Sound(1, 1, 0)
  /\ pc \in {<<"server", "untraced">>, <<"server", "traced">>} => layout = Sound(4, 4, 0)
  /\ \A h \in Handlers :
       pc = <<"server", h>> =>
         InHandler(h, Margin(h))
  /\ pc = <<"server", "payloads">> =>
       layout = Sound(1, 1 + Excess("requestStream") + Excess("requestChannel"), 0)
  /\ pc = <<"server", "companion">> =>
       layout = Sound(1, 1 + Excess("requestStream") + 2 * Excess("requestChannel"), 0)
  /\ pc = <<"server", "end">> =>
       \/ \E n \in Nat : layout = Sound(0, n, 0)
       \/ /\ layout = Sound(0, 0, 1)
          /\ handled["requestStream"] = <<>> /\ handled["requestChannel"] = <<>>

LEMMA HandlerOpens ==
  ASSUME NEW h, NEW n \in Nat
  PROVE  /\ handled[h] = <<>> => Leads(HandlerOpen(h), 1, n, 2, n + 1)
         /\ handled[h] # <<>> => Leads(HandlerOpen(h), 1, n, 4, n + 3)
<1>1. Leads(Begin, 1, n, 2, n + 1)
  BY BeginAt
<1>2. ASSUME handled[h] = <<>> PROVE Leads(HandlerOpen(h), 1, n, 2, n + 1)
  <2>1. HandlerOpen(h) = Begin \o <<>>
    BY <1>2 DEF HandlerOpen
  <2>2. Leads(<<>>, 2, n + 1, 2, n + 1)
    BY NoneAt
  <2>3. Leads(Begin \o <<>>, 1, n, 2, n + 1)
    BY <1>1, <2>2, Joins, Zenon
  <2> QED BY <2>1, <2>3, Zenon
<1>3. ASSUME handled[h] # <<>> PROVE Leads(HandlerOpen(h), 1, n, 4, n + 3)
  <2>1. HandlerOpen(h) = Begin \o (Begin \o Begin)
    BY <1>3 DEF HandlerOpen
  <2>2. Leads(Begin, 2, n + 1, 3, n + 2)
    BY BeginAt
  <2>3. Leads(Begin, 3, n + 2, 4, n + 3)
    BY BeginAt
  <2>4. Leads(Begin \o Begin, 2, n + 1, 4, n + 3)
    BY <2>2, <2>3, Joins, Zenon
  <2>5. Leads(Begin \o (Begin \o Begin), 1, n, 4, n + 3)
    BY <1>1, <2>4, Joins, Zenon
  <2> QED BY <2>1, <2>5, Zenon
<1> QED BY <1>2, <1>3

LEMMA HandlerCloses ==
  ASSUME NEW h, NEW w, NEW n \in Nat, NEW m \in Nat
  PROVE  /\ handled[h] = <<>> => Leads(HandlerClose(h, w), 2, n + 1, 1, n)
         /\ handled[h] # <<>> /\ Leads(w, 4, n + 3, 3, m + 2) =>
              Leads(HandlerClose(h, w), 4, n + 3, 1, m)
<1>1. ASSUME handled[h] = <<>> PROVE Leads(HandlerClose(h, w), 2, n + 1, 1, n)
  <2>1. HandlerClose(h, w) = <<>> \o End
    BY <1>1 DEF HandlerClose
  <2>2. Leads(<<>>, 2, n + 1, 2, n + 1)
    BY NoneAt
  <2>3. Leads(End, 2, n + 1, 1, n)
    BY EndAt
  <2>4. Leads(<<>> \o End, 2, n + 1, 1, n)
    BY <2>2, <2>3, Joins, Zenon
  <2> QED BY <2>1, <2>4, Zenon
<1>2. ASSUME handled[h] # <<>>, Leads(w, 4, n + 3, 3, m + 2)
      PROVE  Leads(HandlerClose(h, w), 4, n + 3, 1, m)
  <2>1. HandlerClose(h, w) = w \o End \o Block \o End
    BY <1>2 DEF HandlerClose
  <2>2. Leads(End, 3, m + 2, 2, m + 1)
    BY EndAt
  <2>3. Leads(Block, 2, m + 1, 2, m + 1)
    BY BlockAt
  <2>4. Leads(End, 2, m + 1, 1, m)
    BY EndAt
  <2>5. Leads(w \o End, 4, n + 3, 2, m + 1)
    BY <1>2, <2>2, Joins, Zenon
  <2>6. Leads(w \o End \o Block, 4, n + 3, 2, m + 1)
    BY <2>3, <2>5, Joins, Zenon
  <2>7. Leads(w \o End \o Block \o End, 4, n + 3, 1, m)
    BY <2>4, <2>6, Joins, Zenon
  <2> QED BY <2>1, <2>7, Zenon
<1> QED BY <1>1, <1>2

(* The tokens that end a handler lead from within it to where it leaves.   *)
LEMMA HandlerEnds ==
  ASSUME NEW h, NEW n \in Nat, InHandler(h, n)
  PROVE  \E d, k \in Nat :
           /\ layout = Sound(d, k, 0)
           /\ Leads(HandlerClose(h, End), d, k, 1, n)
           /\ Leads(HandlerClose(h, <<"}">>), d, k, 1, n + Excess(h))
<1>1. CASE handled[h] = <<>>
  <2>1. layout = Sound(2, n + 1, 0) /\ Excess(h) = 0
    BY <1>1 DEF InHandler, Excess
  <2>2. Leads(HandlerClose(h, End), 2, n + 1, 1, n)
        /\ Leads(HandlerClose(h, <<"}">>), 2, n + 1, 1, n)
    BY <1>1, HandlerCloses, Zenon
  <2>3. n + Excess(h) = n /\ 2 \in Nat /\ n + 1 \in Nat
    BY <2>1
  <2>4. Leads(HandlerClose(h, <<"}">>), 2, n + 1, 1, n + Excess(h))
    BY <2>2, <2>3, Zenon
  <2> QED BY <2>1, <2>2, <2>3, <2>4, Zenon
<1>2. CASE handled[h] # <<>>
  <2>1. layout = Sound(4, n + 3, 0) /\ Excess(h) = 1
    BY <1>2 DEF InHandler, Excess
  <2>2. Leads(End, 4, n + 3, 3, n + 2)
    BY EndAt
  <2>3. Leads(<<"}">>, 4, n + 3, 3, n + 3)
    <3>1. 3 \in Nat /\ 4 \in Nat /\ 4 = 3 + 1 /\ n + 3 \in Nat
      OBVIOUS
    <3> QED BY <3>1, CloseAt, Zenon
  <2>4. n + 3 = (n + 1) + 2 /\ n + 1 \in Nat /\ n + Excess(h) = n + 1 /\ n + 3 \in Nat /\ 4 \in Nat
    BY <2>1
  <2>5. Leads(HandlerClose(h, End), 4, n + 3, 1, n)
    BY <1>2, <2>2, HandlerCloses, Zenon
  <2>6. Leads(<<"}">>, 4, n + 3, 3, (n + 1) + 2)
    BY <2>3, <2>4, Zenon
  <2>7. Leads(HandlerClose(h, <<"}">>), 4, n + 3, 1, n + 1)
    BY <1>2, <2>4, <2>6, HandlerCloses, Zenon
  <2>8. Leads(HandlerClose(h, <<"}">>), 4, n + 3, 1, n + Excess(h))
    BY <2>4, <2>7, Zenon
  <2> QED BY <2>1, <2>4, <2>5, <2>8, Zenon
<1> QED BY <1>1, <1>2

LEMMA LaidOut ==
  ASSUME NEW t, NEW d, NEW n, NEW e, NEW m,
         layout = Sound(d, n, 0), Leads(t, d, n, e, m), Layout(t)
  PROVE  layout' = Sound(e, m, 0)
BY DEF Leads, Layout

LEMMA HandlerEntered ==
  ASSUME NEW h, NEW t, NEW d \in Nat, NEW k \in Nat, NEW n \in Nat, layout = Sound(d, k, 0),
         Leads(t, d, k, 1, n), Layout(t \o HandlerOpen(h)), handled' = handled
  PROVE  InHandler(h, n)'
<1>1. CASE handled[h] = <<>>
  <2>1. Leads(t \o HandlerOpen(h), d, k, 2, n + 1)
    BY <1>1, HandlerOpens, Joins, Zenon
  <2>2. layout' = Sound(2, n + 1, 0)
    BY <2>1, LaidOut, Zenon
  <2> QED BY <1>1, <2>2 DEF InHandler
<1>2. CASE handled[h] # <<>>
  <2>1. Leads(t \o HandlerOpen(h), d, k, 4, n + 3)
    BY <1>2, HandlerOpens, Joins, Zenon
  <2>2. layout' = Sound(4, n + 3, 0)
    BY <2>1, LaidOut, Zenon
  <2> QED BY <1>2, <2>2 DEF InHandler
<1> QED BY <1>1, <1>2

LEMMA FirstHandlerEntered ==
  ASSUME NEW h, layout = Sound(1, 1, 0), Layout(HandlerOpen(h)), handled' = handled
  PROVE  InHandler(h, 1)'
<1>0. 1 \in Nat
  OBVIOUS
<1>1. CASE handled[h] = <<>>
  <2>1. layout' = Sound(2, 1 + 1, 0)
    BY <1>0, <1>1, HandlerOpens, LaidOut, Zenon
  <2> QED BY <1>1, <2>1 DEF InHandler
<1>2. CASE handled[h] # <<>>
  <2>1. layout' = Sound(4, 1 + 3, 0)
    BY <1>0, <1>2, HandlerOpens, LaidOut, Zenon
  <2> QED BY <1>2, <2>1 DEF InHandler
<1> QED BY <1>1, <1>2

LEMMA ExcessType == ASSUME NEW h PROVE Excess(h) \in Nat /\ Margin(h) \in Nat
BY DEF Excess, Margin

LEMMA LayoutInit == Init => LayoutInv
<1> SUFFICES ASSUME Init PROVE LayoutInv
  OBVIOUS
<1>1. pc = <<"plugin", "end">> /\ layout = Sound(0, 0, 0)
  BY DEF Init, NewPrinter, Sound
<1> QED BY <1>1 DEF LayoutInv, Handlers

LEMMA LayoutKept ==
  ASSUME LayoutInv, UNCHANGED <<pc, handled, layout>> PROVE LayoutInv'
BY DEF LayoutInv, InHandler, Margin, Excess

LEMMA LayoutStarts ==
  ASSUME NEW p \in Sources, Open(p) PROVE LayoutInv'
<1>1. pc' = <<p, "header">> /\ layout' = Sound(0, 0, 0)
  BY DEF Open, NewPrinter, Sound
<1> QED BY <1>1 DEF LayoutInv, Sources, Handlers

LEMMA LayoutInterface ==
  ASSUME LayoutInv, Typed
  PROVE  InterfaceHeader \/ ConstantsEnd \/ InterfaceEnd => LayoutInv'
<1>1. ASSUME InterfaceHeader PROVE LayoutInv'
  <2>1. /\ pc = <<"interface", "header">> /\ pc' = <<"interface", "constants">>
        /\ Layout(Begin \o Begin)
    BY <1>1 DEF InterfaceHeader, Header, Leave
  <2>2. layout = Sound(0, 0, 0)
    BY <2>1 DEF LayoutInv
  <2>3. layout' = Sound(2, 2, 0)
    BY <2>1, <2>2, InterfaceOpens, LaidOut, Zenon
  <2> QED BY <2>1, <2>3 DEF LayoutInv, Handlers
<1>2. ASSUME ConstantsEnd PROVE LayoutInv'
  <2>1. /\ pc = <<"interface", "constants">> /\ pc' = <<"interface", "functions">>
        /\ Layout(End)
    BY <1>2 DEF ConstantsEnd, Leave
  <2>2. layout = Sound(2, 2, 0)
    BY <2>1 DEF LayoutInv
  <2>3. Leads(End, 2, 2, 1, 1)
    BY EndAt
  <2>4. layout' = Sound(1, 1, 0)
    BY <2>1, <2>2, <2>3, LaidOut, Zenon
  <2> QED BY <2>1, <2>4 DEF LayoutInv, Handlers
<1>3. ASSUME InterfaceEnd PROVE LayoutInv'
  <2>1. /\ pc = <<"interface", "functions">> /\ pc' = <<"interface", "end">> /\ Layout(End)
    BY <1>3 DEF InterfaceEnd, Leave
  <2>2. layout = Sound(1, 1, 0)
    BY <2>1 DEF LayoutInv
  <2>3. Leads(End, 1, 1, 0, 0)
    BY EndAt
  <2>4. layout' = Sound(0, 0, 0)
    BY <2>1, <2>2, <2>3, LaidOut, Zenon
  <2> QED BY <2>1, <2>4 DEF LayoutInv, Handlers
<1> QED BY <1>1, <1>2, <1>3

(* The margin of the client is 2, of the server 1.                         *)
LEMMA LayoutTracers ==
  ASSUME LayoutInv, NEW p \in {"client", "server"}
  PROVE  InitBlock(p) \/ UntracedEnd(p) \/ Traced(p) => LayoutInv'
<1> DEFINE n == IF p = "client" THEN 2 ELSE 1
<1>1. n \in Nat /\ n + 2 \in Nat /\ (n + 2) + 1 = n + 3 /\ n + 3 \in Nat /\ 4 \in Nat
  OBVIOUS
<1>2. /\ pc = <<p, "tracers">> => layout = Sound(1, n, 0)
      /\ pc \in {<<p, "untraced">>, <<p, "traced">>} => layout = Sound(4, n + 3, 0)
  BY DEF LayoutInv
<1>3. ASSUME pc' \in {<<p, "untraced">>, <<p, "traced">>}, layout' = Sound(4, n + 3, 0)
      PROVE  LayoutInv'
  BY <1>3 DEF LayoutInv, Handlers
<1> HIDE DEF n
<1>4. ASSUME InitBlock(p) PROVE LayoutInv'
  <2>1. pc = <<p, "tracers">> /\ pc' = <<p, "untraced">> /\ Layout(Begin \o Begin \o Begin)
    BY <1>4 DEF InitBlock, Leave
  <2>2. layout' = Sound(4, n + 3, 0)
    BY <2>1, <1>1, <1>2, InitBlockOpens, LaidOut, Zenon
  <2> QED BY <2>1, <2>2, <1>3
<1>5. ASSUME UntracedEnd(p) PROVE LayoutInv'
  <2>1. pc = <<p, "untraced">> /\ pc' = <<p, "traced">> /\ Layout(End \o Begin)
    BY <1>5 DEF UntracedEnd, Leave
  <2>2. layout = Sound(4, n + 3, 0)
    BY <2>1, <1>2
  <2>3. Leads(End \o Begin, 4, (n + 2) + 1, 4, (n + 2) + 1)
    BY <1>1, BranchesOpen, Zenon
  <2>4. layout' = Sound(4, n + 3, 0)
    BY <2>1, <2>2, <2>3, <1>1, LaidOut, Zenon
  <2> QED BY <2>1, <2>4, <1>3
<1>6. ASSUME Traced(p) PROVE LayoutInv'
  <2>1. pc = <<p, "traced">> /\ pc' = pc /\ Layout(<<">", "<">>)
    BY <1>6 DEF Traced, Loop
  <2>2. layout = Sound(4, n + 3, 0)
    BY <2>1, <1>2
  <2>3. layout' = Sound(4, n + 3, 0)
    BY <2>1, <2>2, <1>1, InOutAt, LaidOut, Zenon
  <2> QED BY <2>1, <2>3, <1>3
<1> QED BY <1>4, <1>5, <1>6

LEMMA LayoutClient ==
  ASSUME LayoutInv
  PROVE  ClientHeader \/ ClientTracedEnd \/ ClientMethods \/ ClientEnd => LayoutInv'
<1>0. ASSUME NEW n \in Nat, pc' = <<"client", "methods">>, layout' = Sound(1, n + 2, 0)
      PROVE  LayoutInv'
  BY <1>0 DEF LayoutInv, Handlers
<1>1. ASSUME ClientHeader PROVE LayoutInv'
  <2>1. /\ pc = <<"client", "header">> /\ pc' = <<"client", "tracers">>
        /\ Layout(<<">">> \o Begin)
    BY <1>1 DEF ClientHeader, Header, Leave
  <2>2. layout = Sound(0, 0, 0)
    BY <2>1 DEF LayoutInv
  <2>3. layout' = Sound(1, 2, 0)
    BY <2>1, <2>2, ClientOpens, LaidOut, Zenon
  <2> QED BY <2>1, <2>3 DEF LayoutInv, Handlers
<1>2. ASSUME ClientTracedEnd PROVE LayoutInv'
  <2>1. /\ pc = <<"client", "traced">> /\ pc' = <<"client", "methods">> /\ Layout(InitBlockEnd)
    BY <1>2 DEF ClientTracedEnd, Leave
  <2>2. layout = Sound(4, 5, 0)
    BY <2>1 DEF LayoutInv
  <2>3. 2 \in Nat /\ 0 \in Nat /\ 5 = 2 + 3 /\ 2 = 0 + 2
    OBVIOUS
  <2>4. Leads(InitBlockEnd, 4, 5, 1, 2)
    BY <2>3, InitBlockEnds, Zenon
  <2>5. layout' = Sound(1, 0 + 2, 0)
    BY <2>1, <2>2, <2>3, <2>4, LaidOut, Zenon
  <2> QED BY <2>1, <2>3, <2>5, <1>0, Zenon
<1>3. ASSUME ClientMethods PROVE LayoutInv'
  <2> DEFINE body == IF M.client_streaming THEN ChannelBody ELSE DeferredBody
  <2>1. /\ pc = <<"client", "methods">> /\ pc' = pc /\ Layout(Block \o <<">", "{">> \o body)
    BY <1>3 DEF ClientMethods, Loop
  <2>2. PICK n \in Nat : layout = Sound(1, n + 2, 0)
    BY <2>1 DEF LayoutInv
  <2> HIDE DEF body
  <2>3. n + 2 \in Nat /\ n + 1 \in Nat /\ (n + 2) + 1 = (n + 1) + 2
    OBVIOUS
  <2>4. Leads(Block \o <<">", "{">>, 1, n + 2, 2, (n + 2) + 1)
    BY <2>3, MethodOpens, Zenon
  <2>5. \/ Leads(body, 2, (n + 2) + 1, 1, (n + 1) + 2)
        \/ Leads(body, 2, (n + 2) + 1, 1, n + 2)
    <3>1. Leads(ChannelBody, 2, (n + 2) + 1, 1, (n + 1) + 2)
      BY <2>3, ChannelEnds, Zenon
    <3>2. Leads(DeferredBody, 2, (n + 2) + 1, 1, n + 2)
      BY <2>3, DeferredEnds, Zenon
    <3>3. body = ChannelBody \/ body = DeferredBody
      BY DEF body
    <3> QED BY <3>1, <3>2, <3>3, Zenon
  <2>6. layout' = Sound(1, (n + 1) + 2, 0) \/ layout' = Sound(1, n + 2, 0)
    BY <2>1, <2>2, <2>4, <2>5, Joins, LaidOut, Zenon
  <2> QED BY <2>1, <2>3, <2>6, <1>0, Zenon
<1>4. ASSUME ClientEnd PROVE LayoutInv'
  <2>1. /\ pc = <<"client", "methods">> /\ pc' = <<"client", "end">>
        /\ Layout(Begin \o Block \o Block \o End \o <<">">> \o <<"{", "}">> \o End)
    BY <1>4 DEF ClientEnd, Leave
  <2>2. PICK n \in Nat : layout = Sound(1, n + 2, 0)
    BY <2>1 DEF LayoutInv
  <2>3. n + 2 \in Nat
    OBVIOUS
  <2>4. layout' = Sound(0, n + 2, 0)
    BY <2>1, <2>2, <2>3, ClientEnds, LaidOut, Zenon
  <2> QED BY <2>1, <2>4 DEF LayoutInv, Handlers
<1> QED BY <1>1, <1>2, <1>3, <1>4

LEMMA LayoutServer ==
  ASSUME LayoutInv
  PROVE  ServerHeader \/ ServerTracedEnd \/ Collect \/ Collected => LayoutInv'
<1>1. ASSUME ServerHeader PROVE LayoutInv'
  <2>1. /\ pc = <<"server", "header">> /\ pc' = <<"server", "tracers">>
        /\ Layout(<<">", "{">>)
    BY <1>1 DEF ServerHeader, Header, Leave
  <2>2. layout = Sound(0, 0, 0)
    BY <2>1 DEF LayoutInv
  <2>3. 0 \in Nat /\ 1 \in Nat /\ 1 = 0 + 1
    OBVIOUS
  <2>4. layout' = Sound(1, 1, 0)
    BY <2>1, <2>2, <2>3, InOpenAt, LaidOut, Zenon
  <2> QED BY <2>1, <2>4 DEF LayoutInv, Handlers
<1>2. ASSUME ServerTracedEnd PROVE LayoutInv'
  <2>1. /\ pc = <<"server", "traced">> /\ pc' = <<"server", "handlers">> /\ Layout(InitBlockEnd)
    BY <1>2 DEF ServerTracedEnd, Leave
  <2>2. layout = Sound(4, 4, 0)
    BY <2>1 DEF LayoutInv
  <2>3. 1 \in Nat /\ 4 = 1 + 3
    OBVIOUS
  <2>4. Leads(InitBlockEnd, 4, 4, 1, 1)
    BY <2>3, InitBlockEnds, Zenon
  <2>5. layout' = Sound(1, 1, 0)
    BY <2>1, <2>2, <2>4, LaidOut, Zenon
  <2> QED BY <2>1, <2>5 DEF LayoutInv, Handlers
<1>3. ASSUME Collect PROVE LayoutInv'
  <2>1. pc = <<"server", "handlers">> /\ pc' = pc /\ layout' = layout
    BY <1>3 DEF Collect
  <2>2. layout' = Sound(1, 1, 0)
    BY <2>1 DEF LayoutInv
  <2> QED BY <2>1, <2>2 DEF LayoutInv, Handlers
<1>4. ASSUME Collected PROVE LayoutInv'
  <2>1. /\ pc = <<"server", "handlers">> /\ pc' = <<"server", "fireAndForget">>
        /\ Layout(HandlerOpen("fireAndForget")) /\ handled' = handled
    BY <1>4 DEF Collected, Leave
  <2>2. layout = Sound(1, 1, 0)
    BY <2>1 DEF LayoutInv
  <2>3. InHandler("fireAndForget", 1)'
    BY <2>1, <2>2, FirstHandlerEntered
  <2> QED BY <2>1, <2>3 DEF LayoutInv, Handlers, Margin
<1> QED BY <1>1, <1>2, <1>3, <1>4

LEMMA LayoutBranches ==
  ASSUME LayoutInv, Typed
  PROVE  FireAndForget \/ RequestResponse \/ RequestStream \/ RequestChannel => LayoutInv'
<1>1. ASSUME NEW h \in Handlers, NEW list, list = handled[h], NEW tokens,
             Loop(<<"server", h>>, list), Layout(tokens),
             \A n \in Nat : Leads(tokens, 4, n, 4, n)
      PROVE  LayoutInv'
  <2>1. pc = <<"server", h>> /\ pc' = pc /\ handled' = handled /\ i <= Len(list)
    BY <1>1 DEF Loop
  <2>2. handled[h] # <<>>
    BY <1>1, <2>1 DEF Typed
  <2>3. InHandler(h, Margin(h))
    BY <2>1 DEF LayoutInv
  <2>4. layout = Sound(4, Margin(h) + 3, 0)
    BY <2>2, <2>3 DEF InHandler
  <2>5. Margin(h) + 3 \in Nat
    BY ExcessType
  <2>6. layout' = layout
    BY <1>1, <2>4, <2>5, LaidOut, Zenon
  <2> QED BY <2>1, <2>6, LayoutKept
<1>2. \A n \in Nat : Leads(Block, 4, n, 4, n)
  BY BlockAt
<1>3. ASSUME FireAndForget PROVE LayoutInv'
  <2>1. Loop(<<"server", "fireAndForget">>, handled["fireAndForget"])
        /\ Layout(<<">">> \o Block \o <<"<">>)
    BY <1>3 DEF FireAndForget, Branch
  <2>2. "fireAndForget" \in Handlers
    BY DEF Handlers
  <2> QED BY <1>1, <2>1, <2>2, OnewayBranch, Zenon
<1>4. ASSUME RequestResponse PROVE LayoutInv'
  <2>1. Loop(<<"server", "requestResponse">>, handled["requestResponse"]) /\ Layout(Block)
    BY <1>4 DEF RequestResponse, Branch
  <2>2. "requestResponse" \in Handlers
    BY DEF Handlers
  <2> QED BY <1>1, <1>2, <2>1, <2>2, Zenon
<1>5. ASSUME RequestStream PROVE LayoutInv'
  <2>1. Loop(<<"server", "requestStream">>, handled["requestStream"]) /\ Layout(Block)
    BY <1>5 DEF RequestStream, Branch
  <2>2. "requestStream" \in Handlers
    BY DEF Handlers
  <2> QED BY <1>1, <1>2, <2>1, <2>2, Zenon
<1>6. ASSUME RequestChannel PROVE LayoutInv'
  <2>1. Loop(<<"server", "requestChannel">>, handled["requestChannel"])
        /\ Layout(Begin \o <<">", "<">> \o End)
    BY <1>6 DEF RequestChannel, Branch
  <2>2. "requestChannel" \in Handlers
    BY DEF Handlers
  <2> QED BY <1>1, <2>1, <2>2, ChannelBranch, Zenon
<1> QED BY <1>3, <1>4, <1>5, <1>6

LEMMA LayoutHandlers ==
  ASSUME LayoutInv
  PROVE  FireAndForgetEnd \/ RequestResponseEnd \/ RequestStreamEnd \/ RequestChannelEnd
           => LayoutInv'
<1>1. ASSUME NEW h \in {"fireAndForget", "requestResponse"},
             NEW g \in {"requestResponse", "requestStream"},
             pc = <<"server", h>>, pc' = <<"server", g>>, handled' = handled,
             Layout(HandlerClose(h, End) \o HandlerOpen(g))
      PROVE  LayoutInv'
  <2>1. InHandler(h, 1)
    BY <1>1 DEF LayoutInv, Handlers, Margin
  <2>2. PICK d, k \in Nat : layout = Sound(d, k, 0) /\ Leads(HandlerClose(h, End), d, k, 1, 1)
    BY <2>1, HandlerEnds
  <2>3. 1 \in Nat
    OBVIOUS
  <2>4. InHandler(g, 1)'
    BY <1>1, <2>2, <2>3, HandlerEntered, Zenon
  <2> QED BY <1>1, <2>4 DEF LayoutInv, Handlers, Margin
<1>2. ASSUME FireAndForgetEnd PROVE LayoutInv'
  BY <1>1, <1>2 DEF FireAndForgetEnd, Leave
<1>3. ASSUME RequestResponseEnd PROVE LayoutInv'
  BY <1>1, <1>3 DEF RequestResponseEnd, Leave
<1>4. ASSUME RequestStreamEnd PROVE LayoutInv'
  <2>1. /\ pc = <<"server", "requestStream">> /\ pc' = <<"server", "requestChannel">>
        /\ Layout(HandlerClose("requestStream", <<"}">>) \o HandlerOpen("requestChannel"))
        /\ handled' = handled
    BY <1>4 DEF RequestStreamEnd, Leave
  <2>2. InHandler("requestStream", 1)
    BY <2>1 DEF LayoutInv, Handlers, Margin
  <2>3. PICK n \in Nat : n = 1 + Excess("requestStream")
    BY ExcessType
  <2>4. PICK d, k \in Nat :
          layout = Sound(d, k, 0) /\ Leads(HandlerClose("requestStream", <<"}">>), d, k, 1, n)
    BY <2>2, <2>3, HandlerEnds
  <2>5. InHandler("requestChannel", n)'
    BY <2>1, <2>4, HandlerEntered, Zenon
  <2>6. n = Margin("requestChannel")'
    BY <2>1, <2>3 DEF Margin, Excess
  <2>7. InHandler("requestChannel", Margin("requestChannel"))'
    BY <2>5, <2>6 DEF InHandler
  <2> QED BY <2>1, <2>7 DEF LayoutInv, Handlers
<1>5. ASSUME RequestChannelEnd PROVE LayoutInv'
  <2>1. /\ pc = <<"server", "requestChannel">> /\ pc' = <<"server", "payloads">>
        /\ Layout(HandlerClose("requestChannel", <<"}">>)) /\ handled' = handled
    BY <1>5 DEF RequestChannelEnd, Leave
  <2>2. PICK n \in Nat : n = Margin("requestChannel")
    BY ExcessType
  <2>3. InHandler("requestChannel", n)
    BY <2>1, <2>2 DEF LayoutInv, Handlers
  <2>4. layout' = Sound(1, n + Excess("requestChannel"), 0)
    <3>1. PICK d, k \in Nat :
            /\ layout = Sound(d, k, 0)
            /\ Leads(HandlerClose("requestChannel", <<"}">>), d, k, 1, n + Excess("requestChannel"))
      BY <2>3, HandlerEnds
    <3> QED BY <2>1, <3>1, LaidOut
  <2>5. n + Excess("requestChannel") = (1 + Excess("requestStream") + Excess("requestChannel"))'
    <3>1. /\ Excess("requestStream")' = Excess("requestStream")
          /\ Excess("requestChannel")' = Excess("requestChannel")
      BY <2>1 DEF Excess
    <3>2. n = 1 + Excess("requestStream")
      BY <2>2 DEF Margin
    <3> QED BY <3>1, <3>2
  <2> QED BY <2>1, <2>4, <2>5 DEF LayoutInv, Handlers
<1> QED BY <1>2, <1>3, <1>4, <1>5

LEMMA LayoutCompanion ==
  ASSUME LayoutInv
  PROVE  Payloads \/ Companion => LayoutInv'
<1>0. ASSUME handled' = handled
      PROVE  /\ Excess("requestStream")' = Excess("requestStream")
             /\ Excess("requestChannel")' = Excess("requestChannel")
  BY <1>0 DEF Excess
<1>1. ASSUME Payloads PROVE LayoutInv'
  <2> DEFINE split == IF handled["requestChannel"] = <<>> THEN <<>> ELSE <<">">> \o <<"{", "}">>
  <2>1. /\ pc = <<"server", "payloads">> /\ pc' = <<"server", "companion">>
        /\ Layout(Begin \o split \o End) /\ handled' = handled
    BY <1>1 DEF Payloads, Header, Leave
  <2>2. PICK n \in Nat : n = 1 + Excess("requestStream") + Excess("requestChannel")
    BY ExcessType
  <2>3. PICK x \in Nat : x = Excess("requestChannel")
    BY ExcessType
  <2>4. layout = Sound(1, n, 0)
    BY <2>1, <2>2 DEF LayoutInv
  <2>5. Leads(split, 2, n + 1, 2, (n + x) + 1)
    <3>1. CASE handled["requestChannel"] = <<>>
      <4>1. split = <<>> /\ (n + x) + 1 = n + 1
        BY <3>1, <2>3 DEF Excess
      <4>2. Leads(<<>>, 2, n + 1, 2, n + 1)
        BY NoneAt
      <4> QED BY <4>1, <4>2
    <3>2. CASE handled["requestChannel"] # <<>>
      <4>0. split = <<">">> \o <<"{", "}">>
        BY <3>2, Zenon
      <4>1. (n + x) + 1 = n + 2
        BY <3>2, <2>3 DEF Excess
      <4>2. Leads(<<">">>, 2, n + 1, 2, n + 2)
        BY InAt
      <4>3. 2 \in Nat /\ n + 2 \in Nat
        OBVIOUS
      <4>4. Leads(<<">">> \o <<"{", "}">>, 2, n + 1, 2, n + 2)
        BY <4>2, <4>3, BracesAt, Joins, Zenon
      <4> HIDE DEF split
      <4> QED BY <4>0, <4>1, <4>4, Zenon
    <3> QED BY <3>1, <3>2
  <2> HIDE DEF split
  <2>6. Leads(Begin, 1, n, 2, n + 1) /\ Leads(End, 2, (n + x) + 1, 1, n + x)
    BY BeginAt, EndAt
  <2>7. Leads(Begin \o split \o End, 1, n, 1, n + x)
    BY <2>5, <2>6, Joins, Zenon
  <2>8. layout' = Sound(1, n + x, 0)
    BY <2>1, <2>4, <2>7, LaidOut, Zenon
  <2>9. n + x = (1 + Excess("requestStream") + 2 * Excess("requestChannel"))'
    BY <1>0, <2>1, <2>2, <2>3, ExcessType
  <2> QED BY <2>1, <2>8, <2>9 DEF LayoutInv, Handlers
<1>2. ASSUME Companion PROVE LayoutInv'
  <2>1. /\ pc = <<"server", "companion">> /\ pc' = <<"server", "end">>
        /\ Layout(CompanionBody \o End) /\ handled' = handled
    BY <1>2 DEF Companion, Header, Leave, CompanionBody
  <2>2. PICK n \in Nat : n = Excess("requestStream") + 2 * Excess("requestChannel")
    BY ExcessType
  <2>3. layout = Sound(1, n + 1, 0)
    <3>1. n + 1 = 1 + Excess("requestStream") + 2 * Excess("requestChannel")
      BY <2>2, ExcessType
    <3> QED BY <2>1, <3>1 DEF LayoutInv
  <2>4. \/ \E m \in Nat : layout' = Sound(0, m, 0)
        \/ n = 0 /\ layout' = Sound(0, 0, 1)
    BY <2>1, <2>3, CompanionEnds DEF Layout
  <2>5. n = 0 => handled["requestStream"] = <<>> /\ handled["requestChannel"] = <<>>
    BY <2>2 DEF Excess
  <2> QED BY <2>1, <2>4, <2>5 DEF LayoutInv, Handlers
<1> QED BY <1>1, <1>2

LEMMA LayoutNext == IInv /\ LayoutInv /\ [Next]_state => LayoutInv'
<1> SUFFICES ASSUME IInv, LayoutInv, [Next]_state PROVE LayoutInv'
  OBVIOUS
<1>0. Typed
  BY DEF IInv
<1>1. CASE UNCHANGED state
  BY <1>1, LayoutKept DEF state
<1>2. CASE StartService \/ StartClient \/ StartServer
  BY <1>2, LayoutStarts DEF StartService, StartClient, StartServer, Sources
<1>3. CASE InterfaceHeader \/ ConstantsEnd \/ InterfaceEnd
  BY <1>0, <1>3, LayoutInterface
<1>4. CASE Constants \/ InterfaceFunctions \/ ClientTracers \/ ServerTracers
  BY <1>4, LayoutKept DEF Constants, InterfaceFunctions, ClientTracers, ServerTracers, Loop
<1>5. ASSUME NEW p \in {"client", "server"}, Untraced(p)
      PROVE  LayoutInv'
  BY <1>5, LayoutKept DEF Untraced, Loop
<1>6. ASSUME NEW p \in {"client", "server"}, InitBlock(p) \/ UntracedEnd(p) \/ Traced(p)
      PROVE  LayoutInv'
  BY <1>6, LayoutTracers
<1>7. CASE ClientHeader \/ ClientTracedEnd \/ ClientMethods \/ ClientEnd
  BY <1>7, LayoutClient
<1>8. CASE ServerHeader \/ ServerTracedEnd \/ Collect \/ Collected
  BY <1>8, LayoutServer
<1>9. CASE FireAndForget \/ RequestResponse \/ RequestStream \/ RequestChannel
  BY <1>0, <1>9, LayoutBranches
<1>10. CASE FireAndForgetEnd \/ RequestResponseEnd \/ RequestStreamEnd \/ RequestChannelEnd
  BY <1>10, LayoutHandlers
<1>11. CASE Payloads \/ Companion
  BY <1>11, LayoutCompanion
<1> QED
  BY <1>1, <1>2, <1>3, <1>4, <1>5, <1>6, <1>7, <1>8, <1>9, <1>10, <1>11 DEF Next

(* What LayoutMatches asks of a layout that is sound at a depth.           *)
LEMMA SoundMatches ==
  ASSUME NEW d \in Nat, NEW n \in Nat, layout = Sound(d, n, 0), pc[2] = "end" => d = 0
  PROVE  LayoutMatches
<1>1. ~layout.broken /\ layout.depth = d /\ layout.unmatched = 0
  BY DEF Sound
<1> QED BY <1>1 DEF LayoutMatches

(* Every source file closes the blocks it opens, and the Outdents match    *)
(* but for the one at the end of a server without the two handlers whose   *)
(* `when` is closed without its Outdent.                                   *)
THEOREM BlocksClosed == Spec => []LayoutMatches
<1>1. Typed /\ LayoutInv => LayoutMatches
  <2> SUFFICES ASSUME Typed, LayoutInv PROVE LayoutMatches
    OBVIOUS
  <2>1. CASE pc = <<"server", "end">>
    <3>1. CASE \E n \in Nat : layout = Sound(0, n, 0)
      BY <3>1, SoundMatches
    <3>2. CASE layout = Sound(0, 0, 1) /\ handled["requestStream"] = <<>>
               /\ handled["requestChannel"] = <<>>
      <4>1. ~layout.broken /\ layout.depth = 0 /\ layout.unmatched = 1
        BY <3>2 DEF Sound
      <4> QED BY <2>1, <3>2, <4>1 DEF LayoutMatches, Generated
    <3> QED BY <2>1, <3>1, <3>2 DEF LayoutInv
  <2>2. CASE pc # <<"server", "end">>
    <3>1. \E d, n \in Nat : layout = Sound(d, n, 0) /\ (pc[2] = "end" => d = 0)
      <4>1. CASE pc[1] \in {"plugin", "interface"}
        <5>1. CASE pc = <<"interface", "constants">>
          BY <5>1 DEF LayoutInv
        <5>2. CASE pc = <<"interface", "functions">>
          BY <5>2 DEF LayoutInv
        <5>3. CASE pc \in {<<"plugin", "end">>, <<"interface", "header">>,
                           <<"interface", "end">>}
          BY <5>3 DEF LayoutInv
        <5> QED BY <4>1, <5>1, <5>2, <5>3 DEF Typed, Labels
      <4>2. CASE pc[1] = "client"
        <5>1. CASE pc = <<"client", "methods">>
          <6>1. PICK n \in Nat : layout = Sound(1, n + 2, 0)
            BY <5>1 DEF LayoutInv
          <6>2. n + 2 \in Nat /\ 1 \in Nat /\ pc[2] # "end"
            BY <5>1
          <6> QED BY <6>1, <6>2, Zenon
        <5>2. CASE pc = <<"client", "end">>
          <6>1. PICK n \in Nat : layout = Sound(0, n + 2, 0)
            BY <5>2 DEF LayoutInv
          <6>2. n + 2 \in Nat /\ 0 \in Nat
            OBVIOUS
          <6> QED BY <6>1, <6>2, Zenon
        <5>3. CASE pc \in {<<"client", "header">>, <<"client", "tracers">>,
                           <<"client", "untraced">>, <<"client", "traced">>}
          BY <5>3 DEF LayoutInv
        <5> QED BY <4>2, <5>1, <5>2, <5>3 DEF Typed, Labels
      <4>3. CASE pc[1] = "server"
        <5>1. ASSUME NEW h \in Handlers, pc = <<"server", h>>
              PROVE  \E d, n \in Nat : layout = Sound(d, n, 0) /\ (pc[2] = "end" => d = 0)
          <6>1. InHandler(h, Margin(h))
            BY <5>1 DEF LayoutInv
          <6>2. /\ Margin(h) + 1 \in Nat /\ Margin(h) + 3 \in Nat /\ 2 \in Nat /\ 4 \in Nat
                /\ pc[2] # "end"
            BY <5>1, ExcessType DEF Handlers
          <6>3. layout = Sound(2, Margin(h) + 1, 0) \/ layout = Sound(4, Margin(h) + 3, 0)
            BY <6>1 DEF InHandler
          <6> QED BY <6>2, <6>3, Zenon
        <5>2. CASE pc \in {<<"server", "payloads">>, <<"server", "companion">>}
          <6>1. /\ 1 + Excess("requestStream") + Excess("requestChannel") \in Nat
                /\ 1 + Excess("requestStream") + 2 * Excess("requestChannel") \in Nat
                /\ 1 \in Nat /\ pc[2] # "end"
            BY <5>2, ExcessType
          <6>2. \/ layout = Sound(1, 1 + Excess("requestStream") + Excess("requestChannel"), 0)
                \/ layout = Sound(1, 1 + Excess("requestStream") + 2 * Excess("requestChannel"), 0)
            BY <5>2 DEF LayoutInv
          <6> QED BY <6>1, <6>2, Zenon
        <5>3. CASE pc \in {<<"server", "header">>, <<"server", "tracers">>,
                           <<"server", "untraced">>, <<"server", "traced">>,
                           <<"server", "handlers">>}
          BY <5>3 DEF LayoutInv
        <5> QED BY <2>2, <4>3, <5>1, <5>2, <5>3 DEF Typed, Labels
      <4> QED BY <4>1, <4>2, <4>3 DEF Typed, Labels
    <3> QED BY <3>1, SoundMatches
  <2> QED BY <2>1, <2>2
<1>2. IInv => Typed
  BY DEF IInv
<1> QED
  BY <1>1, <1>2, IInvHolds, LayoutInit, LayoutNext, PTL DEF Spec
=============================================================================
