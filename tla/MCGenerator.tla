----------------------------- MODULE MCGenerator -----------------------------
(***************************************************************************)
(* Instances of Generator.  OneService: a service with up to two methods   *)
(* of any flags, under names that differ in case and underscores only and  *)
(* one that differs in a letter.  SeveralServices: two services            *)
(* with up to one method, one of them named like the client of another.    *)
(***************************************************************************)
EXTENDS Generator

AsciiUpper == [a |-> "A", b |-> "B"]

Names == {<<"a", "B">>, <<"a", "_", "b">>, <<"A", "b">>, <<"A", "B">>, <<"a">>}

Descriptor(n, cs, ss, ff) ==
  [name |-> n, client_streaming |-> cs, server_streaming |-> ss,
   fire_and_forget |-> ff, input_type |-> <<"In", n>>, output_type |-> <<"Out", n>>]

AnyMethod(names) ==
  {Descriptor(n, cs, ss, ff) :
     n \in names, cs \in BOOLEAN, ss \in BOOLEAN, ff \in BOOLEAN}

NamesDiffer(ms) == \A j, k \in DOMAIN ms : ms[j].name = ms[k].name => j = k

OneService ==
  {<<[name |-> <<"S">>, methods |-> ms]>> :
     ms \in {ms \in BoundedSeq(AnyMethod(Names), 2) : NamesDiffer(ms)}}

FewMethods ==
  {Descriptor(<<"b">>, TRUE, TRUE, FALSE), Descriptor(<<"a">>, FALSE, FALSE, TRUE)}

SeveralServices ==
  {[t \in 1 .. 2 |-> [name |-> names[t], methods |-> methods[t]]] :
     names \in Injection(1 .. 2, {<<"S">>, <<"S", "Client">>, <<"T">>}),
     methods \in [1 .. 2 -> BoundedSeq(FewMethods, 1)]}

AllFiles == OneService \union SeveralServices
=============================================================================
