---------------------------- MODULE MCDocComment ----------------------------
(***************************************************************************)
(* DocComment on every leading comment of at most MaxLength characters,    *)
(* and on descriptors with a trailing comment or without a location.       *)
(***************************************************************************)
EXTENDS DocComment, SequencesExt

CONSTANT MaxLength

Texts(length) == BoundedSeq(Char \ {"space"}, length)

AllLocations ==
  {{}} \union {{[leading |-> l, trailing |-> <<"*", "/", "x">>]} : l \in Texts(MaxLength)}
       \union {{[leading |-> <<>>, trailing |-> t]} : t \in Texts(2)}
=============================================================================
