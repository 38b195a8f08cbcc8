----------------------------- MODULE MethodNames -----------------------------
(***************************************************************************)
(* The identifiers the generator derives from the name of a method.  A     *)
(* name is a sequence of characters, a character a string of length one.   *)
(*                                                                         *)
(* MixedLowerStops is a faulty variant of MixedLower.                      *)
(***************************************************************************)
EXTENDS Integers, Sequences, SequencesExt

CONSTANT Upper  \* the upper case letter of every lower case letter

ASSUME UpperAssumption ==
  /\ DOMAIN Upper \intersect Range(Upper) = {}
  /\ "_" \notin DOMAIN Upper \union Range(Upper)
  /\ IsInjective(Upper)

islower(c) == c \in DOMAIN Upper

isupper(c) == c \in Range(Upper)

toupper(c) == IF islower(c) THEN Upper[c] ELSE c

tolower(c) ==
  IF isupper(c) THEN CHOOSE l \in DOMAIN Upper : Upper[l] = c ELSE c

-----------------------------------------------------------------------------
MixedLowerStops(word) ==
  LET after[k \in 1 .. Len(word)] ==
        IF k = 1 THEN [w |-> <<tolower(word[1])>>, stopped |-> FALSE]
        ELSE LET acc == after[k - 1] IN
               IF acc.stopped \/ word[k] = "_" THEN [acc EXCEPT !.stopped = TRUE]
               ELSE [acc EXCEPT !.w = Append(@, word[k])]
  IN  after[Len(word)].w

(* Decapitalize the first letter, drop every other underscore and          *)
(* capitalize what follows it.                                             *)
MixedLower(word) ==
  LET after[k \in 1 .. Len(word)] ==
        IF k = 1 THEN [w |-> <<tolower(word[1])>>, after_underscore |-> FALSE]
        ELSE LET acc == after[k - 1] IN
               IF word[k] = "_" THEN [acc EXCEPT !.after_underscore = TRUE]
               ELSE [w |-> Append(acc.w, IF acc.after_underscore THEN toupper(word[k])
                                         ELSE word[k]),
                     after_underscore |-> FALSE]
  IN  after[Len(word)].w

(* An underscore between a lower and an upper case letter.                 *)
ToAllUpperCase(word) ==
  LET upto[k \in 0 .. Len(word)] ==
        IF k = 0 THEN <<>>
        ELSE LET upper == Append(upto[k - 1], toupper(word[k])) IN
               IF k < Len(word) /\ islower(word[k]) /\ isupper(word[k + 1])
                 THEN Append(upper, "_") ELSE upper
  IN  upto[Len(word)]

(* The prefix METHOD_ is the same for every method and left out.           *)
MethodFieldName(method) == ToAllUpperCase(method.name)

LowerMethodName(method) == MixedLower(method.name)
=============================================================================
