----------------------------- MODULE DocComment -----------------------------
(***************************************************************************)
(* The doc comment of a service or a method, printed from the comment that *)
(* stands next to it in the .proto file (WriteServiceDocComment,           *)
(* WriteMethodDocComment and the helpers they call).                       *)
(*                                                                         *)
(* Text is a sequence of characters; an HTML entity and a tag are one      *)
(* member each, since only their not being a character matters.  The       *)
(* space, the newline and the backslash are called by their names.         *)
(*                                                                         *)
(* WordWithoutFirst and NoExtraSpace are faulty variants of the            *)
(* definitions that follow them.                                           *)
(***************************************************************************)
EXTENDS Integers, Sequences

CONSTANTS
  Char,      \* characters
  Locations  \* source locations: none, or one [leading, trailing]

ASSUME CharAssumption ==
  /\ {"*", "/", "space", "newline"} \subseteq Char
  /\ {"&#42;", "&#47;", "&#64;", "&lt;", "&gt;", "&amp;", "&#92;",
      "<pre>", "</pre>"} \intersect Char = {}

ASSUME LocationsAssumption ==
  \A set \in Locations : \A l \in set : l.leading \in Seq(Char) /\ l.trailing \in Seq(Char)

VARIABLES
  comments,  \* the comment of the descriptor
  pc,        \* "escape", "split", "body", "footer" or "done"
  i,         \* the character or line at which the loop is
  prev,      \* the character EscapeKotlindoc saw last
  escaped,   \* its result
  lines,     \* the result of Split
  out        \* what was printed

vars == <<comments, pc, i, prev, escaped, lines, out>>

Entity == {"&#42;", "&#47;", "&#64;", "&lt;", "&gt;", "&amp;", "&#92;"}

Token == Char \union Entity \union {"<pre>", "</pre>"}

-----------------------------------------------------------------------------
GetCommentsForDescriptor(location) ==
  IF location = {} THEN <<>>
  ELSE LET l == CHOOSE l \in location : TRUE IN
         IF l.leading = <<>> THEN l.trailing ELSE l.leading

Escape(c, last) ==
  IF c = "*" THEN IF last = "/" THEN "&#42;" ELSE c
  ELSE IF c = "/" THEN IF last = "*" THEN "&#47;" ELSE c
  ELSE IF c = "@" THEN "&#64;"
  ELSE IF c = "<" THEN "&lt;"
  ELSE IF c = ">" THEN "&gt;"
  ELSE IF c = "&" THEN "&amp;"
  ELSE IF c = "backslash" THEN "&#92;" ELSE c

(* The loop of EscapeKotlindoc compares with what stood before in the      *)
(* input, whether it was escaped or not.                                   *)
EscapeKotlindoc ==
  /\ pc = "escape" /\ i <= Len(comments)
  /\ escaped' = Append(escaped, Escape(comments[i], prev))
  /\ prev' = comments[i]
  /\ i' = i + 1
  /\ UNCHANGED <<comments, pc, lines, out>>

Escaped ==
  /\ pc = "escape" /\ i > Len(comments)
  /\ pc' = "split" /\ i' = 1
  /\ UNCHANGED <<comments, prev, escaped, lines, out>>

(* SplitStringToIteratorUsing: newlines are skipped, so that no line is    *)
(* empty.                                                                  *)
SkipNewline ==
  /\ pc = "split" /\ i <= Len(escaped) /\ escaped[i] = "newline"
  /\ i' = i + 1
  /\ UNCHANGED <<comments, pc, prev, escaped, lines, out>>

EndsWord(q) ==
  /\ q <= Len(escaped) => escaped[q] = "newline"
  /\ \A j \in i .. q - 1 : escaped[j] # "newline"

WordWithoutFirst ==
  /\ pc = "split" /\ i <= Len(escaped)
  /\ \E q \in i + 1 .. Len(escaped) + 1 :
       /\ EndsWord(q)
       /\ lines' = Append(lines, SubSeq(escaped, i + 1, q - 1))
       /\ i' = q
  /\ UNCHANGED <<comments, pc, prev, escaped, out>>

Word ==
  /\ pc = "split" /\ i <= Len(escaped)
  /\ \E q \in i + 1 .. Len(escaped) + 1 :
       /\ EndsWord(q)
       /\ lines' = Append(lines, SubSeq(escaped, i, q - 1))
       /\ i' = q
  /\ UNCHANGED <<comments, pc, prev, escaped, out>>

OpenPre == <<"space", "*", "space", "<pre>", "newline">>

ClosePre == <<"space", "*", "space", "</pre>", "newline">>

(* WriteDocCommentBody prints no tags without lines.                       *)
Split ==
  /\ pc = "split" /\ i > Len(escaped)
  /\ pc' = IF lines = <<>> THEN "footer" ELSE "body"
  /\ out' = IF lines = <<>> THEN out ELSE out \o OpenPre
  /\ i' = 1
  /\ UNCHANGED <<comments, prev, escaped, lines>>

NoExtraSpace(line) == <<"space", "*">>

Leader(line) == IF line[1] = "/" THEN <<"space", "*", "space">> ELSE <<"space", "*">>

WriteLine ==
  /\ pc = "body" /\ i <= Len(lines)
  /\ out' = out \o (Leader(lines[i]) \o Append(lines[i], "newline"))
  /\ i' = i + 1
  /\ UNCHANGED <<comments, pc, prev, escaped, lines>>

WriteDocCommentBody ==
  /\ pc = "body" /\ i > Len(lines)
  /\ pc' = "footer"
  /\ out' = out \o ClosePre
  /\ UNCHANGED <<comments, i, prev, escaped, lines>>

Footer ==
  /\ pc = "footer"
  /\ pc' = "done"
  /\ out' = out \o <<"space", "*", "/", "newline">>
  /\ UNCHANGED <<comments, i, prev, escaped, lines>>

Init ==
  /\ \E location \in Locations : comments = GetCommentsForDescriptor(location)
  /\ pc = "escape" /\ i = 1 /\ prev = "*"
  /\ escaped = <<>> /\ lines = <<>>
  /\ out = <<"/", "*", "*", "newline">>

Next ==
  \/ EscapeKotlindoc \/ Escaped \/ SkipNewline \/ Word \/ Split
  \/ WriteLine \/ WriteDocCommentBody \/ Footer

Spec == Init /\ [][Next]_vars

-----------------------------------------------------------------------------
TypeOK ==
  /\ comments \in Seq(Char)
  /\ pc \in {"escape", "split", "body", "footer", "done"}
  /\ i \in Nat \ {0}
  /\ prev \in Char
  /\ escaped \in Seq(Token)
  /\ lines \in Seq(Seq(Token))
  /\ out \in Seq(Token)

Starts(text, j) == text[j] = "/" /\ text[j + 1] = "*"

Ends(text, j) == text[j] = "*" /\ text[j + 1] = "/"

(* Kotlin's comments nest.  No text of the .proto file starts a comment in *)
(* the doc comment or ends it: the only delimiters are those of the header *)
(* and the footer ("HTML-escape them so that they don't accidentally close *)
(* the doc comment").                                                      *)
ClosedByFooter ==
  \A j \in 1 .. Len(out) - 1 :
    /\ Starts(out, j) => j = 1
    /\ Ends(out, j) => pc = "done" /\ j = Len(out) - 2

Decode(t) ==
  CASE t = "&#42;" -> "*" [] t = "&#47;" -> "/" [] t = "&#64;" -> "@"
    [] t = "&lt;" -> "<" [] t = "&gt;" -> ">" [] t = "&amp;" -> "&"
    [] t = "&#92;" -> "backslash" [] OTHER -> t

(* The positions at which the lines of the comment start that are not      *)
(* empty.                                                                  *)
LineStarts ==
  {j \in DOMAIN comments :
     comments[j] # "newline" /\ (j = 1 \/ comments[j - 1] = "newline")}

(* A browser shows line as the whole line of the comment that starts at j. *)
Shows(line, j) ==
  LET end == j + Len(line) IN
    /\ end - 1 <= Len(comments)
    /\ end <= Len(comments) => comments[end] = "newline"
    /\ \A n \in DOMAIN line :
         Decode(line[n]) = comments[j + n - 1] /\ line[n] # "newline"

(* What a browser shows of the lines is the comment, character for         *)
(* character: every line of it that is not empty, and in their order.      *)
TextKept ==
  pc \in {"body", "footer", "done"} =>
    \E start \in [DOMAIN lines -> LineStarts] :
      /\ \A k, l \in DOMAIN lines : k < l => start[k] < start[l]
      /\ \A j \in LineStarts : \E k \in DOMAIN lines : start[k] = j
      /\ \A k \in DOMAIN lines : Shows(lines[k], start[k])
=============================================================================
