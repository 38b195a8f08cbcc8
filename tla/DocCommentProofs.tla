-------------------------- MODULE DocCommentProofs --------------------------
(***************************************************************************)
(* Proof that a doc comment is closed by its footer and keeps the text of  *)
(* the comment, for every comment.                                         *)
(***************************************************************************)
EXTENDS DocComment, TLAPS

Clean(text) ==
  \A j \in 1 .. Len(text) - 1 : ~Starts(text, j) /\ ~Ends(text, j)

(* What the delimiters of escaped depend on: prev is the last character,   *)
(* or the last character was replaced by an entity.                        *)
PrevKnown ==
  pc = "escape" /\ escaped # <<>> =>
    /\ escaped[Len(escaped)] = "*" => prev = "*"
    /\ escaped[Len(escaped)] = "/" => prev = "/"

LinesClean == \A k \in 1 .. Len(lines) : lines[k] # <<>> /\ Clean(lines[k])

(* A comment that was started, has not been ended and is at the start of a *)
(* line.                                                                   *)
Open(text) ==
  /\ text \in Seq(Token) /\ Len(text) >= 4 /\ text[Len(text)] = "newline"
  /\ \A j \in 1 .. Len(text) - 1 : (Starts(text, j) => j = 1) /\ ~Ends(text, j)

OutOpen == pc # "done" => Open(out)

IInv ==
  TypeOK /\ Clean(escaped) /\ PrevKnown /\ LinesClean /\ OutOpen /\ ClosedByFooter

-----------------------------------------------------------------------------
(* The comment of a descriptor is a text.                                  *)
LEMMA CommentsType ==
  ASSUME NEW location \in Locations
  PROVE  GetCommentsForDescriptor(location) \in Seq(Char)
<1>1. CASE location = {}
  BY <1>1 DEF GetCommentsForDescriptor
<1>2. CASE location # {}
  <2> DEFINE l == CHOOSE l \in location : TRUE
  <2>1. l \in location
    BY <1>2
  <2>2. l.leading \in Seq(Char) /\ l.trailing \in Seq(Char)
    BY <2>1, LocationsAssumption
  <2> QED
    BY <1>2, <2>2 DEF GetCommentsForDescriptor
<1> QED
  BY <1>1, <1>2

(* EscapeKotlindoc puts a delimiter's second character down only where the *)
(* first does not stand before it.                                         *)
LEMMA EscapeResult ==
  ASSUME NEW c \in Char, NEW last
  PROVE  /\ Escape(c, last) \in Token
         /\ Escape(c, last) = "*" => c = "*" /\ last # "/"
         /\ Escape(c, last) = "/" => c = "/" /\ last # "*"
BY CharAssumption DEF Escape, Token, Entity

(* Joining clean texts is clean unless a delimiter arises at the joint.    *)
LEMMA CleanConcat ==
  ASSUME NEW s \in Seq(Token), NEW t \in Seq(Token), Clean(s), Clean(t),
         s # <<>>, t # <<>>,
         ~(s[Len(s)] = "/" /\ t[1] = "*"), ~(s[Len(s)] = "*" /\ t[1] = "/")
  PROVE  s \o t \in Seq(Token) /\ s \o t # <<>> /\ Clean(s \o t)
<1>1. s \o t \in Seq(Token) /\ Len(s \o t) = Len(s) + Len(t)
      /\ Len(s) \in Nat \ {0} /\ Len(t) \in Nat \ {0}
  OBVIOUS
<1>2. ASSUME NEW j \in 1 .. Len(s \o t) - 1
      PROVE  ~Starts(s \o t, j) /\ ~Ends(s \o t, j)
  <2>1. CASE j < Len(s)
    <3>1. (s \o t)[j] = s[j] /\ (s \o t)[j + 1] = s[j + 1] /\ j \in 1 .. Len(s) - 1
      BY <1>1, <2>1
    <3> QED BY <3>1 DEF Clean, Starts, Ends
  <2>2. CASE j = Len(s)
    <3>1. (s \o t)[j] = s[Len(s)] /\ (s \o t)[j + 1] = t[1]
      BY <1>1, <2>2
    <3> QED BY <3>1 DEF Starts, Ends
  <2>3. CASE j > Len(s)
    <3> DEFINE k == j - Len(s)
    <3>1. (s \o t)[j] = t[k] /\ (s \o t)[j + 1] = t[k + 1] /\ k \in 1 .. Len(t) - 1
      BY <1>1, <2>3
    <3> QED BY <3>1 DEF Clean, Starts, Ends
  <2> QED BY <1>1, <2>1, <2>2, <2>3
<1>3. s \o t # <<>>
  BY <1>1
<1> QED BY <1>1, <1>2, <1>3 DEF Clean

(* The same for one more character.                                        *)
LEMMA CleanAppend ==
  ASSUME NEW s \in Seq(Token), NEW c \in Token, Clean(s),
         s # <<>> => ~(s[Len(s)] = "/" /\ c = "*") /\ ~(s[Len(s)] = "*" /\ c = "/")
  PROVE  Append(s, c) \in Seq(Token) /\ Clean(Append(s, c))
<1>1. Append(s, c) \in Seq(Token) /\ Len(Append(s, c)) = Len(s) + 1 /\ Len(s) \in Nat
  OBVIOUS
<1>2. ASSUME NEW j \in 1 .. Len(Append(s, c)) - 1
      PROVE  ~Starts(Append(s, c), j) /\ ~Ends(Append(s, c), j)
  <2>1. CASE j < Len(s)
    <3>1. Append(s, c)[j] = s[j] /\ Append(s, c)[j + 1] = s[j + 1] /\ j \in 1 .. Len(s) - 1
      BY <1>1, <2>1
    <3> QED BY <3>1 DEF Clean, Starts, Ends
  <2>2. CASE j = Len(s)
    <3>1. Append(s, c)[j] = s[Len(s)] /\ Append(s, c)[j + 1] = c /\ s # <<>>
      BY <1>1, <2>2
    <3> QED BY <3>1 DEF Starts, Ends
  <2> QED BY <1>1, <2>1, <2>2
<1> QED BY <1>1, <1>2 DEF Clean

(* A piece of a clean text is clean.                                       *)
LEMMA CleanSubSeq ==
  ASSUME NEW s \in Seq(Token), Clean(s),
         NEW m \in 1 .. Len(s), NEW n \in m .. Len(s)
  PROVE  SubSeq(s, m, n) \in Seq(Token) /\ SubSeq(s, m, n) # <<>>
         /\ Clean(SubSeq(s, m, n))
<1> DEFINE t == SubSeq(s, m, n)
<1>1. t \in Seq(Token) /\ Len(t) = n - m + 1 /\ n - m + 1 >= 1 /\ Len(s) \in Nat
  OBVIOUS
<1>2. ASSUME NEW j \in 1 .. Len(t) - 1
      PROVE  ~Starts(t, j) /\ ~Ends(t, j)
  <2>1. t[j] = s[m + j - 1] /\ t[j + 1] = s[m + j] /\ m + j - 1 \in 1 .. Len(s) - 1
    BY <1>1
  <2>2. m + j = (m + j - 1) + 1
    OBVIOUS
  <2> QED BY <2>1, <2>2 DEF Clean, Starts, Ends
<1>3. t # <<>>
  BY <1>1
<1> QED BY <1>1, <1>2, <1>3 DEF Clean

(* Behind a whole line, a clean text that starts with a space adds no      *)
(* delimiter.                                                              *)
LEMMA BodyAdded ==
  ASSUME NEW s, Open(s), NEW t \in Seq(Token), Clean(t), t # <<>>, t[1] = "space",
         t[Len(t)] = "newline"
  PROVE  Open(s \o t)
<1>1. s \in Seq(Token) /\ Len(s) \in Nat /\ Len(s) >= 4 /\ s[Len(s)] = "newline"
  BY DEF Open
<1>2. s \o t \in Seq(Token) /\ Len(s \o t) = Len(s) + Len(t) /\ Len(t) \in Nat \ {0}
  BY <1>1
<1>3. Len(s \o t) >= 4 /\ (s \o t)[Len(s \o t)] = "newline"
  BY <1>1, <1>2
<1>4. ASSUME NEW j \in 1 .. Len(s \o t) - 1
      PROVE  (Starts(s \o t, j) => j = 1) /\ ~Ends(s \o t, j)
  <2>1. CASE j < Len(s)
    <3>1. (s \o t)[j] = s[j] /\ (s \o t)[j + 1] = s[j + 1] /\ j \in 1 .. Len(s) - 1
      BY <1>1, <1>2, <2>1
    <3> QED BY <3>1 DEF Open, Starts, Ends
  <2>2. CASE j = Len(s)
    <3>1. (s \o t)[j] = "newline"
      BY <1>1, <1>2, <2>2
    <3> QED BY <3>1 DEF Starts, Ends
  <2>3. CASE j > Len(s)
    <3> DEFINE k == j - Len(s)
    <3>1. (s \o t)[j] = t[k] /\ (s \o t)[j + 1] = t[k + 1] /\ k \in 1 .. Len(t) - 1
      BY <1>1, <1>2, <2>3
    <3> QED BY <3>1 DEF Clean, Starts, Ends
  <2> QED BY <1>1, <1>2, <2>1, <2>2, <2>3
<1> QED BY <1>2, <1>3, <1>4 DEF Open

(* Every token of the printer's own text is one.                           *)
LEMMA OwnTokens ==
  {"*", "/", "space", "newline", "<pre>", "</pre>"} \subseteq Token
BY CharAssumption DEF Token

-----------------------------------------------------------------------------
LEMMA InitIInv == Init => IInv
<1> SUFFICES ASSUME Init PROVE IInv
  OBVIOUS
<1>1. comments \in Seq(Char)
  BY CommentsType DEF Init
<1>2. out \in Seq(Token) /\ Len(out) = 4 /\ out[1] = "/" /\ out[2] = "*"
      /\ out[3] = "*" /\ out[4] = "newline"
  BY OwnTokens DEF Init
<1>3. escaped \in Seq(Token) /\ Len(escaped) = 0 /\ escaped = <<>>
      /\ lines \in Seq(Seq(Token)) /\ Len(lines) = 0
  BY DEF Init
<1>4. TypeOK
  BY <1>1, <1>2, <1>3, CharAssumption DEF Init, TypeOK
<1>5. Clean(escaped) /\ PrevKnown /\ LinesClean
  BY <1>3 DEF Clean, PrevKnown, LinesClean
<1>6. Open(out)
  BY <1>2 DEF Open, Starts, Ends
<1>7. OutOpen /\ ClosedByFooter
  BY <1>6 DEF Open, ClosedByFooter, OutOpen, Starts, Ends
<1> QED BY <1>4, <1>5, <1>7 DEF IInv

LEMMA NextIInv == IInv /\ [Next]_vars => IInv'
<1> SUFFICES ASSUME IInv, [Next]_vars PROVE IInv'
  OBVIOUS
<1> USE DEF IInv
<1>1. CASE EscapeKotlindoc
  <2> DEFINE c == comments[i]
             e == Escape(c, prev)
  <2>1. c \in Char /\ prev \in Char /\ escaped \in Seq(Token)
    BY <1>1 DEF EscapeKotlindoc, TypeOK
  <2>2. /\ e \in Token
        /\ e = "*" => c = "*" /\ prev # "/"
        /\ e = "/" => c = "/" /\ prev # "*"
    BY <2>1, EscapeResult
  <2>3. escaped' = Append(escaped, e) /\ prev' = c /\ pc = "escape"
    BY <1>1 DEF EscapeKotlindoc
  <2>4. escaped # <<>> => ~(escaped[Len(escaped)] = "/" /\ e = "*")
                          /\ ~(escaped[Len(escaped)] = "*" /\ e = "/")
    BY <2>2, <2>3 DEF PrevKnown
  <2> HIDE DEF c, e
  <2>5. escaped' \in Seq(Token) /\ Clean(escaped')
    BY <2>1, <2>2, <2>3, <2>4, CleanAppend
  <2>6. escaped'[Len(escaped')] = e
    BY <2>1, <2>2, <2>3
  <2>7. PrevKnown'
    BY <2>2, <2>3, <2>6 DEF PrevKnown
  <2>8. TypeOK'
    BY <1>1, <2>1, <2>3, <2>5 DEF EscapeKotlindoc, TypeOK
  <2>9. LinesClean' /\ OutOpen' /\ ClosedByFooter'
    BY <1>1 DEF EscapeKotlindoc, LinesClean, OutOpen, ClosedByFooter
  <2> QED BY <2>5, <2>7, <2>8, <2>9
<1>2. CASE Escaped
  BY <1>2 DEF Escaped, TypeOK, PrevKnown, LinesClean, OutOpen, ClosedByFooter
<1>3. CASE SkipNewline
  BY <1>3 DEF SkipNewline, TypeOK, PrevKnown, LinesClean, OutOpen, ClosedByFooter
<1>4. CASE Word
  <2>1. PICK q \in i + 1 .. Len(escaped) + 1 :
          lines' = Append(lines, SubSeq(escaped, i, q - 1)) /\ i' = q
    BY <1>4 DEF Word
  <2> DEFINE line == SubSeq(escaped, i, q - 1)
  <2>2. escaped \in Seq(Token) /\ i \in 1 .. Len(escaped) /\ q - 1 \in i .. Len(escaped)
        /\ Len(escaped) \in Nat /\ lines \in Seq(Seq(Token))
    BY <1>4 DEF Word, TypeOK
  <2>3. line \in Seq(Token) /\ line # <<>> /\ Clean(line)
    BY <2>2, CleanSubSeq
  <2> HIDE DEF line
  <2>4. lines' \in Seq(Seq(Token)) /\ Len(lines') = Len(lines) + 1
        /\ lines'[Len(lines) + 1] = line
        /\ \A k \in 1 .. Len(lines) : lines'[k] = lines[k]
    BY <2>1, <2>2, <2>3 DEF line
  <2>5. LinesClean'
    <3> SUFFICES ASSUME NEW k \in 1 .. Len(lines')
                 PROVE  lines'[k] # <<>> /\ Clean(lines'[k])
      BY DEF LinesClean
    <3>1. CASE k = Len(lines) + 1
      BY <3>1, <2>3, <2>4
    <3>2. CASE k # Len(lines) + 1
      <4>1. k \in 1 .. Len(lines)
        BY <3>2, <2>2, <2>4
      <4> QED BY <4>1, <2>4 DEF LinesClean
    <3> QED BY <3>1, <3>2
  <2>6. TypeOK'
    BY <1>4, <2>1, <2>2, <2>4 DEF Word, TypeOK
  <2>7. Clean(escaped)' /\ PrevKnown' /\ OutOpen' /\ ClosedByFooter'
    BY <1>4 DEF Word, PrevKnown, OutOpen, ClosedByFooter
  <2> QED BY <2>5, <2>6, <2>7
<1>5. CASE Split
  <2>1. OpenPre \in Seq(Token) /\ Clean(OpenPre) /\ OpenPre # <<>> /\ OpenPre[1] = "space"
        /\ OpenPre[Len(OpenPre)] = "newline"
    <3>1. OpenPre \in Seq(Token) /\ Len(OpenPre) = 5
          /\ OpenPre[1] = "space" /\ OpenPre[2] = "*" /\ OpenPre[3] = "space"
          /\ OpenPre[4] = "<pre>" /\ OpenPre[5] = "newline"
      BY OwnTokens DEF OpenPre
    <3>2. Clean(OpenPre)
      BY <3>1 DEF Clean, Starts, Ends
    <3> QED BY <3>1, <3>2
  <2>2. Open(out) /\ pc' # "done"
    BY <1>5 DEF Split, OutOpen
  <2>3. Open(out')
    <3>1. CASE lines = <<>>
      BY <1>5, <3>1, <2>2 DEF Split
    <3>2. CASE lines # <<>>
      BY <1>5, <3>2, <2>1, <2>2, BodyAdded DEF Split
    <3> QED BY <3>1, <3>2
  <2>4. out' \in Seq(Token) /\ ClosedByFooter' /\ OutOpen'
    BY <2>3 DEF Open, ClosedByFooter, OutOpen, Starts, Ends
  <2>5. TypeOK' /\ Clean(escaped)' /\ PrevKnown' /\ LinesClean'
    BY <1>5, <2>4 DEF Split, TypeOK, PrevKnown, LinesClean
  <2> QED BY <2>4, <2>5
<1>6. CASE WriteLine
  <2> DEFINE line == lines[i]
             rest == Append(line, "newline")
             t == Leader(line) \o rest
  <2>1. line \in Seq(Token) /\ line # <<>> /\ Clean(line) /\ Len(line) \in Nat \ {0}
    BY <1>6 DEF WriteLine, TypeOK, LinesClean
  <2>2. "newline" \in Token
    BY CharAssumption DEF Token
  <2> HIDE DEF line
  <2>3. rest \in Seq(Token) /\ Clean(rest)
    BY <2>1, <2>2, CleanAppend
  <2>4. rest # <<>> /\ rest[1] = line[1] /\ rest[Len(rest)] = "newline"
    BY <2>1, <2>2
  <2>5. Leader(line) \in Seq(Token) /\ Clean(Leader(line)) /\ Leader(line) # <<>>
        /\ Leader(line)[1] = "space"
    <3>1. CASE line[1] = "/"
      <4>1. Leader(line) \in Seq(Token) /\ Len(Leader(line)) = 3
            /\ Leader(line)[1] = "space" /\ Leader(line)[2] = "*"
            /\ Leader(line)[3] = "space"
        BY <3>1, OwnTokens DEF Leader
      <4> QED BY <4>1 DEF Clean, Starts, Ends
    <3>2. CASE line[1] # "/"
      <4>1. Leader(line) \in Seq(Token) /\ Len(Leader(line)) = 2
            /\ Leader(line)[1] = "space" /\ Leader(line)[2] = "*"
        BY <3>2, OwnTokens DEF Leader
      <4> QED BY <4>1 DEF Clean, Starts, Ends
    <3> QED BY <3>1, <3>2
  <2>6. /\ Leader(line)[Len(Leader(line))] # "/"
        /\ line[1] = "/" => Leader(line)[Len(Leader(line))] = "space"
    BY DEF Leader
  <2> HIDE DEF rest
  <2>7. t \in Seq(Token) /\ t # <<>> /\ Clean(t)
    BY <2>3, <2>4, <2>5, <2>6, CleanConcat
  <2>8. t[1] = "space" /\ t[Len(t)] = "newline"
    BY <2>3, <2>4, <2>5
  <2>9. out' = out \o t /\ Open(out)
    BY <1>6 DEF WriteLine, line, rest, OutOpen
  <2> HIDE DEF t
  <2>10. Open(out')
    BY <2>7, <2>8, <2>9, BodyAdded
  <2>11. out' \in Seq(Token) /\ ClosedByFooter' /\ OutOpen'
    BY <2>10 DEF Open, ClosedByFooter, OutOpen, Starts, Ends
  <2>12. TypeOK' /\ Clean(escaped)' /\ PrevKnown' /\ LinesClean'
    BY <1>6, <2>11 DEF WriteLine, TypeOK, PrevKnown, LinesClean
  <2> QED BY <2>11, <2>12
<1>7. CASE WriteDocCommentBody
  <2>1. ClosePre \in Seq(Token) /\ Clean(ClosePre) /\ ClosePre # <<>> /\ ClosePre[1] = "space"
        /\ ClosePre[Len(ClosePre)] = "newline"
    <3>1. ClosePre \in Seq(Token) /\ Len(ClosePre) = 5
          /\ ClosePre[1] = "space" /\ ClosePre[2] = "*" /\ ClosePre[3] = "space"
          /\ ClosePre[4] = "</pre>" /\ ClosePre[5] = "newline"
      BY OwnTokens DEF ClosePre
    <3>2. Clean(ClosePre)
      BY <3>1 DEF Clean, Starts, Ends
    <3> QED BY <3>1, <3>2
  <2>2. Open(out')
    BY <1>7, <2>1, BodyAdded DEF WriteDocCommentBody, OutOpen
  <2>3. out' \in Seq(Token) /\ ClosedByFooter' /\ OutOpen'
    BY <2>2 DEF Open, ClosedByFooter, OutOpen, Starts, Ends
  <2>4. TypeOK' /\ Clean(escaped)' /\ PrevKnown' /\ LinesClean'
    BY <1>7, <2>3 DEF WriteDocCommentBody, TypeOK, PrevKnown, LinesClean
  <2> QED BY <2>3, <2>4
<1>8. CASE Footer
  <2> DEFINE n == Len(out)
  <2>1. out \in Seq(Token) /\ n \in Nat /\ n >= 4 /\ out[n] = "newline"
    BY <1>8 DEF Footer, OutOpen, Open
  <2>2. out' \in Seq(Token) /\ Len(out') = n + 4
        /\ out'[n + 1] = "space" /\ out'[n + 2] = "*" /\ out'[n + 3] = "/"
        /\ out'[n + 4] = "newline" /\ \A k \in 1 .. n : out'[k] = out[k]
    BY <1>8, <2>1, OwnTokens DEF Footer
  <2>3. OutOpen'
    BY <1>8 DEF Footer, OutOpen
  <2>4. ClosedByFooter'
    <3> SUFFICES ASSUME NEW j \in 1 .. Len(out') - 1
                 PROVE  /\ Starts(out', j) => j = 1
                        /\ Ends(out', j) => pc' = "done" /\ j = Len(out') - 2
      BY DEF ClosedByFooter
    <3>1. CASE j < n
      <4>1. j \in 1 .. n - 1 /\ out'[j] = out[j] /\ out'[j + 1] = out[j + 1]
        BY <3>1, <2>1, <2>2
      <4> QED BY <1>8, <4>1 DEF ClosedByFooter, Starts, Ends, Footer
    <3>2. CASE j \in {n, n + 1, n + 2, n + 3}
      <4>1. pc' = "done"
        BY <1>8 DEF Footer
      <4> QED BY <3>2, <4>1, <2>1, <2>2 DEF Starts, Ends
    <3> QED BY <3>1, <3>2, <2>1, <2>2
  <2>5. TypeOK' /\ Clean(escaped)' /\ PrevKnown' /\ LinesClean'
    BY <1>8, <2>2 DEF Footer, TypeOK, PrevKnown, LinesClean
  <2> QED BY <2>3, <2>4, <2>5
<1>9. CASE UNCHANGED vars
  BY <1>9 DEF vars, TypeOK, PrevKnown, LinesClean, OutOpen, ClosedByFooter
<1> QED
  BY <1>1, <1>2, <1>3, <1>4, <1>5, <1>6, <1>7, <1>8, <1>9 DEF Next

(* Whatever the comment of a service or a method is, the doc comment       *)
(* printed for it holds no comment delimiter but those of its header and   *)
(* its footer, and only texts of the printer's alphabet are printed.       *)
THEOREM DocCommentClosed == Spec => [](TypeOK /\ ClosedByFooter)
<1>1. IInv => TypeOK /\ ClosedByFooter
  BY DEF IInv
<1> QED
  BY InitIInv, NextIInv, <1>1, PTL DEF Spec

-----------------------------------------------------------------------------
(* The text is kept.                                                       *)

(* Every character so far is escaped, and nothing else became a newline.   *)
CharactersKept ==
  /\ Len(escaped) = IF pc = "escape" THEN i - 1 ELSE Len(comments)
  /\ Len(escaped) <= Len(comments)
  /\ \A j \in 1 .. Len(escaped) :
       /\ Decode(escaped[j]) = comments[j]
       /\ escaped[j] = "newline" <=> comments[j] = "newline"

(* start tells where the lines are in the comment, which are those before  *)
(* position n.                                                             *)
Located(start, n) ==
  /\ start \in [DOMAIN lines -> LineStarts]
  /\ \A k, l \in DOMAIN lines : k < l => start[k] < start[l]
  /\ \A k \in DOMAIN lines : start[k] < n /\ Shows(lines[k], start[k])
  /\ \A j \in LineStarts : j < n => \E k \in DOMAIN lines : start[k] = j

(* Split is never inside of a line.                                        *)
BetweenLines ==
  /\ i <= Len(escaped) + 1
  /\ i = 1 \/ i > Len(escaped) \/ escaped[i] = "newline" \/ escaped[i - 1] = "newline"

LinesKept ==
  /\ pc = "escape" => lines = <<>>
  /\ pc = "split" => BetweenLines /\ \E start : Located(start, i)
  /\ pc \in {"body", "footer", "done"} => \E start : Located(start, Len(comments) + 1)

(* What EscapeKotlindoc makes of a character is shown as that character.   *)
LEMMA EscapeDecoded ==
  ASSUME NEW c \in Char, NEW last
  PROVE  /\ Decode(Escape(c, last)) = c
         /\ Escape(c, last) = "newline" <=> c = "newline"
<1>1. /\ "&#42;" \notin Char /\ "&#47;" \notin Char /\ "&#64;" \notin Char
      /\ "&lt;" \notin Char /\ "&gt;" \notin Char /\ "&amp;" \notin Char
      /\ "&#92;" \notin Char
  BY CharAssumption
<1> QED BY <1>1 DEF Escape, Decode

LEMMA CharactersInit == Init => CharactersKept
<1> SUFFICES ASSUME Init PROVE CharactersKept
  OBVIOUS
<1>1. Len(escaped) = 0 /\ pc = "escape" /\ i = 1 /\ Len(comments) \in Nat
  BY CommentsType DEF Init
<1> QED BY <1>1 DEF CharactersKept

LEMMA CharactersNext == TypeOK /\ CharactersKept /\ [Next]_vars => CharactersKept'
<1> SUFFICES ASSUME TypeOK, CharactersKept, [Next]_vars PROVE CharactersKept'
  OBVIOUS
<1>1. CASE EscapeKotlindoc
  <2> DEFINE c == comments[i]
             e == Escape(c, prev)
  <2>1. c \in Char /\ escaped \in Seq(Token) /\ i \in Nat /\ Len(escaped) = i - 1
    BY <1>1 DEF EscapeKotlindoc, TypeOK, CharactersKept
  <2>2. e \in Token /\ Decode(e) = c /\ (e = "newline" <=> c = "newline")
    BY <2>1, EscapeDecoded, EscapeResult
  <2>3. escaped' = Append(escaped, e) /\ i' = i + 1 /\ pc' = "escape" /\ pc = "escape"
        /\ comments' = comments
    BY <1>1 DEF EscapeKotlindoc
  <2> HIDE DEF e
  <2>4. Len(escaped') = i /\ escaped'[i] = e
        /\ \A j \in 1 .. i - 1 : escaped'[j] = escaped[j]
    BY <2>1, <2>2, <2>3
  <2>5. ASSUME NEW j \in 1 .. i
        PROVE  /\ Decode(escaped'[j]) = comments[j]
               /\ escaped'[j] = "newline" <=> comments[j] = "newline"
    <3>1. CASE j = i
      BY <3>1, <2>2, <2>4
    <3>2. CASE j # i
      <4>1. j \in 1 .. Len(escaped) /\ escaped'[j] = escaped[j]
        BY <3>2, <2>1, <2>4
      <4> QED BY <4>1 DEF CharactersKept
    <3> QED BY <3>1, <3>2
  <2>6. i <= Len(comments)
    BY <1>1 DEF EscapeKotlindoc
  <2> QED BY <2>1, <2>3, <2>4, <2>5, <2>6 DEF CharactersKept
<1>2. CASE Escaped
  <2>1. Len(escaped) = Len(comments)
    BY <1>2 DEF Escaped, TypeOK, CharactersKept
  <2> QED BY <1>2, <2>1 DEF Escaped, CharactersKept
<1>3. CASE \/ SkipNewline \/ Word \/ Split \/ WriteLine \/ WriteDocCommentBody
           \/ Footer \/ UNCHANGED vars
  BY <1>3 DEF SkipNewline, Word, Split, WriteLine, WriteDocCommentBody, Footer, vars,
              CharactersKept
<1> QED BY <1>1, <1>2, <1>3 DEF Next

LEMMA LinesInit == Init => LinesKept
BY DEF Init, LinesKept

LEMMA WordLocated ==
  ASSUME TypeOK, CharactersKept, BetweenLines, Word, NEW start, Located(start, i)
  PROVE  BetweenLines' /\ \E begin : Located(begin, i)'
<1>1. PICK q \in i + 1 .. Len(escaped) + 1 :
        EndsWord(q) /\ lines' = Append(lines, SubSeq(escaped, i, q - 1)) /\ i' = q
  BY DEF Word
<1> DEFINE line == SubSeq(escaped, i, q - 1)
           m == Len(lines)
<1>2. /\ escaped \in Seq(Token) /\ comments \in Seq(Char) /\ lines \in Seq(Seq(Token))
      /\ Len(escaped) = Len(comments) /\ Len(escaped) \in Nat /\ m \in Nat
      /\ i \in 1 .. Len(escaped) /\ q \in i + 1 .. Len(escaped) + 1
      /\ escaped' = escaped /\ comments' = comments
  BY DEF Word, TypeOK, CharactersKept
<1>3. line \in Seq(Token) /\ Len(line) = q - i
      /\ \A n \in 1 .. q - i : line[n] = escaped[i + n - 1]
  BY <1>2
<1>4. \A j \in i .. q - 1 : comments[j] # "newline" /\ escaped[j] # "newline"
  BY <1>1, <1>2 DEF EndsWord, CharactersKept
<1>5. q <= Len(escaped) => escaped[q] = "newline" /\ comments[q] = "newline"
  BY <1>1, <1>2 DEF EndsWord, CharactersKept
<1>6. BetweenLines'
  BY <1>1, <1>2, <1>5 DEF BetweenLines
<1> HIDE DEF line
<1>7. /\ lines' \in Seq(Seq(Token)) /\ Len(lines') = m + 1 /\ lines'[m + 1] = line
      /\ \A k \in 1 .. m : lines'[k] = lines[k]
      /\ DOMAIN lines' = 1 .. m + 1 /\ DOMAIN lines = 1 .. m
  BY <1>1, <1>2, <1>3 DEF line
<1> HIDE DEF m
<1>8. i \in LineStarts
  <2>1. comments[i] # "newline" /\ escaped[i] # "newline" /\ i \in DOMAIN comments
    BY <1>2, <1>4
  <2>2. i # 1 => comments[i - 1] = "newline"
    BY <1>2, <2>1 DEF BetweenLines, CharactersKept
  <2> QED BY <2>1, <2>2 DEF LineStarts
<1>9. \A j \in LineStarts : j < q => j <= i
  <2> SUFFICES ASSUME NEW j \in LineStarts, j < q, ~(j <= i)
               PROVE  FALSE
    OBVIOUS
  <2>1. j \in 1 .. Len(comments) /\ j - 1 \in i .. q - 1 /\ j # 1
    BY <1>2 DEF LineStarts
  <2> QED BY <2>1, <1>4 DEF LineStarts
<1>10. Shows(line, i)
  <2>1. i + Len(line) = q /\ Len(line) = q - i /\ DOMAIN line = 1 .. q - i
    BY <1>2, <1>3
  <2>2. ASSUME NEW n \in 1 .. q - i
        PROVE  Decode(line[n]) = comments[i + n - 1] /\ line[n] # "newline"
    <3>1. i + n - 1 \in i .. q - 1 /\ i + n - 1 \in 1 .. Len(escaped)
      BY <1>2
    <3> QED BY <3>1, <1>3, <1>4 DEF CharactersKept
  <2>3. q - 1 <= Len(comments) /\ (q <= Len(comments) => comments[q] = "newline")
    BY <1>2, <1>5
  <2> QED BY <2>1, <2>2, <2>3 DEF Shows
<1>11. PICK begin : begin = [k \in 1 .. m + 1 |-> IF k = m + 1 THEN i ELSE start[k]]
  OBVIOUS
<1>12. \A k \in 1 .. m : start[k] \in LineStarts /\ start[k] < i /\ Shows(lines[k], start[k])
  BY <1>7 DEF Located
<1>13. /\ begin[m + 1] = i /\ \A k \in 1 .. m : begin[k] = start[k]
       /\ begin \in [1 .. m + 1 -> LineStarts]
  <2>1. m \in Nat /\ m + 1 \in 1 .. m + 1 /\ \A k \in 1 .. m : k \in 1 .. m + 1 /\ k # m + 1
    BY <1>2 DEF m
  <2>2. \A k \in 1 .. m + 1 : k # m + 1 => k \in 1 .. m
    BY <2>1
  <2> QED BY <1>8, <1>11, <1>12, <2>1, <2>2
<1>14. ASSUME NEW k \in 1 .. m + 1, NEW l \in 1 .. m + 1, k < l
       PROVE  begin[k] < begin[l]
  <2>1. k \in 1 .. m
    BY <1>2, <1>14 DEF m
  <2>2. CASE l = m + 1
    BY <2>1, <2>2, <1>13, <1>12
  <2>3. CASE l # m + 1
    <3>1. l \in 1 .. m
      BY <1>2, <2>3 DEF m
    <3> QED BY <1>7, <1>13, <1>14, <2>1, <3>1 DEF Located
  <2> QED BY <2>2, <2>3
<1>15. ASSUME NEW k \in 1 .. m + 1
       PROVE  begin[k] < q /\ Shows(lines'[k], begin[k])
  <2>1. CASE k = m + 1
    BY <2>1, <1>2, <1>7, <1>10, <1>13
  <2>2. CASE k # m + 1
    <3>1. k \in 1 .. m
      BY <1>2, <2>2 DEF m
    <3>2. begin[k] = start[k] /\ lines'[k] = lines[k] /\ start[k] < i
      BY <3>1, <1>7, <1>13, <1>12
    <3>3. start[k] \in Nat
      BY <3>1, <1>2, <1>12 DEF LineStarts
    <3> QED BY <3>1, <3>2, <3>3, <1>2, <1>12
  <2> QED BY <2>1, <2>2
<1>16. ASSUME NEW j \in LineStarts, j < q
       PROVE  \E k \in 1 .. m + 1 : begin[k] = j
  <2>1. j <= i /\ j \in Nat
    BY <1>2, <1>9, <1>16 DEF LineStarts
  <2>2. CASE j = i
    <3>1. m + 1 \in 1 .. m + 1
      BY <1>2 DEF m
    <3> QED BY <3>1, <2>2, <1>13
  <2>3. CASE j < i
    <3>1. PICK k \in 1 .. m : start[k] = j
      BY <2>3, <1>7 DEF Located
    <3>2. k \in 1 .. m + 1
      BY <1>2 DEF m
    <3> QED BY <3>1, <3>2, <1>13
  <2> QED BY <1>2, <2>1, <2>2, <2>3
<1>17. LineStarts' = LineStarts
  BY <1>2 DEF LineStarts
<1>18. Located(begin, i)'
  <2>1. \A k \in 1 .. m + 1 : Shows(lines[k], begin[k])'
    BY <1>2, <1>15 DEF Shows
  <2>2. \A k \in 1 .. m + 1 : begin[k] < i'
    BY <1>1, <1>15
  <2>3. (\A k \in DOMAIN lines : begin[k] < i /\ Shows(lines[k], begin[k]))'
    BY <1>7, <2>1, <2>2
  <2>4. \A k, l \in DOMAIN lines' : k < l => begin[k] < begin[l]
    BY <1>7, <1>14
  <2>5. \A j \in LineStarts' : j < i' => \E k \in DOMAIN lines' : begin[k] = j
    BY <1>1, <1>7, <1>16, <1>17
  <2>6. begin \in [DOMAIN lines' -> LineStarts']
    BY <1>7, <1>13, <1>17
  <2> QED BY <2>3, <2>4, <2>5, <2>6 DEF Located
<1> QED BY <1>6, <1>18

LEMMA LinesNext == TypeOK /\ CharactersKept /\ LinesKept /\ [Next]_vars => LinesKept'
<1> SUFFICES ASSUME TypeOK, CharactersKept, LinesKept, [Next]_vars
             PROVE  LinesKept'
  OBVIOUS
<1>1. CASE EscapeKotlindoc
  BY <1>1 DEF EscapeKotlindoc, LinesKept
<1>2. CASE Escaped
  <2>1. lines' = <<>> /\ pc' = "split" /\ i' = 1 /\ DOMAIN lines' = {}
    BY <1>2 DEF Escaped, LinesKept
  <2>2. BetweenLines'
    BY <1>2, <2>1 DEF Escaped, BetweenLines, TypeOK
  <2>3. PICK start : start = [k \in {} |-> 1]
    OBVIOUS
  <2>4. LineStarts' \subseteq Nat \ {0}
    BY <1>2 DEF Escaped, TypeOK, LineStarts
  <2>5. start \in [DOMAIN lines' -> LineStarts']
    BY <2>1, <2>3
  <2>6. \A j \in LineStarts' : ~(j < i')
    BY <2>1, <2>4
  <2>7. Located(start, i)'
    BY <2>1, <2>5, <2>6 DEF Located
  <2> QED BY <2>1, <2>2, <2>7 DEF LinesKept
<1>3. CASE SkipNewline
  <2>1. PICK start : Located(start, i)
    BY <1>3 DEF SkipNewline, LinesKept
  <2>2. /\ i \in 1 .. Len(escaped) /\ i' = i + 1 /\ pc' = "split"
        /\ UNCHANGED <<comments, lines, escaped>>
        /\ escaped[i] = "newline" /\ comments[i] = "newline"
    BY <1>3 DEF SkipNewline, TypeOK, CharactersKept
  <2>3. BetweenLines'
    BY <2>2 DEF BetweenLines, TypeOK
  <2>4. \A j \in LineStarts : j \in Nat /\ j # i
    BY <2>2 DEF LineStarts, TypeOK
  <2>5. Located(start, i + 1)
    <3>1. start \in [DOMAIN lines -> LineStarts]
      BY <2>1 DEF Located
    <3>2. ASSUME NEW k \in DOMAIN lines
          PROVE  start[k] < i + 1
      <4>1. start[k] \in Nat /\ start[k] < i
        BY <2>1, <2>4, <3>1 DEF Located
      <4> QED BY <4>1, <2>2
    <3>3. \A j \in LineStarts : j < i + 1 => j < i
      BY <2>2, <2>4
    <3> QED BY <2>1, <3>1, <3>2, <3>3 DEF Located
  <2>6. Located(start, i)'
    BY <2>2, <2>5 DEF Located, LineStarts, Shows
  <2> QED BY <2>2, <2>3, <2>6 DEF LinesKept
<1>4. CASE Word
  <2>1. PICK start : BetweenLines /\ Located(start, i)
    BY <1>4 DEF Word, LinesKept
  <2>2. BetweenLines' /\ \E begin : Located(begin, i)'
    BY <1>4, <2>1, WordLocated
  <2> QED BY <1>4, <2>2 DEF Word, LinesKept
<1>5. CASE Split
  <2>1. PICK start : Located(start, i)
    BY <1>5 DEF Split, LinesKept
  <2>2. i = Len(comments) + 1 /\ pc' \in {"body", "footer"} /\ UNCHANGED <<comments, lines>>
    BY <1>5 DEF Split, LinesKept, BetweenLines, CharactersKept, TypeOK
  <2>3. Located(start, Len(comments) + 1)
    BY <2>1, <2>2
  <2>4. Located(start, Len(comments) + 1)'
    BY <2>2, <2>3 DEF Located, LineStarts, Shows
  <2> QED BY <2>2, <2>4 DEF LinesKept
<1>6. CASE WriteLine \/ WriteDocCommentBody \/ Footer
  <2>1. pc \in {"body", "footer"} /\ pc' \in {"body", "footer", "done"}
        /\ UNCHANGED <<comments, lines>>
    BY <1>6 DEF WriteLine, WriteDocCommentBody, Footer
  <2>2. PICK start : Located(start, Len(comments) + 1)
    BY <2>1 DEF LinesKept
  <2>3. Located(start, Len(comments) + 1)'
    BY <2>1, <2>2 DEF Located, LineStarts, Shows
  <2> QED BY <2>1, <2>3 DEF LinesKept
<1>7. CASE UNCHANGED vars
  <2>1. UNCHANGED <<comments, lines, escaped, pc, i>>
    BY <1>7 DEF vars
  <2>2. ASSUME NEW start, Located(start, i)
        PROVE  Located(start, i)'
    BY <2>1, <2>2 DEF Located, LineStarts, Shows
  <2>3. ASSUME NEW start, Located(start, Len(comments) + 1)
        PROVE  Located(start, Len(comments) + 1)'
    BY <2>1, <2>3 DEF Located, LineStarts, Shows
  <2>4. BetweenLines => BetweenLines'
    BY <2>1 DEF BetweenLines
  <2> QED BY <2>1, <2>2, <2>3, <2>4 DEF LinesKept
<1> QED
  BY <1>1, <1>2, <1>3, <1>4, <1>5, <1>6, <1>7 DEF Next

(* Whatever the comment is, the lines printed for it are, entities read as *)
(* what they stand for, all its lines that are not empty, whole and in     *)
(* their order: escaping and splitting lose, add and move no character.    *)
THEOREM DocCommentText == Spec => []TextKept
<1>1. TypeOK /\ LinesKept => TextKept
  <2> SUFFICES ASSUME TypeOK, LinesKept, pc \in {"body", "footer", "done"}
               PROVE  \E start \in [DOMAIN lines -> LineStarts] :
                        /\ \A k, l \in DOMAIN lines : k < l => start[k] < start[l]
                        /\ \A j \in LineStarts : \E k \in DOMAIN lines : start[k] = j
                        /\ \A k \in DOMAIN lines : Shows(lines[k], start[k])
    BY DEF TextKept
  <2>1. PICK start : Located(start, Len(comments) + 1)
    BY DEF LinesKept
  <2>2. \A j \in LineStarts : j < Len(comments) + 1
    BY DEF LineStarts, TypeOK
  <2> QED BY <2>1, <2>2 DEF Located
<1>2. Init => IInv /\ CharactersKept /\ LinesKept
  BY InitIInv, CharactersInit, LinesInit
<1>3. IInv /\ CharactersKept /\ LinesKept /\ [Next]_vars
      => (IInv /\ CharactersKept /\ LinesKept)'
  BY NextIInv, CharactersNext, LinesNext DEF IInv
<1>4. IInv /\ CharactersKept /\ LinesKept => TextKept
  BY <1>1 DEF IInv
<1> QED
  BY <1>2, <1>3, <1>4, PTL DEF Spec
=============================================================================
