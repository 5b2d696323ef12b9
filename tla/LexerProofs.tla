------------------------------ MODULE LexerProofs ------------------------------
(***************************************************************************)
(* Texts of every length. The lexer: each branch of next_token moves on by *)
(* at least one character and never past the end, so the tokens cover the  *)
(* text; paths follow their directives; comments and strings end where the *)
(* automaton of Scan sees them end. The conversions of line_index.rs, by   *)
(* what a position counts: lines are the ranks of line starts, characters  *)
(* the units before them. What is built on both: the semantic tokens, the  *)
(* ranges of the compiler and the lines of a suppression.                  *)
(***************************************************************************)
EXTENDS TextFeatures, SequenceTheorems, FiniteSetTheorems, WellFoundedInduction, TLAPS

TokenKinds == {"whitespace", "path", "comment", "blockComment", "string", "directive",
               "invalid", "integer", "real", "imaginary", "identifier", "type",
               "legacy", "symbol"}
ErrorKinds == {"unterminatedComment", "unterminatedString", "invalidDirective",
               "malformedNumber", "invalidCharacter"}
TokenRecord == [kind : TokenKinds \cup {"eof"}, start : Nat, end : Nat]
ErrorRecord == [kind : ErrorKinds, start : Nat, end : Nat]

LexerInv ==
  /\ text \in Seq(STRING)
  /\ expectPath \in BOOLEAN
  /\ tokens \in Seq(TokenRecord)
  /\ diagnostics \in Seq(ErrorRecord)
  /\ TokensCoverText
  /\ \A n \in DOMAIN tokens : tokens[n].start \in 1 .. tokens[n].end /\ tokens[n].end <= place

(* A directive waits: only blanks of its line lie between it and a place.   *)
Waits(n, i) == \A k \in tokens[n].end .. i - 1 : text[k] \in Whitespace \ Newlines
PathInv ==
  /\ LexerInv
  /\ expectPath <=> \E n \in DOMAIN tokens : tokens[n].kind = "directive" /\ Waits(n, place)
  /\ PathsFollowDirectives

(* What every branch of next_token does.                                    *)
ReadsBlanks(kind, end) ==
  /\ kind = "whitespace"
  /\ \A k \in place .. end - 1 : text[k] \in Whitespace
  /\ expectPath' = (expectPath /\ \A k \in place .. end - 1 : text[k] \notin Newlines)
ReadsOther(kind) ==
  /\ kind # "whitespace" /\ text[place] \notin Whitespace
  /\ kind = "path" <=> expectPath
  /\ expectPath' = (kind = "directive")
Reads(kind, end) ==
  /\ Push(kind, end) /\ text' = text
  /\ diagnostics' = diagnostics \/ \E error \in ErrorKinds : Report(error, end)
  /\ ReadsBlanks(kind, end) \/ ReadsOther(kind)

-----------------------------------------------------------------------------
(* The least of a set of places, and the runs of characters it ends. *)

LEMMA LeastIsLeast ==
  ASSUME NEW S \in SUBSET Nat, S # {}
  PROVE  Least(S) \in S /\ \A n \in S : Least(S) <= n
<1> DEFINE Less == {p \in Nat \X Nat : p[1] < p[2]}
<1>1. IsWellFoundedOn(Less, Nat)
  BY NatLessThanWellFounded, Zenon DEF OpToRel
<1>2. \E m \in S : \A n \in S : <<n, m>> \notin Less
  <2> HIDE DEF Less
  <2> QED BY <1>1, WFMin
<1>3. PICK m \in S : \A n \in S : <<n, m>> \notin Less
  BY <1>2
<1>4. ASSUME NEW n \in S, n < m PROVE FALSE
  <2>1. n \in Nat /\ m \in Nat /\ <<n, m>> \in Nat \X Nat
    OBVIOUS
  <2>2. <<n, m>>[1] = n /\ <<n, m>>[2] = m
    OBVIOUS
  <2>3. <<n, m>> \in Less
    <3> DEFINE p == <<n, m>>
    <3>1. p \in Nat \X Nat /\ p[1] < p[2]
      BY <2>1, <2>2, <1>4
    <3> HIDE DEF p
    <3>2. p \in Less
      BY <3>1
    <3> QED BY <3>2 DEF p
  <2> QED BY <2>3, <1>3
<1>5. \A n \in S : m <= n
  BY <1>4
<1> QED
  BY <1>5 DEF Least

LEMMA RunEnds ==
  ASSUME text \in Seq(STRING), NEW i \in 1 .. End, NEW S
  PROVE  /\ SkipWhile(i, S) \in i .. End /\ SkipUntil(i, S) \in i .. End
         /\ i < End /\ text[i] \in S => SkipWhile(i, S) \in i + 1 .. End
         /\ i < End /\ text[i] \notin S => SkipUntil(i, S) \in i + 1 .. End
         /\ \A k \in i .. SkipWhile(i, S) - 1 : text[k] \in S
<1> DEFINE while == {j \in i .. End : j < End => text[j] \notin S}
           until == {j \in i .. End : j < End => text[j] \in S}
<1>1. End \in Nat /\ i \in Nat
  BY DEF End
<1>2. /\ while \in SUBSET Nat /\ until \in SUBSET Nat
      /\ End \in while /\ End \in until
  BY <1>1
<1>3. /\ Least(while) \in while /\ Least(until) \in until
      /\ \A n \in while : Least(while) <= n
  <2> HIDE DEF while, until
  <2> QED BY <1>2, LeastIsLeast
<1>4. /\ SkipWhile(i, S) \in while /\ SkipUntil(i, S) \in until
      /\ \A n \in while : SkipWhile(i, S) <= n
  BY <1>3 DEF SkipWhile, SkipUntil
<1>5. \A k \in i .. SkipWhile(i, S) - 1 : text[k] \in S
  BY <1>1, <1>4
<1> QED
  BY <1>1, <1>4, <1>5

-----------------------------------------------------------------------------
(* Every branch reads at least one character and none past the end. *)

LEMMA BlanksAreRead ==
  ASSUME LexerInv, LexWhitespace, UNCHANGED text
  PROVE  \E end \in place + 1 .. End : Reads("whitespace", end)
<1> DEFINE end == SkipWhile(place, Whitespace)
<1>1. place \in 1 .. End /\ place < End /\ text[place] \in Whitespace
  BY DEF LexerInv, TokensCoverText, LexWhitespace, At, Whitespace, Newlines, End
<1>2. end \in place + 1 .. End /\ \A k \in place .. end - 1 : text[k] \in Whitespace
  BY <1>1, RunEnds DEF LexerInv
<1>3. Reads("whitespace", end)
  BY <1>2, Zenon DEF Reads, ReadsBlanks, LexWhitespace
<1> QED
  BY <1>2, <1>3

LEMMA PathIsRead ==
  ASSUME LexerInv, LexIncludePath, UNCHANGED text
  PROVE  \E end \in place + 1 .. End : Reads("path", end)
<1>1. place \in 1 .. End /\ place < End /\ text[place] \notin Whitespace /\ End \in Nat
  BY DEF LexerInv, TokensCoverText, LexIncludePath, At, End
<1>2. PathEnd \in place + 1 .. End
  <2>1. CASE At(place) # "quote"
    BY <2>1, <1>1, RunEnds DEF LexerInv, PathEnd
  <2>2. CASE At(place) = "quote"
    <3> DEFINE close == SkipUntil(place + 1, {"quote"})
    <3>0. place + 1 \in 1 .. End
      BY <1>1
    <3>1. close \in place + 1 .. End
      BY <3>0, RunEnds DEF LexerInv
    <3> HIDE DEF close
    <3>2. PathEnd = IF close < End THEN close + 1 ELSE End
      BY <2>2 DEF PathEnd, close
    <3> QED
      BY <3>1, <3>2, <1>1
  <2> QED
    BY <2>1, <2>2
<1>3. Reads("path", PathEnd)
  BY <1>1 DEF Reads, ReadsOther, LexIncludePath
<1> QED
  BY <1>2, <1>3

(* What the branches under Plain have in common.                            *)
LEMMA PlainIsOther ==
  ASSUME LexerInv, Plain, UNCHANGED text, NEW kind \in TokenKinds, NEW end,
         Push(kind, end), kind \notin {"whitespace", "path"},
         expectPath' = (kind = "directive"),
         diagnostics' = diagnostics \/ \E error \in ErrorKinds : Report(error, end)
  PROVE  Reads(kind, end)
<1>1. text[place] \notin Whitespace /\ ~expectPath
  BY DEF Plain, At
<1> QED
  BY <1>1 DEF Reads, ReadsOther

LEMMA PlainKeepsWaiting ==
  ASSUME LexerInv, Plain, UNCHANGED <<text, expectPath>>,
         NEW kind \in TokenKinds \ {"whitespace", "path", "directive"}, NEW end,
         Push(kind, end),
         diagnostics' = diagnostics \/ \E error \in ErrorKinds : Report(error, end)
  PROVE  Reads(kind, end)
<1>1. expectPath' = FALSE
  BY Zenon DEF LexerInv, Plain
<1>2. expectPath' = (kind = "directive")
  <2>1. (kind = "directive") = FALSE
    OBVIOUS
  <2> QED BY <2>1, <1>1
<1> QED
  BY <1>2, PlainIsOther

LEMMA PlaceIsRead ==
  ASSUME LexerInv, Plain
  PROVE  place \in 1 .. End /\ place < End /\ At(place) = text[place] /\ End \in Nat
BY DEF LexerInv, TokensCoverText, Plain, At, End

LEMMA LineCommentIsRead ==
  ASSUME LexerInv, LexLineComment, UNCHANGED text
  PROVE  \E end \in place + 1 .. End : Reads("comment", end)
<1> DEFINE end == SkipUntil(place + 1, Newlines)
<1>1. end \in place + 1 .. End
  <2>1. place + 1 \in 1 .. End /\ text \in Seq(STRING)
    BY PlaceIsRead DEF LexerInv, LexLineComment
  <2> QED BY <2>1, RunEnds
<1>2. Push("comment", end) /\ Plain /\ expectPath' = expectPath
  BY DEF LexLineComment
<1>3. Reads("comment", end)
  <2> HIDE DEF end
  <2> QED BY <1>2, PlainKeepsWaiting DEF TokenKinds, LexLineComment
<1> QED
  BY <1>1, <1>3

LEMMA BlockCommentIsRead ==
  ASSUME LexerInv, LexBlockComment, UNCHANGED text
  PROVE  \E end \in place + 1 .. End : Reads("blockComment", end)
<1>1. place \in 1 .. End /\ place < End /\ End \in Nat /\ Plain /\ expectPath' = expectPath
  BY PlaceIsRead DEF LexBlockComment
<1>2. CASE BlockEnds = {}
  <2>1. Push("blockComment", End) /\ Report("unterminatedComment", End)
    BY <1>2 DEF LexBlockComment
  <2>2. Reads("blockComment", End)
    BY <1>1, <2>1, PlainKeepsWaiting DEF TokenKinds, ErrorKinds
  <2> QED
    BY <1>1, <2>2
<1>3. CASE BlockEnds # {}
  <2>1. BlockEnds \in SUBSET Nat /\ BlockEnds \subseteq place + 1 .. End
    BY <1>1 DEF BlockEnds
  <2>2. Least(BlockEnds) \in place + 1 .. End
    BY <1>3, <2>1, LeastIsLeast
  <2>3. Push("blockComment", Least(BlockEnds)) /\ diagnostics' = diagnostics
    BY <1>3 DEF LexBlockComment
  <2>4. Reads("blockComment", Least(BlockEnds))
    BY <1>1, <2>3, PlainKeepsWaiting DEF TokenKinds
  <2> QED
    BY <2>2, <2>4
<1> QED
  BY <1>2, <1>3

LEMMA StringIsRead ==
  ASSUME LexerInv, LexString, UNCHANGED text
  PROVE  \E end \in place + 1 .. End : Reads("string", end)
<1> DEFINE end == IF StringStops = {} THEN End ELSE Least(StringStops) + 1
<1>1. place \in 1 .. End /\ place < End /\ End \in Nat /\ Plain /\ expectPath' = expectPath
  BY PlaceIsRead DEF LexString
<1>2. end \in place + 1 .. End
  <2>1. StringStops \in SUBSET Nat /\ StringStops \subseteq place + 1 .. End - 1
    BY <1>1 DEF StringStops
  <2>2. StringStops # {} => Least(StringStops) \in place + 1 .. End - 1
    BY <2>1, LeastIsLeast
  <2> QED
    BY <1>1, <2>2
<1>3. /\ Push("string", end)
      /\ diagnostics' = diagnostics \/ Report("unterminatedString", end)
  BY DEF LexString
<1>4. Reads("string", end)
  <2> HIDE DEF end
  <2> QED BY <1>1, <1>3, PlainKeepsWaiting DEF TokenKinds, ErrorKinds
<1> QED
  BY <1>2, <1>4

LEMMA DirectiveIsRead ==
  ASSUME LexerInv, LexDirective, UNCHANGED text
  PROVE  \E kind \in TokenKinds, end \in place + 1 .. End : Reads(kind, end)
<1>1. place \in 1 .. End /\ place < End /\ End \in Nat /\ Plain
  BY PlaceIsRead DEF LexDirective
<1>2. CASE At(place) = "#include"
  <2>1. Push("directive", place + 1) /\ expectPath' = TRUE /\ diagnostics' = diagnostics
    BY <1>2 DEF LexDirective
  <2>2. Reads("directive", place + 1)
    BY <1>1, <2>1, PlainIsOther DEF TokenKinds
  <2> QED
    BY <1>1, <2>2 DEF TokenKinds
<1>3. CASE At(place) # "#include"
  <2> DEFINE end == SkipWhile(place + 1, WordChars)
  <2>1. end \in place + 1 .. End
    BY <1>1, RunEnds DEF LexerInv
  <2>2. Push("invalid", end) /\ Report("invalidDirective", end) /\ expectPath' = expectPath
    BY <1>3 DEF LexDirective
  <2>3. Reads("invalid", end)
    <3> HIDE DEF end
    <3> QED BY <1>1, <2>2, PlainKeepsWaiting DEF TokenKinds, ErrorKinds
  <2> QED
    BY <2>1, <2>3 DEF TokenKinds
<1> QED
  BY <1>2, <1>3

(* A number ends after each of its parts in turn; none steps back.          *)
LEMMA NumberIsRead ==
  ASSUME LexerInv, LexNumber, UNCHANGED text
  PROVE  \E kind \in TokenKinds, end \in place + 1 .. End : Reads(kind, end)
<1> DEFINE whole    == IF At(place) = "." THEN place + 1 ELSE place
           dot      == DigitsEnd(whole)
           fraction == IF At(dot) = "." THEN DigitsEnd(dot + 1) ELSE dot
           sign     == IF At(fraction + 1) = "-" THEN fraction + 2 ELSE fraction + 1
           exponent == IF At(fraction) = "e" THEN DigitsEnd(sign) ELSE fraction
           end      == IF At(exponent) = "i" THEN exponent + 1 ELSE exponent
           isReal   == whole > place \/ At(dot) = "." \/ At(fraction) = "e"
           kind     == IF end > exponent THEN "imaginary" ELSE IF isReal THEN "real"
                       ELSE "integer"
<1>1. place \in 1 .. End /\ place < End /\ End \in Nat /\ Plain
  BY PlaceIsRead DEF LexNumber
<1>2. \A i \in 1 .. End : DigitsEnd(i) \in i .. End
  BY RunEnds DEF DigitsEnd, LexerInv
<1>3. ASSUME NEW i \in Nat, At(i) \in {".", "e", "-", "i"} PROVE i < End
  BY <1>3 DEF At
<1>4. whole \in place .. End /\ dot \in place + 1 .. End
  <2>1. CASE At(place) = "."
    <3>1. At(place + 1) \in Digits
      BY <2>1 DEF LexNumber, NumberHere, Digits
    <3>2. place + 1 < End /\ text[place + 1] \in Digits
      BY <3>1 DEF At, Digits
    <3> QED
      BY <2>1, <3>2, <1>1, <1>2
  <2>2. CASE At(place) # "."
    <3>1. text[place] \in Digits
      BY <2>2, PlaceIsRead, <1>1 DEF LexNumber, NumberHere
    <3>2. DigitsEnd(place) \in place + 1 .. End
      BY <3>1, <1>1, RunEnds DEF DigitsEnd, LexerInv
    <3> QED
      BY <2>2, <3>2, <1>1
  <2> QED
    BY <2>1, <2>2
<1>5. fraction \in place + 1 .. End
  <2> HIDE DEF dot
  <2>1. At(dot) = "." => dot + 1 \in place + 1 .. End
    BY <1>1, <1>3, <1>4
  <2> QED
    BY <1>1, <1>2, <1>4, <2>1
<1>6. exponent \in place + 1 .. End
  <2> HIDE DEF fraction
  <2>1. At(fraction) = "e" => sign \in place + 1 .. End
    <3>1. At(fraction) = "e" => fraction < End
      BY <1>1, <1>3, <1>5
    <3>2. At(fraction + 1) = "-" => fraction + 1 < End
      BY <1>1, <1>3, <1>5
    <3> QED
      BY <1>1, <1>5, <3>1, <3>2
  <2> HIDE DEF sign
  <2> QED
    BY <1>1, <1>2, <1>5, <2>1
<1>7. end \in place + 1 .. End
  <2> HIDE DEF exponent
  <2> QED BY <1>1, <1>3, <1>6
<1>8. kind \in TokenKinds \ {"whitespace", "path", "directive"}
  <2> HIDE DEF end, exponent, isReal
  <2> QED BY DEF TokenKinds
<1>9. /\ Push(kind, end) /\ UNCHANGED expectPath
      /\ diagnostics' = diagnostics \/ Report("malformedNumber", end)
  BY Zenon DEF LexNumber
<1>10. Reads(kind, end)
  <2> HIDE DEF kind, end
  <2> QED BY <1>1, <1>8, <1>9, PlainKeepsWaiting DEF ErrorKinds
<1> QED
  <2> HIDE DEF kind, end
  <2> QED BY <1>7, <1>8, <1>10

LEMMA WordIsRead ==
  ASSUME LexerInv, LexWord, UNCHANGED text
  PROVE  \E kind \in TokenKinds, end \in place + 1 .. End : Reads(kind, end)
<1> DEFINE end == SkipWhile(place, WordChars)
<1>1. place \in 1 .. End /\ place < End /\ End \in Nat /\ Plain /\ text[place] \in WordChars
  BY PlaceIsRead DEF LexWord, WordChars
<1>2. end \in place + 1 .. End
  BY <1>1, RunEnds DEF LexerInv
<1>3. WordKind(end) \in TokenKinds \ {"whitespace", "path", "directive"}
  BY DEF WordKind, TokenKinds
<1>4. Push(WordKind(end), end) /\ UNCHANGED <<expectPath, diagnostics>>
  BY DEF LexWord
<1> HIDE DEF end
<1>5. Reads(WordKind(end), end)
  BY <1>1, <1>3, <1>4, PlainKeepsWaiting
<1> QED
  BY <1>2, <1>3, <1>5

LEMMA SymbolsAreShort ==
  ASSUME NEW s \in Symbols
  PROVE  Len(s) \in 1 .. 3
<1>1. \A a, b, c : Len(<<a>>) = 1 /\ Len(<<a, b>>) = 2 /\ Len(<<a, b, c>>) = 3
  OBVIOUS
<1>2. \/ \E a : s = <<a>>
      \/ \E a, b : s = <<a, b>>
      \/ \E a, b, c : s = <<a, b, c>>
  BY Zenon DEF Symbols
<1> QED
  BY <1>1, <1>2

LEMMA SymbolIsRead ==
  ASSUME LexerInv, LexArrow \/ LexSymbol \/ LexInvalid, UNCHANGED text
  PROVE  \E kind \in TokenKinds, end \in place + 1 .. End : Reads(kind, end)
<1>1. Plain
  BY DEF LexArrow, LexSymbol, LexInvalid, NoneAbove
<1>2. place \in 1 .. End /\ place < End /\ End \in Nat
  BY <1>1, PlaceIsRead
<1>3. CASE LexArrow
  <2>1. Push("legacy", place + 2) /\ UNCHANGED <<expectPath, diagnostics>>
    BY <1>3 DEF LexArrow
  <2>2. Reads("legacy", place + 2)
    BY <2>1, <1>1, PlainKeepsWaiting DEF TokenKinds
  <2>3. place + 2 <= End
    BY <1>2, <1>3 DEF LexArrow, Here, Arrow
  <2> QED
    BY <1>2, <2>2, <2>3 DEF TokenKinds
<1>4. CASE LexSymbol
  <2>1. PICK s \in SymbolsHere : Push("symbol", place + Len(s))
    BY <1>4 DEF LexSymbol
  <2>2. UNCHANGED <<expectPath, diagnostics>>
    BY <1>4 DEF LexSymbol
  <2>3. Len(s) \in 1 .. 3
    BY SymbolsAreShort DEF SymbolsHere
  <2>4. place + Len(s) <= End
    BY DEF SymbolsHere, Here
  <2>5. Reads("symbol", place + Len(s))
    BY <1>1, <2>1, <2>2, PlainKeepsWaiting DEF TokenKinds
  <2> QED
    BY <1>2, <2>3, <2>4, <2>5 DEF TokenKinds
<1>5. CASE LexInvalid
  <2>1. /\ Push("invalid", place + 1) /\ Report("invalidCharacter", place + 1)
        /\ UNCHANGED expectPath
    BY <1>5 DEF LexInvalid
  <2>2. Reads("invalid", place + 1)
    BY <1>1, <2>1, PlainKeepsWaiting DEF TokenKinds, ErrorKinds
  <2> QED
    BY <1>2, <2>2 DEF TokenKinds
<1> QED
  BY <1>3, <1>4, <1>5

(* The guards leave a character to read wherever a token is read.           *)
LEMMA NextTokenReads ==
  ASSUME LexerInv, NextToken
  PROVE  \E kind \in TokenKinds, end \in place + 1 .. End : Reads(kind, end)
<1> UNCHANGED text
  BY DEF NextToken
<1>1. CASE LexWhitespace
  BY <1>1, BlanksAreRead DEF TokenKinds
<1>2. CASE LexIncludePath
  BY <1>2, PathIsRead DEF TokenKinds
<1>3. CASE LexLineComment
  BY <1>3, LineCommentIsRead DEF TokenKinds
<1>4. CASE LexBlockComment
  BY <1>4, BlockCommentIsRead DEF TokenKinds
<1>5. CASE LexString
  BY <1>5, StringIsRead DEF TokenKinds
<1>6. CASE LexDirective
  BY <1>6, DirectiveIsRead
<1>7. CASE LexNumber
  BY <1>7, NumberIsRead
<1>8. CASE LexWord
  BY <1>8, WordIsRead
<1>9. CASE LexArrow \/ LexSymbol \/ LexInvalid
  BY <1>9, SymbolIsRead
<1> QED
  BY <1>1, <1>2, <1>3, <1>4, <1>5, <1>6, <1>7, <1>8, <1>9 DEF NextToken

-----------------------------------------------------------------------------
(* A token read keeps both invariants. *)

LEMMA PushedToken ==
  ASSUME LexerInv, NEW kind, NEW end, Push(kind, end)
  PROVE  LET t == [kind |-> kind, start |-> place, end |-> end]
             n == Len(tokens) + 1
         IN /\ tokens' = Append(tokens, t) /\ place' = end
            /\ Len(tokens) \in Nat /\ DOMAIN tokens = 1 .. Len(tokens)
            /\ DOMAIN tokens' = 1 .. n /\ Len(tokens') = n /\ tokens' # <<>>
            /\ tokens'[n] = t
            /\ \A m \in DOMAIN tokens : tokens'[m] = tokens[m]
BY DEF Push, LexerInv

LEMMA ReadingKeepsLexerInv ==
  ASSUME LexerInv, NEW kind \in TokenKinds \cup {"eof"}, NEW end \in place .. End,
         Push(kind, end), text' = text, expectPath' \in BOOLEAN,
         diagnostics' = diagnostics \/ \E error \in ErrorKinds : Report(error, end),
         kind # "eof" => end # place, kind = "eof" => place = End
  PROVE  LexerInv'
<1> DEFINE t == [kind |-> kind, start |-> place, end |-> end]
           n == Len(tokens) + 1
<1>1. /\ tokens' = Append(tokens, t) /\ place' = end
      /\ Len(tokens) \in Nat /\ DOMAIN tokens = 1 .. Len(tokens)
      /\ DOMAIN tokens' = 1 .. n /\ Len(tokens') = n /\ tokens' # <<>>
      /\ tokens'[n] = t
      /\ \A m \in DOMAIN tokens : tokens'[m] = tokens[m]
  BY PushedToken
<1>2. /\ place \in 1 .. End /\ End \in Nat /\ End' = End
      /\ t \in TokenRecord
  BY DEF LexerInv, TokensCoverText, End, TokenRecord
<1>3. tokens' \in Seq(TokenRecord)
  BY <1>1, <1>2 DEF LexerInv
<1>4. /\ diagnostics' \in Seq(ErrorRecord)
      /\ \A k \in DOMAIN diagnostics' : \E m \in DOMAIN tokens' :
           tokens'[m].start = diagnostics'[k].start /\ tokens'[m].end = diagnostics'[k].end
  <2>0. \A k \in DOMAIN diagnostics : \E m \in DOMAIN tokens :
          tokens[m].start = diagnostics[k].start /\ tokens[m].end = diagnostics[k].end
    BY DEF LexerInv, TokensCoverText
  <2>1. CASE diagnostics' = diagnostics
    <3>1. diagnostics' \in Seq(ErrorRecord)
      BY <2>1 DEF LexerInv
    <3>2. ASSUME NEW k \in DOMAIN diagnostics'
          PROVE  \E m \in DOMAIN tokens' : tokens'[m].start = diagnostics'[k].start
                                         /\ tokens'[m].end = diagnostics'[k].end
      <4>1. PICK m \in DOMAIN tokens : tokens[m].start = diagnostics[k].start
                                     /\ tokens[m].end = diagnostics[k].end
        BY <2>0, <2>1
      <4>2. m \in DOMAIN tokens' /\ tokens'[m] = tokens[m] /\ diagnostics'[k] = diagnostics[k]
        BY <4>1, <1>1, <2>1
      <4> QED BY <4>1, <4>2
    <3> QED BY <3>1, <3>2
  <2>2. ASSUME NEW error \in ErrorKinds, Report(error, end) PROVE <1>4
    <3> DEFINE e == [kind |-> error, start |-> place, end |-> end]
    <3>1. diagnostics' = Append(diagnostics, e) /\ e \in ErrorRecord
      BY <2>2, <1>2 DEF Report, ErrorRecord
    <3>2. diagnostics \in Seq(ErrorRecord)
      BY DEF LexerInv
    <3>3. tokens'[n].start = e.start /\ tokens'[n].end = e.end /\ n \in DOMAIN tokens'
      BY <1>1
    <3> HIDE DEF e, n
    <3>4. diagnostics' \in Seq(ErrorRecord)
      BY <3>1, <3>2
    <3>5. ASSUME NEW k \in DOMAIN diagnostics'
          PROVE  \E m \in DOMAIN tokens' : tokens'[m].start = diagnostics'[k].start
                                         /\ tokens'[m].end = diagnostics'[k].end
      <4>1. CASE k \in DOMAIN diagnostics
        <5>1. diagnostics'[k] = diagnostics[k]
          BY <4>1, <3>1, <3>2
        <5> QED BY <5>1, <4>1, <2>0, <1>1
      <4>2. CASE k \notin DOMAIN diagnostics
        <5>1. diagnostics'[k] = e
          BY <4>2, <3>1, <3>2
        <5> QED BY <5>1, <3>3
      <4> QED BY <4>1, <4>2
    <3> QED BY <3>4, <3>5
  <2> QED BY <2>1, <2>2
<1>5. \A m \in DOMAIN tokens' :
        /\ tokens'[m].start = IF m = 1 THEN 1 ELSE tokens'[m - 1].end
        /\ tokens'[m].kind # "eof" => tokens'[m].start < tokens'[m].end
        /\ tokens'[m].start \in 1 .. tokens'[m].end /\ tokens'[m].end <= place'
  <2> SUFFICES ASSUME NEW m \in DOMAIN tokens'
               PROVE  /\ tokens'[m].start = IF m = 1 THEN 1 ELSE tokens'[m - 1].end
                      /\ tokens'[m].kind # "eof" => tokens'[m].start < tokens'[m].end
                      /\ tokens'[m].start \in 1 .. tokens'[m].end
                      /\ tokens'[m].end <= place'
    OBVIOUS
  <2>1. CASE m \in DOMAIN tokens
    <3>1. /\ tokens[m].start = IF m = 1 THEN 1 ELSE tokens[m - 1].end
          /\ tokens[m].kind # "eof" => tokens[m].start < tokens[m].end
          /\ tokens[m].start \in 1 .. tokens[m].end /\ tokens[m].end <= place
          /\ tokens[m] \in TokenRecord
      BY <2>1 DEF LexerInv, TokensCoverText
    <3>2. m # 1 => m - 1 \in DOMAIN tokens
      BY <2>1, <1>1
    <3> QED
      BY <3>1, <3>2, <2>1, <1>1, <1>2 DEF TokenRecord
  <2>2. CASE m = n
    <3>1. place = IF n = 1 THEN 1 ELSE tokens[n - 1].end
      BY <1>1 DEF LexerInv, TokensCoverText
    <3> n \in Nat \ {0} /\ n - 1 = Len(tokens)
      BY <1>1
    <3>a. n # 1 => n - 1 \in DOMAIN tokens
      BY <1>1
    <3>2. n # 1 => n - 1 \in DOMAIN tokens /\ tokens'[n - 1] = tokens[n - 1]
      BY <3>a, <1>1
    <3>3. tokens'[n].kind = kind /\ tokens'[n].start = place /\ tokens'[n].end = end
      BY <1>1
    <3>4. place \in Nat /\ end \in Nat /\ place <= end /\ 1 <= place /\ place' = end
      BY <1>1, <1>2
    <3> HIDE DEF t, n
    <3>5. tokens'[n].start = IF n = 1 THEN 1 ELSE tokens'[n - 1].end
      BY <3>1, <3>2, <3>3
    <3>6. tokens'[n].kind # "eof" => tokens'[n].start < tokens'[n].end
      BY <3>3, <3>4
    <3>7. tokens'[n].start \in 1 .. tokens'[n].end /\ tokens'[n].end <= place'
      BY <3>3, <3>4
    <3> QED
      BY <3>5, <3>6, <3>7, <2>2
  <2> QED
    BY <2>1, <2>2, <1>1
<1>6. Lexed' => place' = End'
  BY <1>1, <1>2 DEF Lexed
<1>7. TokensCoverText'
  BY <1>1, <1>2, <1>4, <1>5, <1>6 DEF TokensCoverText
<1> QED
  BY <1>2, <1>3, <1>4, <1>5, <1>7 DEF LexerInv

LEMMA InitialLexer == LexerInit => LexerInv
<1> SUFFICES ASSUME LexerInit PROVE LexerInv
  OBVIOUS
<1>1. text \in Seq(STRING) /\ End \in Nat /\ End >= 1
  BY TextsAssumption DEF LexerInit, End
<1>2. tokens \in Seq(TokenRecord) /\ diagnostics \in Seq(ErrorRecord)
  BY DEF LexerInit
<1>3. DOMAIN tokens = {} /\ DOMAIN diagnostics = {} /\ ~Lexed
  BY DEF LexerInit, Lexed
<1>4. TokensCoverText
  BY <1>1, <1>3 DEF LexerInit, TokensCoverText
<1>5. \A n \in DOMAIN tokens : tokens[n].start \in 1 .. tokens[n].end /\ tokens[n].end <= place
  BY <1>3
<1>6. expectPath \in BOOLEAN
  BY DEF LexerInit
<1> QED
  BY <1>1, <1>2, <1>4, <1>5, <1>6, Zenon DEF LexerInv

LEMMA LexerStep == LexerInv /\ [LexerNext]_lexerVars => LexerInv'
<1> SUFFICES ASSUME LexerInv, [LexerNext]_lexerVars PROVE LexerInv'
  OBVIOUS
<1>1. CASE NextToken
  <2>1. PICK kind \in TokenKinds, end \in place + 1 .. End : Reads(kind, end)
    BY <1>1, NextTokenReads
  <2>2. place \in Nat /\ End \in Nat /\ end \in place .. End /\ end # place
    BY DEF LexerInv, TokensCoverText, End
  <2>3. kind # "eof"
    BY DEF TokenKinds
  <2>4. expectPath' \in BOOLEAN
    BY <2>1 DEF Reads, ReadsBlanks, ReadsOther
  <2> QED
    BY <2>1, <2>2, <2>3, <2>4, ReadingKeepsLexerInv DEF Reads
<1>2. CASE LexEnd /\ UNCHANGED text
  <2>1. Push("eof", place) /\ place = End /\ expectPath' \in BOOLEAN /\ diagnostics' = diagnostics
    BY <1>2 DEF LexEnd, LexerInv
  <2>2. place \in place .. End
    BY <2>1 DEF LexerInv, TokensCoverText, End
  <2> QED
    BY <1>2, <2>1, <2>2, ReadingKeepsLexerInv
<1>3. CASE UNCHANGED lexerVars
  BY <1>3 DEF lexerVars, LexerInv, TokensCoverText, End, Lexed
<1> QED
  BY <1>1, <1>2, <1>3 DEF LexerNext

(* Whatever the text, the tokens cover it without gap or overlap, none but   *)
(* the last is empty, and what is reported is the range of a token.          *)
THEOREM LexingIsLossless == LexerSpec => []TokensCoverText
<1>1. LexerInv => TokensCoverText
  BY DEF LexerInv
<1> QED
  BY <1>1, InitialLexer, LexerStep, PTL DEF LexerSpec

-----------------------------------------------------------------------------
(* Paths: what waits where the lexer is, and what waits after it has read. *)

LEMMA PushedAt ==
  ASSUME LexerInv, NEW kind, NEW end, Push(kind, end), NEW n, n = Len(tokens) + 1
  PROVE  /\ n \in Nat /\ n >= 1
         /\ DOMAIN tokens = 1 .. n - 1 /\ DOMAIN tokens' = 1 .. n
         /\ tokens'[n].kind = kind /\ tokens'[n].start = place /\ tokens'[n].end = end
         /\ \A m \in DOMAIN tokens : tokens'[m] = tokens[m]
<1> DEFINE t == [kind |-> kind, start |-> place, end |-> end]
<1>1. /\ Len(tokens) \in Nat /\ DOMAIN tokens = 1 .. Len(tokens) /\ DOMAIN tokens' = 1 .. n
      /\ tokens'[n] = t
      /\ \A m \in DOMAIN tokens : tokens'[m] = tokens[m]
  BY PushedToken
<1>2. t.kind = kind /\ t.start = place /\ t.end = end
  OBVIOUS
<1> HIDE DEF t
<1> QED
  BY <1>1, <1>2

LEMMA WaitingOn ==
  ASSUME LexerInv, NEW kind, NEW end \in place .. End, Push(kind, end), text' = text,
         NEW j \in DOMAIN tokens, NEW n, n = Len(tokens) + 1
  PROVE  /\ Waits(j, end)' <=> /\ Waits(j, place)
                               /\ \A k \in place .. end - 1 : text[k] \in Whitespace \ Newlines
         /\ SameLineGap(j, n)' <=> Waits(j, place)
         /\ \A m \in DOMAIN tokens : SameLineGap(j, m)' <=> SameLineGap(j, m)
<1>1. /\ tokens'[j] = tokens[j] /\ tokens'[n].start = place
      /\ \A m \in DOMAIN tokens : tokens'[m] = tokens[m]
  BY PushedAt
<1>2. place \in Nat /\ end \in Nat /\ place <= end /\ tokens[j].end \in Nat
  <2>1. tokens[j] \in TokenRecord
    BY DEF LexerInv
  <2>2. End \in Nat /\ place \in 1 .. End
    BY DEF LexerInv, TokensCoverText, End
  <2> QED
    BY <2>1, <2>2 DEF TokenRecord
<1>a. tokens[j].end <= place
  BY DEF LexerInv
<1>3. Waits(j, end)' <=> \A k \in tokens[j].end .. end - 1 : text[k] \in Whitespace \ Newlines
  BY <1>1, Zenon DEF Waits
<1>4. \A k : k \in tokens[j].end .. end - 1 <=>
             k \in tokens[j].end .. place - 1 \/ k \in place .. end - 1
  BY <1>2, <1>a
<1>5. Waits(j, end)' <=> /\ Waits(j, place)
                        /\ \A k \in place .. end - 1 : text[k] \in Whitespace \ Newlines
  BY <1>3, <1>4, Zenon DEF Waits
<1>6. SameLineGap(j, n)' <=> Waits(j, place)
  BY <1>1, Zenon DEF Waits, SameLineGap
<1>7. \A m \in DOMAIN tokens : SameLineGap(j, m)' <=> SameLineGap(j, m)
  BY <1>1, Zenon DEF SameLineGap
<1> QED
  BY <1>5, <1>6, <1>7

LEMMA PathStep == PathInv /\ [LexerNext]_lexerVars => PathInv'
<1> SUFFICES ASSUME PathInv, [LexerNext]_lexerVars PROVE PathInv'
  OBVIOUS
<1> USE DEF PathInv
<1>0. LexerInv /\ LexerInv'
  BY LexerStep
<1>1. CASE UNCHANGED lexerVars
  BY <1>0, <1>1 DEF lexerVars, Waits, PathsFollowDirectives, SameLineGap
<1>2. ASSUME NEW kind, NEW end \in place .. End, Push(kind, end), text' = text,
             \/ kind = "eof" /\ end = place /\ expectPath' = expectPath
             \/ end # place /\ (ReadsBlanks(kind, end) \/ ReadsOther(kind))
      PROVE  PathInv'
  <2>0. PICK n : n = Len(tokens) + 1
    OBVIOUS
  <2>1. /\ DOMAIN tokens = 1 .. n - 1 /\ DOMAIN tokens' = 1 .. n /\ n \in Nat /\ n >= 1
        /\ tokens'[n].kind = kind
        /\ \A m \in DOMAIN tokens : tokens'[m] = tokens[m]
    BY <1>0, <1>2, <2>0, PushedAt
  <2>2. place' = end /\ place \in Nat /\ end \in Nat /\ place <= end
    BY <1>0, <1>2, SMTT(20) DEF Push, LexerInv, TokensCoverText, End
  <2>3. ASSUME NEW j \in DOMAIN tokens
        PROVE  /\ Waits(j, end)' <=> /\ Waits(j, place)
                                     /\ \A k \in place .. end - 1 : text[k] \in Whitespace \ Newlines
               /\ SameLineGap(j, n)' <=> Waits(j, place)
               /\ \A m \in DOMAIN tokens : SameLineGap(j, m)' <=> SameLineGap(j, m)
    BY <1>0, <1>2, <2>0, <2>3, WaitingOn
  <2>4. expectPath' <=> \E m \in DOMAIN tokens' : tokens'[m].kind = "directive" /\ Waits(m, end)'
    <3>1. CASE ReadsOther(kind) /\ end # place
      <4>1. place \in place .. end - 1 /\ text[place] \notin Whitespace \ Newlines
        BY <2>2, <3>1 DEF ReadsOther
      <4>2. \A j \in DOMAIN tokens : ~Waits(j, end)'
        BY <2>3, <4>1
      <4>3. Waits(n, end)'
        <5>1. tokens'[n].end = end
          BY <1>2, <1>0, <2>0, PushedAt
        <5> QED BY <5>1, <2>2 DEF Waits
      <4>4. \A m \in DOMAIN tokens' : Waits(m, end)' <=> m = n
        BY <4>2, <4>3, <2>1
      <4>5. expectPath' <=> kind = "directive"
        BY <3>1, Zenon DEF ReadsOther
      <4>6. n \in DOMAIN tokens'
        BY <2>1
      <4> QED
        BY <4>4, <4>5, <4>6, <2>1, Zenon
    <3>2. CASE ReadsBlanks(kind, end)
      <4>1. \A k \in place .. end - 1 : text[k] \in Whitespace
        BY <3>2 DEF ReadsBlanks
      <4>2. expectPath' <=> /\ expectPath
                           /\ \A k \in place .. end - 1 : text[k] \in Whitespace \ Newlines
        BY <3>2, <4>1, Zenon DEF ReadsBlanks
      <4>3. \A m \in DOMAIN tokens' : tokens'[m].kind = "directive" =>
              m \in DOMAIN tokens /\ tokens[m].kind = "directive"
        BY <2>1, <3>2 DEF ReadsBlanks
      <4>4. \A m \in DOMAIN tokens : m \in DOMAIN tokens' /\ tokens'[m].kind = tokens[m].kind
        BY <2>1
      <4> QED
        BY <4>2, <4>3, <4>4, <2>3, Zenon
    <3>3. CASE kind = "eof" /\ end = place /\ expectPath' = expectPath
      <4>1. \A k \in place .. end - 1 : FALSE
        BY <2>2, <3>3
      <4>2. \A j \in DOMAIN tokens : Waits(j, end)' <=> Waits(j, place)
        BY <2>3, <4>1, Zenon
      <4>3. \A m \in DOMAIN tokens' : tokens'[m].kind = "directive" =>
              m \in DOMAIN tokens /\ tokens[m].kind = "directive"
        BY <2>1, <3>3
      <4>4. \A m \in DOMAIN tokens : m \in DOMAIN tokens' /\ tokens'[m].kind = tokens[m].kind
        BY <2>1
      <4> QED
        BY <3>3, <4>2, <4>3, <4>4, Zenon
    <3> QED BY <1>2, <3>1, <3>2, <3>3
  <2>5. \A m \in DOMAIN tokens' : tokens'[m].kind = "path" =>
          \E j \in 1 .. m - 1 : tokens'[j].kind = "directive" /\ SameLineGap(j, m)'
    <3> SUFFICES ASSUME NEW m \in DOMAIN tokens', tokens'[m].kind = "path"
                 PROVE  \E j \in 1 .. m - 1 : tokens'[j].kind = "directive" /\ SameLineGap(j, m)'
      OBVIOUS
    <3>1. CASE m = n
      <4>1. expectPath
        BY <3>1, <2>1, <1>2 DEF ReadsBlanks, ReadsOther
      <4>2. PICK j \in DOMAIN tokens : tokens[j].kind = "directive" /\ Waits(j, place)
        BY <4>1
      <4>3. j \in 1 .. m - 1 /\ tokens'[j].kind = "directive"
        BY <4>2, <2>1, <3>1
      <4> QED BY <4>2, <4>3, <2>3, <3>1
    <3>2. CASE m \in DOMAIN tokens
      <4>1. PICK j \in 1 .. m - 1 : tokens[j].kind = "directive" /\ SameLineGap(j, m)
        BY <3>2, <2>1 DEF PathsFollowDirectives
      <4>2. j \in DOMAIN tokens
        BY <3>2, <2>1
      <4> QED BY <4>1, <4>2, <2>1, <2>3, <3>2
    <3> QED BY <3>1, <3>2, <2>1
  <2>6. \A j \in DOMAIN tokens', m \in DOMAIN tokens' :
          /\ j < m /\ tokens'[j].kind = "directive" /\ SameLineGap(j, m)'
          /\ tokens'[m].kind \notin {"whitespace", "eof"}
          => tokens'[m].kind = "path"
    <3> SUFFICES ASSUME NEW j \in DOMAIN tokens', NEW m \in DOMAIN tokens',
                        j < m, tokens'[j].kind = "directive", SameLineGap(j, m)',
                        tokens'[m].kind \notin {"whitespace", "eof"}
                 PROVE  tokens'[m].kind = "path"
      OBVIOUS
    <3>1. j \in DOMAIN tokens /\ tokens[j].kind = "directive"
      BY <2>1
    <3>2. CASE m = n
      <4>1. Waits(j, place)
        BY <3>1, <3>2, <2>3
      <4>2. expectPath
        BY <4>1, <3>1
      <4>3. ReadsOther(kind)
        BY <3>2, <2>1, <1>2 DEF ReadsBlanks
      <4> QED BY <4>2, <4>3, <3>2, <2>1 DEF ReadsOther
    <3>3. CASE m \in DOMAIN tokens
      <4>1. SameLineGap(j, m) /\ tokens'[m] = tokens[m]
        BY <3>1, <3>3, <2>1, <2>3
      <4> QED BY <4>1, <3>1, <3>3 DEF PathsFollowDirectives
    <3> QED BY <3>2, <3>3, <2>1
  <2>7. PathsFollowDirectives'
    BY <2>5, <2>6, Zenon DEF PathsFollowDirectives
  <2>8. (expectPath <=> \E m \in DOMAIN tokens : tokens[m].kind = "directive" /\ Waits(m, place))'
    BY <2>4, <2>2, Zenon DEF Waits
  <2> QED
    BY <1>0, <2>7, <2>8, Zenon
<1>3. CASE NextToken
  <2>1. PICK kind \in TokenKinds, end \in place + 1 .. End : Reads(kind, end)
    BY <1>3, <1>0, NextTokenReads
  <2>2. place \in Nat /\ End \in Nat
    BY <1>0 DEF LexerInv, TokensCoverText, End
  <2>3. end \in place .. End /\ end # place
    BY <2>2
  <2> QED
    BY <2>1, <2>3, <1>2 DEF Reads
<1>4. CASE LexEnd /\ UNCHANGED text
  <2>1. Push("eof", place) /\ expectPath' = expectPath /\ place \in place .. End
    BY <1>4, <1>0 DEF LexEnd, LexerInv, TokensCoverText, End
  <2> QED
    BY <2>1, <1>4, <1>2
<1> QED
  BY <1>1, <1>3, <1>4 DEF LexerNext

(* Whatever the text, a path follows a directive of its line, and a          *)
(* directive followed by something on its line has a path.                   *)
THEOREM PathsAreOfDirectives == LexerSpec => []PathsFollowDirectives
<1>1. LexerInit => PathInv
  BY InitialLexer DEF LexerInit, PathInv, PathsFollowDirectives
<1>2. PathInv => PathsFollowDirectives
  BY DEF PathInv
<1> QED
  BY <1>1, <1>2, PathStep, PTL DEF LexerSpec

-----------------------------------------------------------------------------
(* Ranks: how many elements of a set of places are up to a place.            *)

LEMMA RankCounts ==
  ASSUME NEW S \in SUBSET Nat, NEW i \in Nat, NEW j \in Nat, i <= j
  PROVE  /\ Rank(S, i) \in Nat /\ Rank(S, j) \in Nat /\ Rank(S, i) <= Rank(S, j)
         /\ Rank(S, i) = Rank(S, j) <=> \A s \in S : s <= j => s <= i
<1> DEFINE low  == {s \in S : s <= i}
           high == {s \in S : s <= j}
<1>0. \A s \in S : s <= i => s <= j
  OBVIOUS
<1>1. high \in SUBSET Nat /\ low \in SUBSET high
  BY <1>0, Zenon
<1>2. IsFiniteSet(high)
  <2>1. \A s \in high : s <= j
    OBVIOUS
  <2> HIDE DEF high, low
  <2> QED BY <1>1, <2>1, FS_BoundedSetOfNaturals
<1>3. /\ IsFiniteSet(low) /\ Cardinality(low) <= Cardinality(high)
      /\ Cardinality(high) = Cardinality(low) => high = low
  <2> HIDE DEF high, low
  <2> QED BY <1>1, <1>2, FS_Subset
<1>4. Cardinality(low) \in Nat /\ Cardinality(high) \in Nat
  <2> HIDE DEF high, low
  <2> QED BY <1>2, <1>3, FS_CardinalityType
<1>5. high = low <=> \A s \in S : s <= j => s <= i
  BY <1>0, Zenon
<1> QED
  BY <1>3, <1>4, <1>5 DEF Rank

LEMMA RankIsOne ==
  ASSUME NEW S \in SUBSET Nat, NEW s \in S, \A r \in S : s <= r
  PROVE  Rank(S, s) = 1
<1>1. \A r \in S : r \in Nat /\ (r <= s => r = s)
  OBVIOUS
<1>2. {r \in S : r <= s} = {s}
  BY <1>1
<1> QED
  BY <1>2, FS_Singleton DEF Rank

LEMMA RankGrows ==
  ASSUME NEW S \in SUBSET Nat, NEW s \in S, NEW t \in S, s < t,
         \A r \in S : r < t => r <= s
  PROVE  Rank(S, t) = Rank(S, s) + 1
<1> DEFINE low == {r \in S : r <= s}
<1>0. \A r \in S : r \in Nat /\ (r <= t <=> r <= s \/ r = t)
  OBVIOUS
<1>1. {r \in S : r <= t} = low \cup {t}
  BY <1>0
<1>2. t \notin low /\ low \in SUBSET Nat /\ \A r \in low : r <= s
  <2>1. ~(t <= s)
    OBVIOUS
  <2> QED BY <2>1
<1>3. IsFiniteSet(low)
  <2> HIDE DEF low
  <2> QED BY <1>2, FS_BoundedSetOfNaturals
<1>4. Cardinality(low \cup {t}) = Cardinality(low) + 1
  <2> HIDE DEF low
  <2> QED BY <1>2, <1>3, FS_AddElement
<1> QED
  BY <1>1, <1>4 DEF Rank

(* The nth element is the one of rank n.                                     *)
LEMMA NthOfRank ==
  ASSUME NEW S \in SUBSET Nat, NEW s \in S
  PROVE  Nth(S, Rank(S, s)) = s
<1>1. ASSUME NEW r \in S, Rank(S, r) = Rank(S, s)
      PROVE  r = s
  <2>1. CASE r <= s
    BY <1>1, <2>1, RankCounts
  <2>2. CASE s <= r
    BY <1>1, <2>2, RankCounts
  <2> QED
    BY <2>1, <2>2
<1> QED
  BY <1>1 DEF Nth

LEMMA LastUpTo ==
  ASSUME NEW S \in SUBSET Nat, NEW i \in Nat, \E s \in S : s <= i
  PROVE  \E s \in S : s <= i /\ \A r \in S : r <= i => r <= s
<1> DEFINE D == {i - s : s \in {r \in S : r <= i}}
<1>1. D \in SUBSET Nat /\ D # {}
  OBVIOUS
<1>2. PICK d \in D : \A e \in D : d <= e
  <2> HIDE DEF D
  <2> QED BY <1>1, LeastIsLeast
<1>3. PICK s \in S : s <= i /\ d = i - s
  BY <1>2
<1>4. ASSUME NEW r \in S, r <= i
      PROVE  r <= s
  <2>1. i - r \in D
    BY <1>4
  <2>2. i - s <= i - r /\ r \in Nat /\ s \in Nat
    BY <1>2, <1>3, <2>1
  <2> QED BY <2>2
<1> QED
  BY <1>3, <1>4

LEMMA RankIsInRange ==
  ASSUME NEW S \in SUBSET Nat, IsFiniteSet(S), NEW i \in Nat
  PROVE  /\ Cardinality(S) \in Nat /\ Rank(S, i) \in 0 .. Cardinality(S)
         /\ (\E s \in S : s <= i) => Rank(S, i) >= 1
         /\ Rank(S, i) = Cardinality(S) <=> \A s \in S : s <= i
<1> DEFINE low == {s \in S : s <= i}
<1>1. low \in SUBSET S /\ \A s \in S : s <= i => s \in low
  OBVIOUS
<1>2. /\ IsFiniteSet(low) /\ Cardinality(low) <= Cardinality(S)
      /\ Cardinality(S) = Cardinality(low) => S = low
      /\ Cardinality(S) \in Nat /\ Cardinality(low) \in Nat
      /\ Cardinality(low) = 0 => low = {}
  <2> HIDE DEF low
  <2> QED BY <1>1, FS_Subset, FS_CardinalityType, FS_EmptySet
<1>3. S = low <=> \A s \in S : s <= i
  OBVIOUS
<1> QED
  BY <1>2, <1>3 DEF Rank

(* Up to its number of elements, a finite set has one of every rank.         *)
LEMMA EveryRank ==
  ASSUME NEW S \in SUBSET Nat, IsFiniteSet(S), NEW n \in 1 .. Cardinality(S)
  PROVE  Nth(S, n) \in S /\ Rank(S, Nth(S, n)) = n
<1>0. Cardinality(S) \in Nat
  BY FS_CardinalityType
<1> DEFINE Missed == {m \in 1 .. Cardinality(S) : \A s \in S : Rank(S, s) # m}
<1>1. Missed = {}
  <2> SUFFICES ASSUME Missed # {} PROVE FALSE
    OBVIOUS
  <2>1. PICK m \in Missed : \A k \in Missed : m <= k
    <3>1. Missed \in SUBSET Nat
      BY <1>0
    <3> HIDE DEF Missed
    <3> QED BY <3>1, LeastIsLeast
  <2>2. m \in 1 .. Cardinality(S) /\ \A s \in S : Rank(S, s) # m
    OBVIOUS
  <2>3. CASE m = 1
    <3>1. S # {}
      BY <1>0, <2>2, FS_EmptySet
    <3>2. PICK s \in S : \A r \in S : s <= r
      BY <3>1, LeastIsLeast
    <3> QED
      BY <2>2, <2>3, <3>2, RankIsOne
  <2>4. CASE m # 1
    <3>1. m - 1 \in 1 .. Cardinality(S) /\ m - 1 \notin Missed
      BY <1>0, <2>1, <2>2, <2>4
    <3>2. PICK s \in S : Rank(S, s) = m - 1
      BY <3>1
    <3>3. \E t \in S : s < t
      <4>1. Rank(S, s) # Cardinality(S)
        BY <1>0, <2>2, <3>2
      <4> QED BY <4>1, RankIsInRange
    <3> DEFINE Later == {t \in S : s < t}
    <3>4. Later \in SUBSET Nat /\ Later # {}
      BY <3>3
    <3>5. PICK t \in Later : \A r \in Later : t <= r
      <4> HIDE DEF Later
      <4> QED BY <3>4, LeastIsLeast
    <3>6. Rank(S, t) = Rank(S, s) + 1
      BY <3>5, RankGrows
    <3> QED
      BY <1>0, <2>2, <3>2, <3>5, <3>6
  <2> QED
    BY <2>3, <2>4
<1>2. \E s \in S : Rank(S, s) = n
  BY <1>1
<1> QED
  BY <1>2 DEF Nth

-----------------------------------------------------------------------------
(* UTF-16 units: every character has at least one.                           *)

LEMMA CharactersHaveUnits ==
  ASSUME NEW c
  PROVE  Utf16(c) \in 1 .. 18
<1>1. Width(c) \in {1, 2, 3, 4, 8, 18}
  BY DEF Width
<1> QED
  BY <1>1 DEF Utf16

LEMMA UnitsAdd ==
  ASSUME NEW chars, NEW a \in Nat, NEW b \in Nat, NEW c \in Nat, a <= b, b <= c
  PROVE  /\ Units(chars, a, c) = Units(chars, a, b) + Units(chars, b, c)
         /\ Units(chars, a, b) \in Nat /\ Units(chars, b, c) \in Nat
         /\ Units(chars, a, c) \in Nat
         /\ b < c => Units(chars, b, c) >= 1
         /\ Units(chars, a, a) = 0
<1> DEFINE Set(from, to) == Utf16Units(chars, from, to)
<1>1. ASSUME NEW from \in Nat, NEW to \in Nat
      PROVE  IsFiniteSet(Set(from, to)) /\ Cardinality(Set(from, to)) \in Nat
  <2> DEFINE Box == (from .. to - 1) \X (1 .. 18)
  <2>1. Set(from, to) \in SUBSET Box
    BY CharactersHaveUnits DEF Utf16Units
  <2>2. IsFiniteSet(Box)
    <3>1. \A i, j \in Int : IsFiniteSet(i .. j)
      BY FS_Interval
    <3>2. from \in Int /\ to - 1 \in Int /\ 1 \in Int /\ 18 \in Int
      OBVIOUS
    <3>3. IsFiniteSet(from .. to - 1) /\ IsFiniteSet(1 .. 18)
      BY <3>1, <3>2, Zenon
    <3> QED BY <3>3, FS_Product
  <2> HIDE DEF Box, Set
  <2> QED
    BY <2>1, <2>2, FS_Subset, FS_CardinalityType
<1>2. Set(a, c) = Set(a, b) \cup Set(b, c)
  <2>1. a .. c - 1 = (a .. b - 1) \cup (b .. c - 1)
    OBVIOUS
  <2> QED
    BY <2>1 DEF Utf16Units
<1>3. Set(a, b) \cap Set(b, c) = {}
  <2>1. \A x \in Set(a, b) : x[1] \in a .. b - 1
    BY DEF Utf16Units
  <2>2. \A x \in Set(b, c) : x[1] \in b .. c - 1
    BY DEF Utf16Units
  <2> QED
    BY <2>1, <2>2
<1>4. Cardinality(Set(a, c)) = Cardinality(Set(a, b)) + Cardinality(Set(b, c))
  <2>1. Cardinality(Set(a, b) \cap Set(b, c)) = 0
    BY <1>3, FS_EmptySet
  <2>2. /\ IsFiniteSet(Set(a, b)) /\ Cardinality(Set(a, b)) \in Nat
        /\ IsFiniteSet(Set(b, c)) /\ Cardinality(Set(b, c)) \in Nat
    BY <1>1
  <2> HIDE DEF Set
  <2>3. Cardinality(Set(a, b) \cup Set(b, c))
          = Cardinality(Set(a, b)) + Cardinality(Set(b, c)) - 0
    BY <2>1, <2>2, FS_Union
  <2> QED
    BY <1>2, <2>2, <2>3
<1>5. b < c => Set(b, c) # {}
  <2>1. b < c => <<b, 1>> \in {b} \X (1 .. Utf16(chars[b]))
    BY CharactersHaveUnits
  <2>2. b < c => b \in b .. c - 1
    OBVIOUS
  <2> QED
    BY <2>1, <2>2 DEF Utf16Units
<1>6. Set(a, a) = {}
  <2>1. a .. a - 1 = {}
    OBVIOUS
  <2> QED BY <2>1 DEF Utf16Units
<1>7. b < c => Cardinality(Set(b, c)) # 0
  <2>1. IsFiniteSet(Set(b, c))
    BY <1>1
  <2> HIDE DEF Set
  <2> QED BY <1>5, <2>1, FS_EmptySet
<1>8. Cardinality(Set(a, a)) = 0
  BY <1>6, FS_EmptySet
<1> QED
  BY <1>1, <1>4, <1>7, <1>8 DEF Units

(* So columns grow with places.                                              *)
LEMMA UnitsGrow ==
  ASSUME NEW chars, NEW s \in Nat, NEW i \in Nat, NEW j \in Nat, s <= i, s <= j
  PROVE  /\ Units(chars, s, i) \in Nat
         /\ Units(chars, s, i) <= Units(chars, s, j) <=> i <= j
         /\ Units(chars, s, i) = Units(chars, s, j) <=> i = j
<1>1. ASSUME NEW a \in Nat, NEW b \in Nat, s <= a, a < b
      PROVE  Units(chars, s, a) < Units(chars, s, b)
  <2>0. a <= b
    BY <1>1
  <2>1. /\ Units(chars, s, b) = Units(chars, s, a) + Units(chars, a, b)
        /\ Units(chars, s, a) \in Nat /\ Units(chars, a, b) \in Nat
        /\ Units(chars, a, b) >= 1
    BY <1>1, <2>0, UnitsAdd
  <2> QED BY <2>1
<1>2. i < j => Units(chars, s, i) < Units(chars, s, j)
  BY <1>1
<1>4. j < i => Units(chars, s, j) < Units(chars, s, i)
  BY <1>1
<1>3. Units(chars, s, i) \in Nat /\ Units(chars, s, j) \in Nat
  <2>1. \A k \in Nat : k <= k
    OBVIOUS
  <2> QED BY <2>1, UnitsAdd
<1> QED
  BY <1>2, <1>3, <1>4

-----------------------------------------------------------------------------
(* Lines: what the index and the client take for the start of a line.        *)

(* A place and the start of its line.                                        *)
Starts(s, i) ==
  /\ s \in LineStarts(text) /\ s <= i
  /\ \A r \in LineStarts(text) : r <= i => r <= s

LEMMA LineStartsAre ==
  ASSUME text \in Seq(STRING)
  PROVE  /\ End \in Nat /\ End >= 1 /\ Places(text) = 1 .. End
         /\ LineStarts(text) \in SUBSET Nat /\ IsFiniteSet(LineStarts(text))
         /\ 1 \in LineStarts(text) /\ LineStarts(text) \subseteq 1 .. End
         /\ LineCount(text) \in Nat /\ LineCount(text) = Cardinality(LineStarts(text))
         /\ \A k \in 1 .. End - 1 : text[k] = "LF" <=> k + 1 \in LineStarts(text)
<1>1. End \in Nat /\ End >= 1 /\ Len(text) + 1 = End
  BY DEF End
<1>2. /\ LineStarts(text) \in SUBSET Nat /\ 1 \in LineStarts(text)
      /\ \A s \in LineStarts(text) : s \in 1 .. End
  BY <1>1 DEF LineStarts
<1>3. IsFiniteSet(LineStarts(text))
  <2>1. \A s \in LineStarts(text) : s <= End
    BY <1>1, <1>2
  <2> QED
    BY <1>1, <1>2, <2>1, FS_BoundedSetOfNaturals
<1>4. ASSUME NEW k \in 1 .. End - 1
      PROVE  text[k] = "LF" <=> k + 1 \in LineStarts(text)
  <2>1. k + 1 \in 2 .. Len(text) + 1 /\ (k + 1) - 1 = k /\ k + 1 # 1
    BY <1>1
  <2> QED
    BY <2>1 DEF LineStarts
<1>5. LineCount(text) \in Nat
  BY <1>3, FS_CardinalityType DEF LineCount
<1> QED
  BY <1>1, <1>2, <1>3, <1>4, <1>5 DEF Places, LineCount

LEMMA EveryLineStarts ==
  ASSUME text \in Seq(STRING), NEW i \in 1 .. End
  PROVE  /\ Starts(StartOfLine(text, LineOf(text, i)), i)
         /\ LineOf(text, i) \in Nat /\ LineOf(text, i) < LineCount(text)
<1> DEFINE S == LineStarts(text)
<1>1. /\ S \in SUBSET Nat /\ IsFiniteSet(S) /\ 1 \in S /\ End \in Nat
      /\ LineCount(text) \in Nat /\ LineCount(text) = Cardinality(S)
  BY LineStartsAre
<1>2. i \in Nat /\ 1 <= i
  BY <1>1
<1>3. PICK s \in S : s <= i /\ \A r \in S : r <= i => r <= s
  <2> HIDE DEF S
  <2> QED BY <1>1, <1>2, LastUpTo
<1>4. Rank(S, i) = Rank(S, s)
  <2> HIDE DEF S
  <2> QED BY <1>1, <1>2, <1>3, RankCounts
<1>5. Nth(S, Rank(S, s)) = s
  <2> HIDE DEF S
  <2> QED BY <1>1, NthOfRank
<1>6. Rank(S, i) \in 1 .. Cardinality(S)
  <2> HIDE DEF S
  <2>1. Rank(S, i) \in 0 .. Cardinality(S) /\ Rank(S, i) >= 1
    BY <1>1, <1>2, <1>3, RankIsInRange
  <2> QED BY <1>1, <2>1
<1>7. LineOf(text, i) + 1 = Rank(S, i)
  BY <1>1, <1>6 DEF LineOf
<1>8. StartOfLine(text, LineOf(text, i)) = s
  BY <1>4, <1>5, <1>7 DEF StartOfLine
<1>9. LineOf(text, i) \in Nat /\ LineOf(text, i) < LineCount(text)
  BY <1>1, <1>6 DEF LineOf
<1> QED
  BY <1>3, <1>8, <1>9 DEF Starts

(* Two places are on one line when the same line start is the last before    *)
(* them.                                                                     *)
LEMMA SameStartSameLine ==
  ASSUME text \in Seq(STRING), NEW i \in 1 .. End, NEW j \in 1 .. End, i <= j
  PROVE  /\ LineOf(text, i) <= LineOf(text, j)
         /\ LineOf(text, i) = LineOf(text, j) <=> \A s \in LineStarts(text) : s <= j => s <= i
<1>1. LineStarts(text) \in SUBSET Nat /\ End \in Nat
  BY LineStartsAre
<1>2. i \in Nat /\ j \in Nat
  BY <1>1
<1> DEFINE S == LineStarts(text)
<1>3. /\ Rank(S, i) \in Nat /\ Rank(S, j) \in Nat /\ Rank(S, i) <= Rank(S, j)
      /\ Rank(S, i) = Rank(S, j) <=> \A s \in S : s <= j => s <= i
  <2> HIDE DEF S
  <2>1. S \in SUBSET Nat
    BY <1>1 DEF S
  <2> QED BY <1>2, <2>1, RankCounts, Zenon
<1>4. LineOf(text, i) = Rank(S, i) - 1 /\ LineOf(text, j) = Rank(S, j) - 1
  BY DEF LineOf
<1> HIDE DEF S
<1>5. /\ LineOf(text, i) <= LineOf(text, j)
      /\ LineOf(text, i) = LineOf(text, j) <=> Rank(S, i) = Rank(S, j)
  BY <1>3, <1>4
<1> QED
  BY <1>3, <1>5, Zenon DEF S

LEMMA LinesAreNumbered ==
  ASSUME text \in Seq(STRING), NEW line \in Nat, line < LineCount(text)
  PROVE  /\ StartOfLine(text, line) \in LineStarts(text)
         /\ StartOfLine(text, line) \in 1 .. End
         /\ LineOf(text, StartOfLine(text, line)) = line
<1>1. /\ LineStarts(text) \in SUBSET Nat /\ IsFiniteSet(LineStarts(text))
      /\ LineCount(text) \in Nat /\ LineCount(text) = Cardinality(LineStarts(text))
      /\ LineStarts(text) \subseteq 1 .. End
  BY LineStartsAre
<1>2. line + 1 \in 1 .. Cardinality(LineStarts(text))
  BY <1>1
<1>3. /\ Nth(LineStarts(text), line + 1) \in LineStarts(text)
      /\ Rank(LineStarts(text), Nth(LineStarts(text), line + 1)) = line + 1
  BY <1>1, <1>2, EveryRank
<1> QED
  BY <1>1, <1>3 DEF StartOfLine, LineOf

(* The next line, where there is one.                                        *)
LEMMA NextLineStarts ==
  ASSUME text \in Seq(STRING), NEW i \in 1 .. End,
         NEW line, line = LineOf(text, i)
  PROVE  /\ line + 1 < LineCount(text) =>
              /\ StartOfLine(text, line + 1) \in LineStarts(text)
              /\ i < StartOfLine(text, line + 1)
              /\ \A s \in LineStarts(text) : s < StartOfLine(text, line + 1) => s <= i
         /\ ~(line + 1 < LineCount(text)) => \A s \in LineStarts(text) : s <= i
<1> DEFINE S == LineStarts(text)
           next == StartOfLine(text, line + 1)
<1>1. /\ S \in SUBSET Nat /\ IsFiniteSet(S) /\ S \subseteq 1 .. End /\ End \in Nat
      /\ LineCount(text) \in Nat /\ LineCount(text) = Cardinality(S)
  BY LineStartsAre
<1>2. line \in Nat /\ line < LineCount(text) /\ i \in Nat
  BY <1>1, EveryLineStarts
<1>3. ASSUME line + 1 < LineCount(text)
      PROVE  next \in S /\ i < next /\ \A s \in S : s < next => s <= i
  <2>1. next \in S /\ next \in 1 .. End /\ LineOf(text, next) = line + 1
    BY <1>2, <1>3, LinesAreNumbered
  <2> HIDE DEF next
  <2>2. i < next
    <3>1. ~(next <= i)
      BY <1>1, <1>2, <2>1, SameStartSameLine
    <3> QED BY <1>2, <2>1, <3>1
  <2>3. ASSUME NEW s \in S, s < next, ~(s <= i)
        PROVE  FALSE
    <3>1. s \in 1 .. End /\ i <= s /\ s <= next
      BY <1>1, <1>2, <2>1, <2>3
    <3>2. LineOf(text, i) <= LineOf(text, s) /\ LineOf(text, i) # LineOf(text, s)
      BY <2>3, <3>1, SameStartSameLine
    <3>3. LineOf(text, s) <= LineOf(text, next) /\ LineOf(text, s) # LineOf(text, next)
      <4>1. next <= next /\ ~(next <= s)
        BY <2>1, <2>3, <3>1
      <4> QED BY <2>1, <3>1, <4>1, SameStartSameLine
    <3>4. LineOf(text, s) \in Nat
      BY <3>1, EveryLineStarts
    <3> QED
      BY <1>2, <2>1, <3>2, <3>3, <3>4
  <2> QED
    BY <2>1, <2>2, <2>3
<1>4. ASSUME ~(line + 1 < LineCount(text))
      PROVE  \A s \in S : s <= i
  <2>1. Rank(S, i) = Cardinality(S)
    <3>1. Rank(S, i) \in 0 .. Cardinality(S)
      <4> HIDE DEF S
      <4> QED BY <1>1, <1>2, RankIsInRange
    <3>2. line = Rank(S, i) - 1
      BY DEF LineOf
    <3> QED BY <1>1, <1>2, <1>4, <3>1, <3>2
  <2> HIDE DEF S
  <2> QED
    BY <1>1, <1>2, <2>1, RankIsInRange
<1> QED
  BY <1>3, <1>4

LEMMA ClientStartsAreTheServers ==
  ASSUME text \in Seq(STRING), NoLoneCR
  PROVE  /\ ClientStarts = LineStarts(text)
         /\ \A i : ClientLine(i) = LineOf(text, i)
         /\ \A line : ClientStart(line) = StartOfLine(text, line)
<1>1. ASSUME NEW i \in 2 .. End
      PROVE  text[i - 1] = "LF" \/ (text[i - 1] = "CR" /\ At(i) # "LF")
               <=> text[i - 1] = "LF"
  <2>1. i - 1 \in 1 .. Len(text) /\ (i - 1) + 1 = i
    BY LineStartsAre DEF End
  <2> QED
    BY <2>1 DEF NoLoneCR
<1>2. ClientStarts = LineStarts(text)
  BY <1>1 DEF ClientStarts, LineStarts, End
<1> QED
  BY <1>2 DEF ClientLine, ClientStart, LineOf, StartOfLine

(* Between the start of a line and a place of it no line ends, unless the    *)
(* place is between a CR and its LF.                                         *)
LEMMA NoLineEndsBefore ==
  ASSUME text \in Seq(STRING), NoLoneCR, NEW i \in 1 .. End, NEW s, Starts(s, i),
         NEW k \in s .. i - 1, text[k] \in Newlines
  PROVE  InsideCRLF(i) /\ k = i - 1
<1>1. /\ s \in 1 .. End /\ End \in Nat /\ k \in 1 .. End - 1 /\ i \in Nat
      /\ \A m \in 1 .. End - 1 : text[m] = "LF" <=> m + 1 \in LineStarts(text)
  BY LineStartsAre DEF Starts
<1>2. ASSUME NEW m \in s .. i - 1
      PROVE  text[m] # "LF"
  <2>1. m + 1 \in Nat /\ m + 1 <= i /\ ~(m + 1 <= s)
    BY <1>1
  <2>2. m + 1 \notin LineStarts(text)
    BY <2>1 DEF Starts
  <2> QED
    BY <1>1, <2>2
<1>3. text[k] = "CR" /\ At(k + 1) = "LF"
  <2>1. text[k] = "CR"
    BY <1>2 DEF Newlines
  <2>2. k \in 1 .. Len(text)
    BY <1>1 DEF End
  <2> QED
    BY <2>1, <2>2 DEF NoLoneCR
<1>4. k + 1 < End /\ text[k + 1] = "LF"
  BY <1>3 DEF At
<1>5. k + 1 = i
  BY <1>1, <1>2, <1>4
<1>6. i - 1 = k /\ i > 1
  BY <1>1, <1>5
<1> QED
  BY <1>3, <1>4, <1>5, <1>6 DEF InsideCRLF

LEMMA LastShown ==
  ASSUME NEW S, NEW m \in S, \A k \in S : k \in Nat /\ k <= m, m \in Nat
  PROVE  (CHOOSE i \in S : \A k \in S : k <= i) = m
<1>1. \A i \in S : (\A k \in S : k <= i) => i = m
  OBVIOUS
<1>2. \A k \in S : k <= m
  OBVIOUS
<1> QED
  BY <1>1, <1>2, Zenon

(* The client shows a place where it is, and the middle of a line end before *)
(* the line end.                                                             *)
LEMMA ClientShows ==
  ASSUME text \in Seq(STRING), NoLoneCR, NEW i \in 1 .. End
  PROVE  ClientPlace(PositionAt(text, i)) = IF InsideCRLF(i) THEN i - 1 ELSE i
<1> DEFINE line == LineOf(text, i)
           s == StartOfLine(text, line)
           p == PositionAt(text, i)
           reached == {j \in ClientContent(line) : Units(text, s, j) <= Units(text, s, i)}
           shown == IF InsideCRLF(i) THEN i - 1 ELSE i
<1>1. Starts(s, i) /\ s \in 1 .. End /\ End \in Nat /\ i \in Nat /\ s <= i
  BY EveryLineStarts, LineStartsAre DEF Starts
<1>2. p.line = line /\ p.character = Units(text, s, i)
  BY DEF PositionAt
<1>3. ClientStart(line) = s
  BY ClientStartsAreTheServers
<1>4. ClientPlace(p) = CHOOSE j \in reached : \A k \in reached : k <= j
  BY <1>2, <1>3 DEF ClientPlace
<1>5. ClientContent(line) = {j \in s .. End : \A k \in s .. j - 1 : text[k] \notin Newlines}
  BY <1>3 DEF ClientContent
<1> HIDE DEF line, s, p
<1>6. \A j \in reached : j \in s .. i /\ \A k \in s .. j - 1 : text[k] \notin Newlines
  <2> SUFFICES ASSUME NEW j \in reached
               PROVE  j \in s .. i /\ \A k \in s .. j - 1 : text[k] \notin Newlines
    OBVIOUS
  <2>1. j \in s .. End /\ (\A k \in s .. j - 1 : text[k] \notin Newlines)
        /\ Units(text, s, j) <= Units(text, s, i)
    BY <1>5
  <2>2. j <= i
    BY <1>1, <2>1, UnitsGrow
  <2> QED
    BY <1>1, <2>1, <2>2
<1>7. \A j \in s .. i : (\A k \in s .. j - 1 : text[k] \notin Newlines) => j \in reached
  <2> SUFFICES ASSUME NEW j \in s .. i, \A k \in s .. j - 1 : text[k] \notin Newlines
               PROVE  j \in reached
    OBVIOUS
  <2>1. j \in s .. End /\ j \in Nat /\ s <= j /\ j <= i
    BY <1>1
  <2>2. Units(text, s, j) <= Units(text, s, i)
    BY <1>1, <2>1, UnitsGrow
  <2> QED
    BY <1>5, <2>1, <2>2
<1>8. CASE InsideCRLF(i)
  <2>1. i > 1 /\ i < End /\ text[i - 1] = "CR" /\ text[i] = "LF"
    BY <1>8 DEF InsideCRLF
  <2>2. s # i
    BY <1>1, <2>1 DEF Starts, LineStarts
  <2>3. i - 1 \in s .. i
    BY <1>1, <2>2
  <2>4. \A k \in s .. (i - 1) - 1 : text[k] \notin Newlines
    <3> SUFFICES ASSUME NEW k \in s .. (i - 1) - 1, text[k] \in Newlines
                 PROVE  FALSE
      OBVIOUS
    <3>1. k \in s .. i - 1 /\ k # i - 1
      BY <1>1
    <3> QED
      BY <1>1, <3>1, NoLineEndsBefore
  <2>5. i - 1 \in reached
    BY <1>7, <2>3, <2>4
  <2>6. \A j \in reached : j \in Nat /\ j <= i - 1
    <3> SUFFICES ASSUME NEW j \in reached PROVE j \in Nat /\ j <= i - 1
      OBVIOUS
    <3>1. j \in s .. i /\ \A k \in s .. j - 1 : text[k] \notin Newlines
      BY <1>6
    <3>2. j # i
      BY <2>1, <2>3, <3>1, <1>1 DEF Newlines
    <3> QED
      BY <1>1, <3>1, <3>2
  <2> HIDE DEF reached
  <2>7. (CHOOSE j \in reached : \A k \in reached : k <= j) = i - 1
    <3>1. i - 1 \in Nat
      BY <1>1, <2>1
    <3> QED
      BY <2>5, <2>6, <3>1, LastShown
  <2> QED
    BY <1>4, <1>8, <2>7 DEF p
<1>9. CASE ~InsideCRLF(i)
  <2>1. \A k \in s .. i - 1 : text[k] \notin Newlines
    BY <1>1, <1>9, NoLineEndsBefore
  <2>2. i \in s .. i
    BY <1>1
  <2>3. i \in reached
    BY <1>7, <2>1, <2>2
  <2>4. \A j \in reached : j \in Nat /\ j <= i
    <3> HIDE DEF reached
    <3> QED BY <1>1, <1>6
  <2> HIDE DEF reached
  <2>5. (CHOOSE j \in reached : \A k \in reached : k <= j) = i
    BY <1>1, <2>3, <2>4, LastShown
  <2> QED
    BY <1>4, <1>9, <2>5 DEF p
<1> QED
  BY <1>8, <1>9

(* And the server takes the place the client names.                          *)
LEMMA ServerTakes ==
  ASSUME text \in Seq(STRING), NoLoneCR, NEW i \in 1 .. End, ~InsideCRLF(i),
         NEW line, line = LineOf(text, i), NEW column,
         column = Units(text, StartOfLine(text, line), i)
  PROVE  PositionToOffset(text, line, column) = [place |-> i]
<1> DEFINE start == StartOfLine(text, line)
           end == IF line + 1 < LineCount(text) THEN StartOfLine(text, line + 1)
                  ELSE Len(text) + 1
           last == ContentEnd(text, start, end)
           exact == {j \in start .. last : Units(text, start, j) = column}
<1>1. Starts(start, i) /\ start \in 1 .. End /\ End \in Nat /\ i \in Nat /\ start <= i
  BY EveryLineStarts, LineStartsAre DEF Starts
<1>2. line \in Nat /\ line < LineCount(text) /\ LineCount(text) \in Nat
  BY EveryLineStarts, LineStartsAre
<1>3. /\ end \in 1 .. End /\ i <= end
      /\ end > start /\ text[end - 1] = "LF" => i < end
  <2>1. CASE line + 1 < LineCount(text)
    <3>1. end = StartOfLine(text, line + 1)
      BY <2>1
    <3>2. end \in LineStarts(text) /\ i < end
      BY <2>1, <3>1, NextLineStarts
    <3> HIDE DEF end
    <3>3. end \in 1 .. End
      BY <3>2, LineStartsAre
    <3> QED
      BY <1>1, <3>2, <3>3
  <2>2. CASE ~(line + 1 < LineCount(text))
    <3>1. end = End
      BY <2>2 DEF End
    <3>2. \A s \in LineStarts(text) : s <= i
      BY <2>2, NextLineStarts
    <3> HIDE DEF end
    <3>3. ASSUME end > start, text[end - 1] = "LF", ~(i < end)
          PROVE  FALSE
      <4>1. end - 1 \in 1 .. End - 1 /\ (end - 1) + 1 = End /\ i = End
        BY <1>1, <3>1, <3>3
      <4>2. End \in LineStarts(text)
        BY <3>3, <4>1, LineStartsAre
      <4>3. End <= start
        BY <1>1, <4>1, <4>2 DEF Starts
      <4> QED
        BY <1>1, <3>1, <3>3, <4>3
    <3>4. i <= end
      BY <1>1, <3>1
    <3> QED
      BY <1>1, <3>1, <3>3, <3>4
  <2> QED
    BY <2>1, <2>2
<1> HIDE DEF start, end
<1>4. last \in start .. end /\ i <= last
  <2> DEFINE beforeLF == IF end > start /\ text[end - 1] = "LF" THEN end - 1 ELSE end
  <2>1. beforeLF \in start .. end /\ i <= beforeLF
    BY <1>1, <1>3
  <2>2. last = IF beforeLF > start /\ text[beforeLF - 1] = "CR" THEN beforeLF - 1
               ELSE beforeLF
    BY DEF ContentEnd
  <2>3. ASSUME beforeLF > start, text[beforeLF - 1] = "CR", i = beforeLF
        PROVE  FALSE
    <3>1. beforeLF \in 1 .. End /\ beforeLF - 1 \in 1 .. Len(text)
          /\ (beforeLF - 1) + 1 = beforeLF
      BY <1>1, <1>3, <2>1, <2>3 DEF End
    <3>2. At(beforeLF) = "LF"
      BY <2>3, <3>1 DEF NoLoneCR
    <3> HIDE DEF beforeLF
    <3> QED
      BY <1>1, <2>3, <3>1, <3>2 DEF At, InsideCRLF
  <2> HIDE DEF beforeLF, last
  <2> QED
    BY <1>1, <1>3, <2>1, <2>2, <2>3
<1> HIDE DEF last
<1>5. exact = {i}
  <2>1. i \in exact
    BY <1>1, <1>4 DEF start
  <2>2. ASSUME NEW j \in exact PROVE j = i
    <3>1. j \in start .. last /\ Units(text, start, j) = Units(text, start, i)
      BY DEF start
    <3> QED
      BY <1>1, <1>3, <1>4, <3>1, UnitsGrow
  <2> QED
    BY <2>1, <2>2
<1>6. Min(exact) = i
  BY <1>1, <1>5 DEF Min
<1>7. PositionToOffset(text, line, column)
        = IF exact # {} THEN [place |-> Min(exact)]
          ELSE IF \E j \in start .. last : Units(text, start, j) > column
               THEN Failure("surrogate") ELSE Failure("character")
  <2>1. ~(line >= LineCount(text))
    BY <1>2
  <2> QED
    BY <2>1, Zenon DEF PositionToOffset, start, end, last
<1> QED
  BY <1>5, <1>6, <1>7

(* Whatever the text whose lines end with LF or CRLF, positions and places   *)
(* are converted as the client means them.                                   *)
THEOREM PositionsAgree == LexerSpec => []PositionsAreTheClients
<1>1. ASSUME LexerInv PROVE PositionsAreTheClients
  <2> SUFFICES ASSUME NoLoneCR, NEW i \in Places(text)
               PROVE  IF InsideCRLF(i) THEN ClientPlace(PositionAt(text, i)) = i - 1
                      ELSE /\ ClientPlace(PositionAt(text, i)) = i
                           /\ LET line == ClientLine(i)
                                  column == Units(text, ClientStart(line), i)
                              IN PositionToOffset(text, line, column) = [place |-> i]
    BY DEF PositionsAreTheClients
  <2>1. text \in Seq(STRING) /\ i \in 1 .. End
    BY <1>1, LineStartsAre DEF LexerInv
  <2>2. ClientPlace(PositionAt(text, i)) = IF InsideCRLF(i) THEN i - 1 ELSE i
    BY <2>1, ClientShows
  <2>3. /\ ClientLine(i) = LineOf(text, i)
        /\ ClientStart(ClientLine(i)) = StartOfLine(text, LineOf(text, i))
    BY <2>1, ClientStartsAreTheServers
  <2>4. ~InsideCRLF(i) =>
          PositionToOffset(text, LineOf(text, i),
                           Units(text, StartOfLine(text, LineOf(text, i)), i)) = [place |-> i]
    BY <2>1, ServerTakes
  <2> QED
    BY <2>2, <2>3, <2>4
<1> QED
  BY <1>1, InitialLexer, LexerStep, PTL DEF LexerSpec

-----------------------------------------------------------------------------
(* What is shown of the compiler, and what a comment silences.               *)

LEMMA SkipStops ==
  ASSUME text \in Seq(STRING), NEW i \in 1 .. End, NEW S
  PROVE  /\ SkipUntil(i, S) \in i .. End
         /\ SkipUntil(i, S) = End \/ text[SkipUntil(i, S)] \in S
         /\ \A m \in i .. SkipUntil(i, S) - 1 : text[m] \notin S
<1> DEFINE stops == {j \in i .. End : j < End => text[j] \in S}
<1>1. End \in Nat /\ i \in Nat
  BY DEF End
<1>2. stops \in SUBSET Nat /\ End \in stops
  BY <1>1
<1>3. Least(stops) \in stops /\ \A j \in stops : Least(stops) <= j
  <2> HIDE DEF stops
  <2> QED BY <1>2, LeastIsLeast
<1>4. SkipUntil(i, S) \in stops /\ \A j \in stops : SkipUntil(i, S) <= j
  BY <1>3 DEF SkipUntil
<1> QED
  BY <1>1, <1>4

(* A message of stanc is shown on its line, and at its column where the line *)
(* has it, in texts of any length whose lines end with LF or CRLF.           *)
LEMMA RangesAreShown ==
  ASSUME text \in Seq(STRING), NoLoneCR, NEW line \in Nat \ {0}, NEW column \in Nat \ {0},
         line <= Cardinality(ClientStarts),
         NEW range, range = DiagnosticRange(line, column),
         NEW named, named = ClientStart(line - 1) + column - 1
  PROVE  /\ PositionAt(text, range.start).line = line - 1
         /\ named \in ClientContent(line - 1) /\ named + 1 \in ClientContent(line - 1) =>
              /\ ClientPlace(PositionAt(text, range.start)) = named
              /\ ClientPlace(PositionAt(text, range.end)) = named + 1
<1> DEFINE first == StartOfLine(text, line - 1)
           last  == SkipUntil(first, {"LF"})
           at    == first + column - 1
           start == IF at < last THEN at ELSE last
<1>1. /\ LineCount(text) \in Nat /\ line <= LineCount(text)
      /\ LineStarts(text) \in SUBSET Nat /\ End \in Nat
      /\ \A m \in 1 .. End - 1 : text[m] = "LF" <=> m + 1 \in LineStarts(text)
  BY LineStartsAre, ClientStartsAreTheServers
<1>2. /\ first \in LineStarts(text) /\ first \in 1 .. End /\ first \in Nat
      /\ LineOf(text, first) = line - 1
  <2>1. line - 1 \in Nat /\ line - 1 < LineCount(text)
    BY <1>1
  <2> QED
    BY <1>1, <2>1, LinesAreNumbered
<1>3. /\ named = at /\ ClientStart(line - 1) = first
      /\ at \in Nat /\ first <= at
  <2>1. first + column - 1 \in Nat /\ first <= first + column - 1
    <3> HIDE DEF first
    <3> QED BY <1>2
  <2> QED
    BY <2>1, ClientStartsAreTheServers
<1>4. range = [start |-> start, end |-> IF start < End THEN start + 1 ELSE start]
  BY <1>1, Zenon DEF DiagnosticRange
<1> HIDE DEF first, at
<1>5. /\ last \in first .. End
      /\ last = End \/ text[last] = "LF"
      /\ \A m \in first .. last - 1 : text[m] # "LF"
  BY <1>2, SkipStops DEF last
<1> HIDE DEF last
<1>a. End \in Nat /\ last \in first .. End
  BY <1>1, <1>5
<1>b. first \in Nat /\ 1 <= first
  BY <1>2
<1>c. last \in Nat /\ first <= last /\ last <= End
  BY <1>a, <1>b
<1>6. start \in first .. last /\ start \in 1 .. End
  <2>1. start \in Nat /\ first <= start /\ start <= last
    BY <1>3, <1>b, <1>c
  <2> HIDE DEF start
  <2> QED
    BY <1>a, <1>b, <1>c, <2>1
<1>7. LineOf(text, start) = line - 1
  <2> HIDE DEF start
  <2>1. ASSUME NEW s \in LineStarts(text), s <= start
        PROVE  s <= first
    <3> SUFFICES ASSUME first < s PROVE FALSE
      BY <1>1, <1>2
    <3>0. s \in Nat /\ start \in Nat /\ start <= last
      BY <1>1, <1>6, <1>b, <1>c
    <3>1. s - 1 \in first .. last - 1 /\ s - 1 \in 1 .. End - 1 /\ (s - 1) + 1 = s
      BY <1>a, <1>b, <1>c, <2>1, <3>0
    <3> QED
      BY <1>1, <1>5, <3>1
  <2>2. LineOf(text, first) = LineOf(text, start)
    BY <1>2, <1>6, <2>1, SameStartSameLine
  <2> QED
    BY <1>2, <2>2
<1>8. PositionAt(text, range.start).line = line - 1
  <2> HIDE DEF start
  <2> QED BY <1>4, <1>7 DEF PositionAt
<1>9. ASSUME named \in ClientContent(line - 1), named + 1 \in ClientContent(line - 1)
      PROVE  /\ ClientPlace(PositionAt(text, range.start)) = named
             /\ ClientPlace(PositionAt(text, range.end)) = named + 1
  <2>0. /\ named + 1 \in first .. End
        /\ \A k \in first .. (named + 1) - 1 : text[k] \notin Newlines
    BY <1>3, <1>9 DEF ClientContent
  <2>1. /\ named \in first .. End /\ named + 1 \in first .. End /\ named \in Nat
        /\ \A k \in first .. named : text[k] \notin Newlines
    <3>1. (named + 1) - 1 = named /\ named \in Nat /\ first <= named
      BY <1>3
    <3>2. named \in first .. End
      BY <1>a, <1>b, <2>0, <3>1
    <3> QED BY <2>0, <3>1, <3>2
  <2>2. named \in 1 .. End - 1 /\ named + 1 \in 1 .. End /\ (named + 1) - 1 = named
        /\ text[named] \notin Newlines
    BY <1>1, <1>2, <2>1
  <2>3. named < last
    <3>1. ~(last <= named)
      <4> SUFFICES ASSUME last <= named PROVE FALSE
        OBVIOUS
      <4>1. last \in first .. named /\ last # End
        BY <1>a, <1>b, <1>c, <2>1, <2>2
      <4> QED
        BY <1>5, <2>1, <4>1 DEF Newlines
    <3> QED
      BY <1>c, <2>1, <3>1
  <2>4. start = named /\ range.start = named /\ range.end = named + 1
    BY <1>1, <1>3, <1>4, <2>2, <2>3
  <2>5. ~InsideCRLF(named) /\ ~InsideCRLF(named + 1)
    BY <2>2 DEF InsideCRLF, Newlines
  <2> QED
    BY <1>1, <2>2, <2>4, <2>5, ClientShows
<1> QED
  BY <1>8, <1>9

THEOREM CompilerRangesAgree == LexerSpec => []CompilerRangesAreShown
<1>1. ASSUME LexerInv PROVE CompilerRangesAreShown
  <2> SUFFICES ASSUME NoLoneCR, NEW line \in 1 .. MaxLine, NEW column \in 1 .. MaxColumn,
                      line <= Cardinality(ClientStarts)
               PROVE  LET range == DiagnosticRange(line, column)
                          start == PositionAt(text, range.start)
                          named == ClientStart(line - 1) + column - 1
                      IN  /\ start.line = line - 1
                          /\ (named \in ClientContent(line - 1)
                              /\ named + 1 \in ClientContent(line - 1)) =>
                               /\ ClientPlace(start) = named
                               /\ ClientPlace(PositionAt(text, range.end)) = named + 1
    BY DEF CompilerRangesAreShown
  <2>1. line \in Nat \ {0} /\ column \in Nat \ {0}
    OBVIOUS
  <2> QED
    BY <1>1, <2>1, RangesAreShown, Zenon DEF LexerInv
<1> QED
  BY <1>1, InitialLexer, LexerStep, PTL DEF LexerSpec

(* A place is on a line when it is between the ends of that line.            *)
LEMMA PlacesOfLine ==
  ASSUME text \in Seq(STRING), NEW i \in 1 .. End - 1, NEW line \in Nat,
         line < LineCount(text)
  PROVE  LineOf(text, i) = line <=> i \in StartOfLine(text, line) .. LineEnd(line) - 1
<1> DEFINE s == StartOfLine(text, line)
           e == LineEnd(line)
<1>1. /\ LineStarts(text) \in SUBSET Nat /\ End \in Nat /\ i \in 1 .. End /\ i \in Nat
      /\ LineStarts(text) \subseteq 1 .. End
  BY LineStartsAre
<1>2. s \in LineStarts(text) /\ s \in 1 .. End /\ LineOf(text, s) = line
  BY LinesAreNumbered
<1>3. /\ e \in Nat /\ e <= End
      /\ \A r \in LineStarts(text) : r < e => r <= s
      /\ e < End => e \in LineStarts(text) /\ s < e
  <2>1. CASE line + 1 < LineCount(text)
    <3>1. e = StartOfLine(text, line + 1)
      BY <2>1 DEF LineEnd
    <3>2. e \in LineStarts(text) /\ s < e /\ \A r \in LineStarts(text) : r < e => r <= s
      BY <1>2, <2>1, <3>1, NextLineStarts
    <3> HIDE DEF e, s
    <3> QED
      BY <1>1, <3>2
  <2>2. CASE ~(line + 1 < LineCount(text))
    <3>1. e = End
      BY <2>2 DEF LineEnd
    <3>2. \A r \in LineStarts(text) : r <= s
      BY <1>2, <2>2, NextLineStarts
    <3> HIDE DEF e, s
    <3> QED
      BY <1>1, <3>1, <3>2
  <2> QED
    BY <2>1, <2>2
<1> HIDE DEF s, e
<1>4. ASSUME i \in s .. e - 1 PROVE LineOf(text, i) = line
  <2>1. s <= i /\ \A r \in LineStarts(text) : r <= i => r <= s
    BY <1>1, <1>2, <1>3, <1>4
  <2>2. LineOf(text, s) = LineOf(text, i)
    BY <1>1, <1>2, <2>1, SameStartSameLine
  <2> QED
    BY <1>2, <2>2
<1>5. ASSUME LineOf(text, i) = line PROVE i \in s .. e - 1
  <2>1. s <= i
    BY <1>1, <1>5, EveryLineStarts DEF Starts, s
  <2>2. ASSUME e <= i PROVE FALSE
    <3>1. e < End /\ e \in LineStarts(text) /\ s < e
      BY <1>1, <1>3, <2>2
    <3>2. e <= s
      BY <1>1, <1>5, <2>2, <3>1, EveryLineStarts DEF Starts, s
    <3> QED
      BY <1>1, <1>2, <1>3, <3>1, <3>2
  <2> QED
    BY <1>1, <1>2, <1>3, <2>1, <2>2
<1> QED
  BY <1>4, <1>5 DEF s, e

(* Whatever the text whose lines end with LF or CRLF, a comment that allows  *)
(* all lints silences the line the client shows below it and nothing else.   *)
THEOREM SuppressionsAgree == LexerSpec => []SuppressionsReachTheNextLine
<1>1. ASSUME LexerInv PROVE SuppressionsReachTheNextLine
  <2> SUFFICES ASSUME NoLoneCR, NEW n \in DOMAIN tokens, tokens[n].kind # "eof",
                      NEW i, i = tokens[n].start, NEW line, line = ClientLine(i)
               PROVE  Suppressed(i) <=> line > 0 /\ AllowsAll(line - 1)
    BY DEF SuppressionsReachTheNextLine
  <2>1. text \in Seq(STRING) /\ End \in Nat /\ LineCount(text) \in Nat
    BY <1>1, LineStartsAre DEF LexerInv
  <2>2. i \in 1 .. End - 1
    <3>1. /\ tokens[n] \in TokenRecord /\ tokens[n].start < tokens[n].end
          /\ tokens[n].start \in 1 .. tokens[n].end /\ tokens[n].end <= place
          /\ place \in 1 .. End
      BY <1>1 DEF LexerInv, TokensCoverText
    <3> QED
      BY <2>1, <3>1 DEF TokenRecord
  <2>3. line = LineOf(text, i) /\ line \in Nat /\ line < LineCount(text)
    BY <2>1, <2>2, ClientStartsAreTheServers, EveryLineStarts
  <2>4. \A l \in Nat : l < LineCount(text) =>
          (line = l <=> i \in StartOfLine(text, l) .. LineEnd(l) - 1)
    BY <2>1, <2>2, <2>3, PlacesOfLine
  <2>5. ASSUME Suppressed(i) PROVE line > 0 /\ AllowsAll(line - 1)
    <3>1. PICK l \in 0 .. LineCount(text) - 1 :
            /\ AllowsAll(l) /\ l + 1 < LineCount(text)
            /\ i \in StartOfLine(text, l + 1) .. LineEnd(l + 1) - 1
      BY <2>5 DEF Suppressed
    <3>2. l \in Nat /\ l + 1 \in Nat
      BY <2>1
    <3>3. line = l + 1 /\ line - 1 = l
      BY <2>4, <3>1, <3>2
    <3> QED
      BY <3>1, <3>2, <3>3
  <2>6. ASSUME line > 0, AllowsAll(line - 1) PROVE Suppressed(i)
    <3>1. line - 1 \in 0 .. LineCount(text) - 1 /\ (line - 1) + 1 = line
      BY <2>1, <2>3, <2>6
    <3> QED
      BY <2>3, <2>4, <2>6, <3>1 DEF Suppressed
  <2> QED
    BY <2>5, <2>6
<1> QED
  BY <1>1, InitialLexer, LexerStep, PTL DEF LexerSpec

-----------------------------------------------------------------------------
(* Semantic tokens: what is highlighted lies in order and starts with no     *)
(* blank, so the distances are those of the positions, and add up to them.   *)

TokensInOrder ==
  \A m \in DOMAIN tokens, n \in DOMAIN tokens : m < n => tokens[m].end <= tokens[n].start
StartsInk ==
  \A n \in DOMAIN tokens :
    tokens[n].kind \notin {"whitespace", "eof"} => text[tokens[n].start] \notin Whitespace
InkInv == LexerInv /\ TokensInOrder /\ StartsInk

LEMMA InkStep == InkInv /\ [LexerNext]_lexerVars => InkInv'
<1> SUFFICES ASSUME InkInv, [LexerNext]_lexerVars PROVE InkInv'
  OBVIOUS
<1>0. LexerInv /\ LexerInv' /\ TokensInOrder /\ StartsInk
  BY LexerStep DEF InkInv
<1>1. CASE UNCHANGED lexerVars
  BY <1>0, <1>1 DEF lexerVars, InkInv, TokensInOrder, StartsInk
<1>2. ASSUME NEW kind, NEW end, Push(kind, end), text' = text,
             kind \in {"whitespace", "eof"} \/ text[place] \notin Whitespace
      PROVE  InkInv'
  <2>0. PICK n : n = Len(tokens) + 1
    OBVIOUS
  <2>1. /\ DOMAIN tokens = 1 .. n - 1 /\ DOMAIN tokens' = 1 .. n /\ n \in Nat /\ n >= 1
        /\ tokens'[n].kind = kind /\ tokens'[n].start = place
        /\ \A m \in DOMAIN tokens : tokens'[m] = tokens[m]
    BY <1>0, <1>2, <2>0, PushedAt
  <2>2. \A m \in DOMAIN tokens : tokens[m].end <= place
    BY <1>0 DEF LexerInv
  <2>3. TokensInOrder'
    <3> SUFFICES ASSUME NEW j \in DOMAIN tokens', NEW m \in DOMAIN tokens', j < m
                 PROVE  tokens'[j].end <= tokens'[m].start
      BY DEF TokensInOrder
    <3>1. j \in DOMAIN tokens /\ tokens'[j] = tokens[j]
      BY <2>1
    <3>2. CASE m = n
      BY <2>1, <2>2, <3>1, <3>2
    <3>3. CASE m \in DOMAIN tokens
      BY <1>0, <2>1, <3>1, <3>3 DEF TokensInOrder
    <3> QED
      BY <2>1, <3>2, <3>3
  <2>4. StartsInk'
    <3> SUFFICES ASSUME NEW m \in DOMAIN tokens',
                        tokens'[m].kind \notin {"whitespace", "eof"}
                 PROVE  text'[tokens'[m].start] \notin Whitespace
      BY DEF StartsInk
    <3>1. CASE m = n
      BY <1>2, <2>1, <3>1
    <3>2. CASE m \in DOMAIN tokens
      BY <1>0, <1>2, <2>1, <3>2 DEF StartsInk
    <3> QED
      BY <2>1, <3>1, <3>2
  <2> QED
    BY <1>0, <2>3, <2>4 DEF InkInv
<1>3. CASE NextToken
  <2>1. PICK kind \in TokenKinds, end \in place + 1 .. End : Reads(kind, end)
    BY <1>0, <1>3, NextTokenReads
  <2> QED
    BY <1>2, <2>1 DEF Reads, ReadsBlanks, ReadsOther
<1>4. CASE LexEnd /\ UNCHANGED text
  BY <1>2, <1>4 DEF LexEnd
<1> QED
  BY <1>1, <1>3, <1>4 DEF LexerNext

(* The tokens shown, in their order.                                         *)
LEMMA ShownAre ==
  ASSUME InkInv
  PROVE  \E N \in Nat :
           /\ DOMAIN Shown = 1 .. N /\ Shown \in Seq(TokenRecord) /\ Len(Shown) = N
           /\ \A n \in 1 .. N : /\ Encodable(Shown[n])
                                /\ Shown[n].start \in 1 .. End - 1
                                /\ Shown[n].end \in Shown[n].start + 1 .. End
                                /\ text[Shown[n].start] \notin Whitespace
           /\ \A n \in 2 .. N : Shown[n - 1].start <= Shown[n].start
<1> DEFINE S == {n \in DOMAIN tokens : Encodable(tokens[n])}
           N == Cardinality(S)
<1>0. /\ tokens \in Seq(TokenRecord) /\ place \in 1 .. End /\ End \in Nat
      /\ DOMAIN tokens = 1 .. Len(tokens) /\ Len(tokens) \in Nat
  BY DEF InkInv, LexerInv, TokensCoverText, End
<1>1. S \in SUBSET Nat /\ IsFiniteSet(S) /\ N \in Nat
  <2>1. S \in SUBSET Nat /\ \A n \in S : n <= Len(tokens)
    BY <1>0
  <2>2. IsFiniteSet(S)
    <3> HIDE DEF S
    <3> QED BY <1>0, <2>1, FS_BoundedSetOfNaturals
  <2> QED
    BY <2>1, <2>2, FS_CardinalityType
<1>2. Shown = [n \in 1 .. N |-> tokens[Nth(S, n)]]
  BY DEF Shown
<1>3. \A n \in 1 .. N : Nth(S, n) \in S /\ Rank(S, Nth(S, n)) = n
  <2> HIDE DEF S
  <2> QED BY <1>1, EveryRank
<1>4. ASSUME NEW m \in S
      PROVE  /\ tokens[m] \in TokenRecord /\ Encodable(tokens[m])
             /\ tokens[m].start \in 1 .. End - 1
             /\ tokens[m].end \in tokens[m].start + 1 .. End
             /\ text[tokens[m].start] \notin Whitespace
  <2>1. m \in DOMAIN tokens /\ Encodable(tokens[m]) /\ tokens[m] \in TokenRecord
    BY <1>0
  <2>2. tokens[m].kind \notin {"whitespace", "eof"}
    BY <2>1 DEF Encodable, Highlighted
  <2>3. /\ tokens[m].start < tokens[m].end /\ tokens[m].end <= place
        /\ tokens[m].start \in Nat /\ tokens[m].end \in Nat /\ 1 <= tokens[m].start
        /\ text[tokens[m].start] \notin Whitespace
    BY <2>1, <2>2 DEF InkInv, StartsInk, LexerInv, TokensCoverText, TokenRecord
  <2> QED
    BY <1>0, <2>1, <2>3
<1> HIDE DEF S, N
<1>5. DOMAIN Shown = 1 .. N /\ \A n \in 1 .. N : Shown[n] = tokens[Nth(S, n)]
  BY <1>2
<1>6. Shown \in Seq(TokenRecord) /\ Len(Shown) = N
  <2>1. \A n \in 1 .. N : tokens[Nth(S, n)] \in TokenRecord
    BY <1>3, <1>4
  <2>2. Shown \in [1 .. N -> TokenRecord]
    BY <1>2, <2>1
  <2> QED
    BY <1>1, <1>5, <2>2
<1>7. ASSUME NEW n \in 2 .. N
      PROVE  Shown[n - 1].start <= Shown[n].start
  <2>1. n \in 1 .. N /\ n - 1 \in 1 .. N
    BY <1>1
  <2> DEFINE a == Nth(S, n - 1)
             b == Nth(S, n)
  <2>2. a \in S /\ b \in S /\ Rank(S, a) = n - 1 /\ Rank(S, b) = n
    BY <1>3, <2>1
  <2> HIDE DEF a, b
  <2>3. a < b
    <3>1. a \in Nat /\ b \in Nat
      BY <1>1, <2>2
    <3>2. ~(b <= a)
      <4>1. b <= a => Rank(S, b) <= Rank(S, a)
        BY <1>1, <3>1, RankCounts
      <4> QED BY <1>1, <2>1, <2>2, <4>1
    <3> QED BY <3>1, <3>2
  <2>4. tokens[a].end <= tokens[b].start
    BY <2>2, <2>3 DEF InkInv, TokensInOrder, S
  <2>5. tokens[a].start <= tokens[b].start
    BY <1>0, <1>4, <2>2, <2>4, SMTT(20)
  <2> QED
    BY <1>5, <2>1, <2>5 DEF a, b
<1>8. \A n \in 1 .. N : /\ Encodable(Shown[n])
                        /\ Shown[n].start \in 1 .. End - 1
                        /\ Shown[n].end \in Shown[n].start + 1 .. End
                        /\ text[Shown[n].start] \notin Whitespace
  BY <1>3, <1>4, <1>5
<1> QED
  BY <1>1, <1>5, <1>6, <1>7, <1>8

(* Positions in order.                                                       *)
LEMMA PositionsGrow ==
  ASSUME text \in Seq(STRING), NEW i \in 1 .. End, NEW j \in 1 .. End, i <= j
  PROVE  /\ PositionAt(text, i).line \in Nat /\ PositionAt(text, j).line \in Nat
         /\ PositionAt(text, i).character \in Nat /\ PositionAt(text, j).character \in Nat
         /\ PositionAt(text, i).line <= PositionAt(text, j).line
         /\ PositionAt(text, i).line = PositionAt(text, j).line =>
              PositionAt(text, i).character <= PositionAt(text, j).character
<1> DEFINE s == StartOfLine(text, LineOf(text, i))
           t == StartOfLine(text, LineOf(text, j))
<1>1. /\ LineOf(text, i) \in Nat /\ LineOf(text, j) \in Nat
      /\ s \in Nat /\ t \in Nat /\ i \in Nat /\ j \in Nat /\ s <= i /\ t <= j
  BY LineStartsAre, EveryLineStarts DEF Starts
<1>2. LineOf(text, i) <= LineOf(text, j)
  BY SameStartSameLine
<1>3. /\ Units(text, s, i) \in Nat /\ Units(text, t, j) \in Nat
      /\ s <= j => Units(text, s, i) <= Units(text, s, j)
  <2> HIDE DEF s, t
  <2> QED BY <1>1, UnitsGrow
<1>4. LineOf(text, i) = LineOf(text, j) => Units(text, s, i) <= Units(text, t, j)
  BY <1>1, <1>3
<1> QED
  BY <1>1, <1>2, <1>3, <1>4 DEF PositionAt

(* Where the client's sum begins, and the tokens it has to reach.            *)
Origin == [line |-> 0, character |-> 0]
Painted(n) == IF n = 0 THEN Origin ELSE PositionAt(text, Shown[n].start)

LEMMA PaintedGrow ==
  ASSUME InkInv, NEW n \in DOMAIN Shown
  PROVE  /\ Painted(n).line \in Nat /\ Painted(n - 1).line \in Nat
         /\ Painted(n).character \in Nat /\ Painted(n - 1).character \in Nat
         /\ Painted(n - 1).line <= Painted(n).line
         /\ Painted(n - 1).line = Painted(n).line =>
              Painted(n - 1).character <= Painted(n).character
<1>1. PICK N \in Nat :
           /\ DOMAIN Shown = 1 .. N
           /\ \A m \in 1 .. N : Shown[m].start \in 1 .. End - 1
           /\ \A m \in 2 .. N : Shown[m - 1].start <= Shown[m].start
  BY ShownAre
<1>2. text \in Seq(STRING) /\ End \in Nat
  BY LineStartsAre DEF InkInv, LexerInv
<1>3. n \in Nat /\ n >= 1 /\ Shown[n].start \in 1 .. End
  BY <1>1, <1>2
<1>4. Painted(n) = PositionAt(text, Shown[n].start)
  BY <1>3 DEF Painted
<1>5. CASE n = 1
  <2>1. Painted(n - 1) = Origin
    BY <1>5 DEF Painted
  <2>2. Painted(n - 1).line = 0 /\ Painted(n - 1).character = 0
    BY <2>1 DEF Origin
  <2>3. Shown[n].start <= Shown[n].start
    BY <1>2, <1>3
  <2>4. Painted(n).line \in Nat /\ Painted(n).character \in Nat
    BY <1>2, <1>3, <1>4, <2>3, PositionsGrow
  <2> QED
    BY <2>2, <2>4
<1>6. CASE n # 1
  <2>1. n \in 2 .. N /\ n - 1 \in 1 .. N /\ n - 1 # 0
    BY <1>1, <1>3, <1>6
  <2>2. Shown[n - 1].start \in 1 .. End /\ Shown[n - 1].start <= Shown[n].start
    BY <1>1, <1>2, <2>1
  <2>3. Painted(n - 1) = PositionAt(text, Shown[n - 1].start)
    BY <2>1 DEF Painted
  <2> QED
    BY <1>2, <1>3, <1>4, <2>2, <2>3, PositionsGrow
<1> QED
  BY <1>5, <1>6

LEMMA EncodedAre ==
  ASSUME InkInv, NEW n \in DOMAIN Shown
  PROVE  /\ DOMAIN SemanticTokens = DOMAIN Shown
         /\ SemanticTokens[n].deltaLine = Painted(n).line - Painted(n - 1).line
         /\ SemanticTokens[n].deltaStart =
              IF Painted(n).line = Painted(n - 1).line
              THEN Painted(n).character - Painted(n - 1).character
              ELSE Painted(n).character
         /\ SemanticTokens[n].length =
              PositionAt(text, Shown[n].end).character - Painted(n).character
         /\ SemanticTokens[n].type = Shown[n].kind
<1>1. PICK N \in Nat : DOMAIN Shown = 1 .. N /\ Shown \in Seq(TokenRecord)
  BY ShownAre
<1> DEFINE previous == SubSeq(Shown, 1, n - 1)
           q == IF previous = <<>> THEN Origin
                ELSE PositionAt(text, previous[Len(previous)].start)
           p == PositionAt(text, Shown[n].start)
<1>2. n \in Nat /\ n >= 1 /\ n - 1 \in Int /\ 1 \in Int
  BY <1>1
<1>3. \A i \in 1 .. n - 1 : Shown[i] \in TokenRecord
  BY <1>1
<1>4. /\ previous \in Seq(TokenRecord)
      /\ Len(previous) = IF 1 <= n - 1 THEN (n - 1) - 1 + 1 ELSE 0
      /\ \A i \in 1 .. (n - 1) - 1 + 1 : previous[i] = Shown[1 + i - 1]
  BY <1>2, <1>3, SubSeqProperties
<1> HIDE DEF previous
<1>5. Painted(n) = p
  BY <1>2 DEF Painted
<1>6. Painted(n - 1) = q
  <2>1. CASE n = 1
    <3>1. Len(previous) = 0
      BY <1>4, <2>1
    <3>2. previous = <<>>
      BY <1>4, <3>1
    <3> QED
      BY <2>1, <3>2 DEF Painted
  <2>2. CASE n # 1
    <3>1. n - 1 \in Nat /\ n - 1 >= 1 /\ (n - 1) - 1 + 1 = n - 1 /\ 1 + (n - 1) - 1 = n - 1
      BY <1>2, <2>2
    <3>2. Len(previous) = n - 1
      BY <1>4, <3>1
    <3>3. previous[n - 1] = Shown[n - 1]
      BY <1>4, <3>1
    <3>4. previous # <<>>
      BY <3>1, <3>2
    <3> QED
      BY <3>1, <3>2, <3>3, <3>4 DEF Painted
  <2> QED
    BY <2>1, <2>2
<1>7. SemanticTokens[n] = Encoded(Shown[n], previous)
  BY DEF SemanticTokens, previous
<1>8. Encoded(Shown[n], previous) =
        [deltaLine |-> p.line - q.line,
         deltaStart |-> IF p.line = q.line THEN p.character - q.character ELSE p.character,
         length |-> PositionAt(text, Shown[n].end).character - p.character,
         type |-> Shown[n].kind]
  BY Zenon DEF Encoded, Origin
<1> HIDE DEF p, q
<1>9. DOMAIN SemanticTokens = DOMAIN Shown
  BY DEF SemanticTokens
<1> QED
  BY <1>5, <1>6, <1>7, <1>8, <1>9

(* The client's sum, by its recursion: it is where the tokens are.           *)
LEMMA SumsAreThePositions ==
  ASSUME InkInv, NEW n \in DOMAIN Shown
  PROVE  Decoded(SemanticTokens)[n] = Painted(n)
<1> DEFINE data == SemanticTokens
           Step(f, m) == [line |-> f[m - 1].line + data[m].deltaLine,
                          character |-> IF data[m].deltaLine = 0
                                        THEN f[m - 1].character + data[m].deltaStart
                                        ELSE data[m].deltaStart]
           Sums(f, N) == f = [m \in 0 .. N |-> IF m = 0 THEN Origin ELSE Step(f, m)]
<1>1. PICK N \in Nat : DOMAIN Shown = 1 .. N /\ Shown \in Seq(TokenRecord)
  BY ShownAre
<1>2. data = [m \in 1 .. N |-> Encoded(Shown[m], SubSeq(Shown, 1, m - 1))]
  BY <1>1 DEF SemanticTokens
<1>3. Len(data) = N
  BY <1>1, <1>2
<1>4. Decoded(data) = CHOOSE f : Sums(f, Len(data))
  BY Zenon DEF Decoded, Origin
<1>5. ASSUME NEW m \in 1 .. N, NEW f, f[m - 1] = Painted(m - 1)
      PROVE  Step(f, m) = Painted(m)
  <2>1. /\ data[m].deltaLine = Painted(m).line - Painted(m - 1).line
        /\ data[m].deltaStart = IF Painted(m).line = Painted(m - 1).line
                                THEN Painted(m).character - Painted(m - 1).character
                                ELSE Painted(m).character
    BY <1>1, EncodedAre
  <2>2. /\ Painted(m).line \in Nat /\ Painted(m - 1).line \in Nat
        /\ Painted(m).character \in Nat /\ Painted(m - 1).character \in Nat
    BY <1>1, PaintedGrow
  <2>3. Step(f, m).line = Painted(m).line
    BY <1>5, <2>1, <2>2
  <2>4. Step(f, m).character = Painted(m).character
    BY <1>5, <2>1, <2>2
  <2>5. Painted(m) = [line |-> Painted(m).line, character |-> Painted(m).character]
    <3>1. m # 0
      BY <1>1
    <3> QED BY <3>1 DEF Painted, PositionAt
  <2>6. Step(f, m) = [line |-> Step(f, m).line, character |-> Step(f, m).character]
    OBVIOUS
  <2> HIDE DEF Step
  <2> QED
    BY <2>3, <2>4, <2>5, <2>6
<1>6. Sums([m \in 0 .. N |-> Painted(m)], N)
  <2> DEFINE g == [m \in 0 .. N |-> Painted(m)]
  <2>1. \A m \in 0 .. N : g[m] = Painted(m)
    OBVIOUS
  <2>2. ASSUME NEW m \in 0 .. N
        PROVE  Painted(m) = IF m = 0 THEN Origin ELSE Step(g, m)
    <3>1. CASE m = 0
      BY <3>1 DEF Painted
    <3>2. CASE m # 0
      <4>1. m \in 1 .. N /\ m - 1 \in 0 .. N
        BY <1>1, <3>2
      <4>2. g[m - 1] = Painted(m - 1)
        BY <2>1, <4>1
      <4> HIDE DEF g, Step
      <4> QED
        BY <1>5, <3>2, <4>1, <4>2
    <3> QED
      BY <3>1, <3>2
  <2> QED
    BY <2>2
<1>7. Sums(Decoded(data), N)
  <2> HIDE DEF Sums, data
  <2> QED
    BY <1>3, <1>4, <1>6
<1> DEFINE f == Decoded(data)
           Off == {m \in 0 .. N : f[m] # Painted(m)}
<1>8. Off = {}
  <2> SUFFICES ASSUME Off # {} PROVE FALSE
    OBVIOUS
  <2>1. Off \in SUBSET Nat
    BY <1>1
  <2>2. PICK m \in Off : \A k \in Off : m <= k
    <3> HIDE DEF Off
    <3> QED BY <2>1, LeastIsLeast
  <2>3. m \in 0 .. N /\ f[m] # Painted(m)
    OBVIOUS
  <2>4. f[m] = IF m = 0 THEN Origin ELSE Step(f, m)
    BY <1>7, <2>3
  <2>5. m # 0
    BY <2>3, <2>4 DEF Painted
  <2>6. m - 1 \in 0 .. N /\ m \in 1 .. N /\ m - 1 \notin Off
    BY <1>1, <2>2, <2>3, <2>5
  <2>7. f[m - 1] = Painted(m - 1)
    BY <2>6
  <2> HIDE DEF f, Off
  <2>8. Step(f, m) = Painted(m)
    BY <1>5, <2>6, <2>7
  <2> QED
    BY <2>3, <2>4, <2>5, <2>8
<1>9. n \in 0 .. N
  BY <1>1
<1> QED
  BY <1>8, <1>9

(* Whatever the text whose lines end with LF or CRLF, the distances sent are *)
(* not negative, and the client that adds them up paints each highlighted    *)
(* token from its first to its last character.                               *)
THEOREM HighlightingDecodes == LexerSpec => []SemanticTokensDecode
<1>1. ASSUME InkInv PROVE SemanticTokensDecode
  <2> SUFFICES ASSUME NoLoneCR, NEW n \in DOMAIN SemanticTokens,
                      NEW data, data = SemanticTokens,
                      NEW start, start = Decoded(data)[n],
                      NEW last, last = [start EXCEPT !.character = @ + data[n].length]
               PROVE  /\ data[n].deltaLine >= 0 /\ data[n].deltaStart >= 0
                      /\ data[n].length >= 0
                      /\ data[n].type = Shown[n].kind
                      /\ ClientPlace(start) = Shown[n].start
                      /\ ClientPlace(last) =
                           IF InsideCRLF(Shown[n].end) THEN Shown[n].end - 1
                           ELSE Shown[n].end
    BY DEF SemanticTokensDecode
  <2>1. n \in DOMAIN Shown
    BY DEF SemanticTokens
  <2> DEFINE i == Shown[n].start
             j == Shown[n].end
  <2>2. /\ i \in 1 .. End - 1 /\ j \in i + 1 .. End /\ text[i] \notin Whitespace
        /\ Encodable(Shown[n]) /\ n # 0
    <3>1. PICK N \in Nat :
           /\ DOMAIN Shown = 1 .. N
           /\ \A m \in 1 .. N : /\ Encodable(Shown[m])
                                /\ Shown[m].start \in 1 .. End - 1
                                /\ Shown[m].end \in Shown[m].start + 1 .. End
                                /\ text[Shown[m].start] \notin Whitespace
      BY <1>1, ShownAre
    <3> QED
      BY <2>1, <3>1
  <2>3. text \in Seq(STRING) /\ End \in Nat
    BY <1>1, LineStartsAre DEF InkInv, LexerInv
  <2>4. start = PositionAt(text, i)
    BY <1>1, <2>1, <2>2, SumsAreThePositions DEF Painted
  <2> HIDE DEF i, j
  <2>5. i \in 1 .. End /\ j \in 1 .. End /\ i <= j
    BY <2>2, <2>3
  <2>6. ~InsideCRLF(i)
    BY <2>2 DEF InsideCRLF, Whitespace, Newlines
  <2>7. /\ data[n].deltaLine = Painted(n).line - Painted(n - 1).line
        /\ data[n].deltaStart = IF Painted(n).line = Painted(n - 1).line
                                THEN Painted(n).character - Painted(n - 1).character
                                ELSE Painted(n).character
        /\ data[n].length = PositionAt(text, j).character - Painted(n).character
        /\ data[n].type = Shown[n].kind
    BY <1>1, <2>1, EncodedAre DEF j
  <2>8. Painted(n) = PositionAt(text, i)
    BY <2>2 DEF Painted, i
  <2>9. /\ PositionAt(text, i).line = PositionAt(text, j).line
        /\ PositionAt(text, i).character \in Nat /\ PositionAt(text, j).character \in Nat
        /\ PositionAt(text, i).character <= PositionAt(text, j).character
    <3>1. PositionAt(text, i).line = PositionAt(text, j).line
      BY <2>2 DEF Encodable, OneLine, i, j
    <3> QED
      BY <2>3, <2>5, <3>1, PositionsGrow
  <2>10. data[n].deltaLine >= 0 /\ data[n].deltaStart >= 0 /\ data[n].length >= 0
    <3>1. /\ Painted(n).line \in Nat /\ Painted(n - 1).line \in Nat
          /\ Painted(n).character \in Nat /\ Painted(n - 1).character \in Nat
          /\ Painted(n - 1).line <= Painted(n).line
          /\ Painted(n - 1).line = Painted(n).line =>
               Painted(n - 1).character <= Painted(n).character
      BY <1>1, <2>1, PaintedGrow
    <3> QED
      BY <2>7, <2>8, <2>9, <3>1
  <2>11. last = PositionAt(text, j)
    <3> DEFINE p == PositionAt(text, i)
               q == PositionAt(text, j)
    <3>1. /\ p = [line |-> p.line, character |-> p.character]
          /\ q = [line |-> q.line, character |-> q.character]
      BY DEF PositionAt
    <3>2. p.line = q.line /\ p.character + data[n].length = q.character
      BY <2>7, <2>8, <2>9
    <3> HIDE DEF p, q
    <3>3. start = [line |-> p.line, character |-> p.character]
      BY <2>4, <3>1 DEF p
    <3>4. last = [line |-> p.line, character |-> p.character + data[n].length]
      BY <3>3
    <3> QED
      BY <3>1, <3>2, <3>4 DEF q
  <2>12. ClientPlace(start) = i
    BY <2>3, <2>4, <2>5, <2>6, ClientShows
  <2>13. ClientPlace(last) = IF InsideCRLF(j) THEN j - 1 ELSE j
    BY <2>3, <2>5, <2>11, ClientShows
  <2> QED
    BY <2>7, <2>10, <2>12, <2>13 DEF i, j
<1>2. LexerInit => InkInv
  <2>1. LexerInit => LexerInv /\ DOMAIN tokens = {}
    BY InitialLexer DEF LexerInit
  <2> QED
    BY <2>1 DEF InkInv, TokensInOrder, StartsInk
<1> QED
  BY <1>1, <1>2, InkStep, PTL DEF LexerSpec

-----------------------------------------------------------------------------
(* Comments and strings: the automaton that reads the text character by      *)
(* character is, at the end of each token, where the lexer takes it to be.   *)

LEMMA ModesScan ==
  ASSUME text \in Seq(STRING)
  PROVE  /\ Modes[0] = "code"
         /\ \A i \in 1 .. Len(text) : Modes[i] = Scan(Modes[i - 1], text[i])
<1> DEFINE Value(f, i) == IF i = 0 THEN "code" ELSE Scan(f[i - 1], text[i])
           Reading(f, n) == f = [i \in 0 .. n |-> Value(f, i)]
           Unread == {n \in 0 .. Len(text) : ~\E f : Reading(f, n)}
<1>0. Len(text) \in Nat
  OBVIOUS
<1>1. Unread = {}
  <2> SUFFICES ASSUME Unread # {} PROVE FALSE
    OBVIOUS
  <2>1. Unread \in SUBSET Nat
    BY <1>0
  <2>2. PICK n \in Unread : \A m \in Unread : n <= m
    <3> HIDE DEF Unread
    <3> QED BY <2>1, LeastIsLeast
  <2>3. n \in 0 .. Len(text) /\ ~\E f : Reading(f, n)
    OBVIOUS
  <2>4. CASE n = 0
    <3> DEFINE g == [i \in 0 .. 0 |-> "code"]
    <3>1. \A i \in 0 .. 0 : Value(g, i) = "code"
      OBVIOUS
    <3>2. Reading(g, 0)
      <4> HIDE DEF Value
      <4> QED BY <3>1
    <3> HIDE DEF Reading
    <3> QED
      BY <2>3, <2>4, <3>2
  <2>5. CASE n # 0
    <3>0. n - 1 \in 0 .. Len(text) /\ n \in Nat /\ n - 1 \in Nat /\ ~(n <= n - 1)
      BY <1>0, <2>3, <2>5
    <3>1. n - 1 \in 0 .. Len(text) /\ n \in Nat /\ n - 1 \in Nat /\ n - 1 \notin Unread
      <4> HIDE DEF Unread
      <4> QED BY <2>2, <3>0
    <3>2. PICK g : Reading(g, n - 1)
      BY <3>1
    <3> DEFINE h == [i \in 0 .. n |-> IF i = n THEN Scan(g[n - 1], text[n]) ELSE g[i]]
    <3>3. \A i \in 0 .. n - 1 : h[i] = g[i]
      BY <3>1
    <3>4. ASSUME NEW i \in 0 .. n
          PROVE  h[i] = Value(h, i)
      <4>1. CASE i = n
        <5>1. n - 1 \in 0 .. n - 1
          BY <3>1
        <5>2. h[n - 1] = g[n - 1]
          BY <3>3, <5>1
        <5>3. h[n] = Scan(g[n - 1], text[n])
          BY <3>1
        <5> HIDE DEF h
        <5> QED
          BY <2>5, <4>1, <5>2, <5>3
      <4>2. CASE i # n
        <5>1. i \in 0 .. n - 1 /\ (i # 0 => i - 1 \in 0 .. n - 1)
          BY <3>1, <4>2
        <5>2. h[i] = g[i] /\ (i # 0 => h[i - 1] = g[i - 1])
          BY <3>3, <5>1
        <5>3. g[i] = Value(g, i)
          BY <3>2, <5>1
        <5> HIDE DEF h
        <5> QED
          BY <5>2, <5>3
      <4> QED
        BY <4>1, <4>2
    <3>5. Reading(h, n)
      <4> HIDE DEF Value
      <4>1. DOMAIN h = 0 .. n /\ h = [i \in 0 .. n |-> h[i]]
        OBVIOUS
      <4> HIDE DEF h
      <4> QED
        BY <3>4, <4>1
    <3> HIDE DEF Reading
    <3> QED
      BY <2>3, <3>5
  <2> QED
    BY <2>4, <2>5
<1>2. \E f : Reading(f, Len(text))
  <2>1. Len(text) \in 0 .. Len(text)
    BY <1>0
  <2> HIDE DEF Reading
  <2> QED
    BY <1>1, <2>1
<1>3. Modes = CHOOSE f : Reading(f, Len(text))
  BY Zenon DEF Modes
<1>4. Reading(Modes, Len(text))
  <2> HIDE DEF Reading
  <2> QED
    BY <1>2, <1>3
<1>5. \A i \in 0 .. Len(text) : Modes[i] = Value(Modes, i)
  BY <1>4
<1>6. \A i \in 1 .. Len(text) : i \in 0 .. Len(text) /\ i # 0
  BY <1>0
<1>7. 0 \in 0 .. Len(text)
  BY <1>0
<1> QED
  BY <1>5, <1>6, <1>7

(* What the automaton does, mode by mode.                                    *)
LEMMA ScanInCode ==
  ASSUME NEW mode, NEW c,
         mode \in {"code", "closed", "ended"} \/ (mode = "slash" /\ c \notin {"/", "*"})
  PROVE  /\ c = "/" => Scan(mode, c) = "slash"
         /\ c = "//allow" => Scan(mode, c) = "line"
         /\ c = "quote" => Scan(mode, c) = "string"
         /\ c \notin {"/", "//allow", "quote"} => Scan(mode, c) = "code"
BY DEF Scan

LEMMA ScanElsewhere ==
  ASSUME NEW c
  PROVE  /\ Scan("slash", "/") = "line" /\ Scan("slash", "*") = "block"
         /\ Scan("slash", "//allow") = "line"
         /\ c # "*" => Scan("slash", c) # "block"
         /\ c \in Newlines => Scan("line", c) = "code"
         /\ c \notin Newlines => Scan("line", c) = "line"
         /\ Scan("block", "*") = "star"
         /\ c # "*" => Scan("block", c) = "block"
         /\ Scan("star", "/") = "closed" /\ Scan("star", "*") = "star"
         /\ c \notin {"*", "/"} => Scan("star", c) = "block"
         /\ Scan("string", "backslash") = "escape"
         /\ c \in {"quote"} \cup Newlines => Scan("string", c) = "ended"
         /\ c \notin {"quote", "backslash"} \cup Newlines => Scan("string", c) = "string"
         /\ Scan("escape", c) = "string"
BY DEF Scan, Newlines

(* Texts without paths and without the dot that takes a slash along.         *)
Clean == \A k \in 1 .. Len(text) : text[k] \notin {"#include", "."}

(* Where a token begins: the automaton is in code, at the end of a line      *)
(* comment, or at the end of the text.                                       *)
Special   == {"/", "//allow", "quote"}
InCode(i) == \/ Modes[i - 1] \in {"code", "closed", "ended"}
             \/ Modes[i - 1] = "slash" /\ At(i) \notin {"/", "*"}
Boundary(i) == i = End \/ InCode(i) \/ (Modes[i - 1] = "line" /\ text[i] \in Newlines)

Commented(k) == \/ Modes[k] \in {"block", "star", "closed"}
                \/ k < Len(text) /\ Modes[k] = "slash" /\ Modes[k + 1] = "block"
Quoted(k)    == Modes[k] \in {"string", "escape", "ended"}
AsScanned(kind, start, end) ==
  \A k \in start .. end - 1 : /\ kind = "blockComment" <=> Commented(k)
                              /\ kind = "string" <=> Quoted(k)

ScanInv ==
  /\ LexerInv
  /\ Clean => /\ ~expectPath
              /\ Boundary(place)
              /\ \A n \in DOMAIN tokens :
                   AsScanned(tokens[n].kind, tokens[n].start, tokens[n].end)

ScanReads(kind, end) ==
  Push(kind, end) /\ end \in place .. End /\ AsScanned(kind, place, end) /\ Boundary(end)

(* Induction along the text: what holds of a place and from each to the next *)
(* holds up to the last.                                                     *)
LEMMA AlongTheText ==
  ASSUME NEW G, NEW a \in Nat, NEW b \in Nat, a \in G,
         \A k \in a .. b - 1 : k \in G => k + 1 \in G
  PROVE  \A k \in a .. b : k \in G
<1> DEFINE Missed == {k \in a .. b : k \notin G}
<1> SUFFICES ASSUME Missed # {} PROVE FALSE
  OBVIOUS
<1>1. Missed \in SUBSET Nat
  OBVIOUS
<1>2. PICK m \in Missed : \A k \in Missed : m <= k
  <2> HIDE DEF Missed
  <2> QED BY <1>1, LeastIsLeast
<1>3. m \in a .. b /\ m \notin G /\ m # a
  OBVIOUS
<1>4. m - 1 \in a .. b - 1 /\ m - 1 \in a .. b /\ (m - 1) + 1 = m /\ ~(m <= m - 1)
  BY <1>3
<1>5. m - 1 \in G
  BY <1>2, <1>4
<1> QED
  BY <1>3, <1>4, <1>5

LEMMA OrdinaryRun ==
  ASSUME text \in Seq(STRING), NEW i \in 1 .. End, InCode(i), NEW end \in i .. End,
         \A k \in i .. end - 1 : text[k] \notin Special
  PROVE  /\ \A k \in i .. end - 1 : Modes[k] = "code"
         /\ InCode(end)
<1>1. /\ End \in Nat /\ Len(text) = End - 1 /\ i \in Nat /\ end \in Nat /\ 1 <= i
      /\ i <= end /\ end <= End
  BY DEF End
<1>2. \A k \in i .. end - 1 : k \in 1 .. Len(text)
  BY <1>1
<1>3. \A k \in i .. end - 1 : Modes[k] = Scan(Modes[k - 1], text[k])
  BY <1>2, ModesScan
<1> DEFINE G == {k \in Nat : k = i \/ Modes[k - 1] = "code"}
<1>4. \A k \in i .. end - 1 : k \in G => k + 1 \in G
  <2> SUFFICES ASSUME NEW k \in i .. end - 1, k \in G
               PROVE  Modes[(k + 1) - 1] = "code"
    BY <1>1
  <2>1. /\ Modes[k] = Scan(Modes[k - 1], text[k]) /\ text[k] \notin Special
        /\ (k + 1) - 1 = k /\ k \in 1 .. Len(text)
    BY <1>1, <1>2, <1>3
  <2>2. k = i => At(k) = text[k]
    BY <1>1, <2>1 DEF At
  <2>3. \/ Modes[k - 1] \in {"code", "closed", "ended"}
        \/ Modes[k - 1] = "slash" /\ text[k] \notin {"/", "*"}
    BY <2>2 DEF InCode
  <2> QED
    BY <2>1, <2>3, ScanInCode DEF Special
<1>5. \A k \in i .. end : k \in G
  <2>1. i \in G
    BY <1>1
  <2> HIDE DEF G
  <2> QED BY <1>1, <1>4, <2>1, AlongTheText
<1>6. ASSUME NEW k \in i .. end - 1
      PROVE  Modes[k] = "code"
  <2>1. k + 1 \in i .. end /\ k + 1 # i /\ (k + 1) - 1 = k
    BY <1>1
  <2> QED
    BY <1>5, <2>1
<1>7. end = i \/ Modes[end - 1] = "code"
  <2>1. end # i => end - 1 \in i .. end - 1
    BY <1>1
  <2> QED BY <1>6, <2>1
<1> QED
  BY <1>6, <1>7 DEF InCode

LEMMA LineRun ==
  ASSUME text \in Seq(STRING), NEW i \in 1 .. End, Modes[i - 1] = "line",
         NEW end \in i .. End, \A k \in i .. end - 1 : text[k] \notin Newlines
  PROVE  \A k \in i - 1 .. end - 1 : Modes[k] = "line"
<1>1. /\ End \in Nat /\ Len(text) = End - 1 /\ i \in Nat /\ end \in Nat /\ 1 <= i
      /\ i <= end /\ end <= End /\ i - 1 \in Nat /\ end - 1 \in Nat
  BY DEF End
<1> DEFINE G == {k \in Nat : Modes[k] = "line"}
<1>2. ASSUME NEW k \in i - 1 .. (end - 1) - 1, k \in G
      PROVE  k + 1 \in G
  <2>1. k + 1 \in i .. end - 1 /\ k + 1 \in 1 .. Len(text) /\ (k + 1) - 1 = k /\ k + 1 \in Nat
    BY <1>1
  <2>2. Modes[k + 1] = Scan("line", text[k + 1])
    BY <1>2, <2>1, ModesScan
  <2> QED
    BY <2>1, <2>2, ScanElsewhere
<1>3. i - 1 \in G
  BY <1>1
<1> HIDE DEF G
<1>4. \A k \in i - 1 .. end - 1 : k \in G
  BY <1>1, <1>2, <1>3, AlongTheText
<1> QED
  BY <1>4 DEF G

LEMMA CodeIsNeither ==
  ASSUME NEW kind, kind \notin {"blockComment", "string"}, NEW i, NEW end,
         \A k \in i .. end - 1 : Modes[k] \in {"code", "line"}
  PROVE  AsScanned(kind, i, end)
BY DEF AsScanned, Commented, Quoted

(* The first character of a token that is neither blank nor a path.          *)
LEMMA InkInCode ==
  ASSUME LexerInv, Plain, Boundary(place)
  PROVE  /\ text \in Seq(STRING) /\ End \in Nat /\ Len(text) = End - 1
         /\ place \in 1 .. End /\ place \in 1 .. Len(text) /\ place \in Nat /\ place < End
         /\ InCode(place) /\ At(place) = text[place]
         /\ text[place] = "/" => Modes[place] = "slash"
         /\ text[place] = "//allow" => Modes[place] = "line"
         /\ text[place] = "quote" => Modes[place] = "string"
         /\ text[place] \notin Special => Modes[place] = "code"
<1>1. /\ text \in Seq(STRING) /\ End \in Nat /\ Len(text) = End - 1
      /\ place \in 1 .. End /\ place < End /\ place \in Nat /\ place \in 1 .. Len(text)
  BY PlaceIsRead DEF LexerInv, End
<1>2. At(place) = text[place] /\ text[place] \notin Newlines
  BY PlaceIsRead DEF Plain, Whitespace
<1>3. InCode(place)
  BY <1>1, <1>2 DEF Boundary
<1>4. Modes[place] = Scan(Modes[place - 1], text[place])
  BY <1>1, ModesScan
<1>5. \/ Modes[place - 1] \in {"code", "closed", "ended"}
      \/ Modes[place - 1] = "slash" /\ text[place] \notin {"/", "*"}
  BY <1>2, <1>3 DEF InCode
<1>6. /\ text[place] = "/" => Modes[place] = "slash"
      /\ text[place] = "//allow" => Modes[place] = "line"
      /\ text[place] = "quote" => Modes[place] = "string"
      /\ text[place] \notin Special => Modes[place] = "code"
  BY <1>4, <1>5, ScanInCode DEF Special
<1> QED
  BY <1>1, <1>2, <1>3, <1>6

(* Tokens of ordinary characters alone.                                      *)
LEMMA OrdinaryToken ==
  ASSUME LexerInv, Plain, Boundary(place), NEW kind, kind \notin {"blockComment", "string"},
         NEW end \in place .. End, Push(kind, end),
         \A k \in place .. end - 1 : text[k] \notin Special
  PROVE  ScanReads(kind, end)
<1>1. /\ \A k \in place .. end - 1 : Modes[k] = "code"
      /\ InCode(end)
  BY InkInCode, OrdinaryRun
<1>2. AsScanned(kind, place, end)
  BY <1>1, CodeIsNeither
<1> QED
  BY <1>1, <1>2 DEF ScanReads, Boundary

LEMMA BlanksAreScanned ==
  ASSUME LexerInv, Boundary(place), LexWhitespace
  PROVE  \E end : ScanReads("whitespace", end)
<1> DEFINE end == SkipWhile(place, Whitespace)
<1>1. /\ text \in Seq(STRING) /\ End \in Nat /\ Len(text) = End - 1
      /\ place \in 1 .. End /\ place < End /\ text[place] \in Whitespace
      /\ place \in 1 .. Len(text) /\ place \in Nat
  <2>1. text \in Seq(STRING) /\ place \in 1 .. End
    BY DEF LexerInv, TokensCoverText
  <2>2. End \in Nat /\ Len(text) = End - 1 /\ place \in Nat
    BY <2>1 DEF End
  <2>3. place < End /\ text[place] \in Whitespace
    BY DEF LexWhitespace, At, Whitespace, Newlines
  <2> QED
    BY <2>1, <2>2, <2>3
<1>2. end \in place + 1 .. End /\ \A k \in place .. end - 1 : text[k] \in Whitespace
  BY <1>1, RunEnds
<1>3. Push("whitespace", end)
  BY DEF LexWhitespace
<1> HIDE DEF end
<1>4. \A k \in place .. end - 1 : text[k] \notin Special
  BY <1>2 DEF Whitespace, Newlines, Special
<1>5. end \in place .. End
  BY <1>1, <1>2
<1>6. (\A k \in place .. end - 1 : Modes[k] = "code") /\ InCode(end)
  <2>1. CASE InCode(place)
    BY <1>1, <1>4, <1>5, <2>1, OrdinaryRun
  <2>2. CASE Modes[place - 1] = "line" /\ text[place] \in Newlines
    <3>1. Modes[place] = "code"
      BY <1>1, <2>2, ModesScan, ScanElsewhere
    <3>2. place + 1 \in 1 .. End /\ (place + 1) - 1 = place /\ end \in place + 1 .. End
      BY <1>1, <1>2
    <3>3. InCode(place + 1)
      BY <3>1, <3>2 DEF InCode
    <3>4. \A k \in place + 1 .. end - 1 : k \in place .. end - 1
      BY <1>1
    <3>5. (\A k \in place + 1 .. end - 1 : Modes[k] = "code") /\ InCode(end)
      BY <1>1, <1>4, <3>2, <3>3, <3>4, OrdinaryRun
    <3>6. \A k \in place .. end - 1 : k = place \/ k \in place + 1 .. end - 1
      BY <1>1
    <3> QED
      BY <3>1, <3>5, <3>6
  <2> QED
    BY <1>1, <2>1, <2>2 DEF Boundary
<1>7. AsScanned("whitespace", place, end)
  BY <1>6, CodeIsNeither
<1> QED
  BY <1>3, <1>5, <1>6, <1>7 DEF ScanReads, Boundary

LEMMA LineCommentIsScanned ==
  ASSUME LexerInv, Boundary(place), LexLineComment
  PROVE  \E end : ScanReads("comment", end)
<1> DEFINE end == SkipUntil(place + 1, Newlines)
<1>1. Plain /\ LineCommentHere /\ Push("comment", end)
  BY DEF LexLineComment
<1>2. /\ text \in Seq(STRING) /\ End \in Nat /\ Len(text) = End - 1 /\ place \in Nat
      /\ place < End /\ 1 <= place /\ At(place) = text[place]
      /\ text[place] = "/" => Modes[place] = "slash"
      /\ text[place] = "//allow" => Modes[place] = "line"
  BY <1>1, InkInCode
<1>3. /\ end \in place + 1 .. End
      /\ end = End \/ text[end] \in Newlines
      /\ \A m \in place + 1 .. end - 1 : text[m] \notin Newlines
  <2>1. place + 1 \in 1 .. End
    BY <1>2
  <2> QED BY <1>2, <2>1, SkipStops
<1> HIDE DEF end
<1>4. end \in Nat /\ place + 1 <= end /\ end <= End
  BY <1>2, <1>3
<1>5. CASE text[place] = "//allow"
  <2>1. place + 1 \in 1 .. End /\ (place + 1) - 1 = place
    BY <1>2
  <2>2. \A k \in place .. end - 1 : Modes[k] = "line"
    BY <1>2, <1>3, <1>5, <2>1, LineRun
  <2>3. end - 1 \in place .. end - 1
    BY <1>2, <1>4
  <2>4. Boundary(end)
    BY <1>3, <2>2, <2>3 DEF Boundary
  <2>5. AsScanned("comment", place, end)
    BY <2>2, CodeIsNeither
  <2> QED
    BY <1>1, <1>2, <1>4, <2>4, <2>5 DEF ScanReads
<1>6. CASE text[place] # "//allow"
  <2>1. text[place] = "/" /\ At(place + 1) \in {"/", "//allow"}
    BY <1>1, <1>2, <1>6 DEF LineCommentHere
  <2>2. place + 1 < End /\ text[place + 1] = At(place + 1)
    BY <2>1 DEF At
  <2>3. place + 1 \in 1 .. Len(text) /\ (place + 1) - 1 = place
        /\ place + 2 \in 1 .. End /\ (place + 2) - 1 = place + 1
    BY <1>2, <2>2
  <2>4. Modes[place] = "slash" /\ Modes[place + 1] = "line"
    BY <1>2, <2>1, <2>2, <2>3, ModesScan, ScanElsewhere
  <2>5. end # place + 1
    BY <1>3, <2>1, <2>2 DEF Newlines
  <2>6. end \in place + 2 .. End /\ \A k \in place + 2 .. end - 1 : k \in place + 1 .. end - 1
    BY <1>2, <1>4, <2>5
  <2>7. \A k \in place + 1 .. end - 1 : Modes[k] = "line"
    BY <1>2, <1>3, <2>3, <2>4, <2>6, LineRun
  <2>8. end - 1 \in place + 1 .. end - 1
    BY <1>2, <1>4, <2>6
  <2>9. Boundary(end)
    BY <1>3, <2>7, <2>8 DEF Boundary
  <2>10. AsScanned("comment", place, end)
    <3>1. \A k \in place .. end - 1 : k = place \/ k \in place + 1 .. end - 1
      BY <1>2
    <3> QED
      BY <2>4, <2>7, <3>1 DEF AsScanned, Commented, Quoted
  <2> QED
    BY <1>1, <1>2, <1>4, <2>9, <2>10 DEF ScanReads
<1> QED
  BY <1>5, <1>6

(* A block comment: the automaton sees the star that may close it, and no    *)
(* closing slash before the lexer does.                                      *)
LEMMA BlockCommentIsScanned ==
  ASSUME LexerInv, Boundary(place), LexBlockComment
  PROVE  \E end : ScanReads("blockComment", end)
<1> DEFINE end == IF BlockEnds # {} THEN Least(BlockEnds) ELSE End
           last == IF BlockEnds # {} THEN end - 2 ELSE Len(text)
<1>1. Plain /\ Here(<<"/", "*">>) /\ Push("blockComment", end)
  BY DEF LexBlockComment
<1>2. /\ text \in Seq(STRING) /\ End \in Nat /\ Len(text) = End - 1 /\ place \in Nat
      /\ place < End /\ 1 <= place
      /\ text[place] = "/" => Modes[place] = "slash"
  BY <1>1, InkInCode
<1>3. place + 2 <= End /\ text[place] = "/" /\ text[place + 1] = "*"
  <2>1. Len(<<"/", "*">>) = 2
    OBVIOUS
  <2>2. place + 2 <= End /\ SubSeq(text, place, place + 2 - 1) = <<"/", "*">>
    BY <1>1, <2>1 DEF Here
  <2>3. place + 2 - 1 = place + 1
    BY <1>2
  <2>4. SubSeq(text, place, place + 1) = <<"/", "*">>
    BY <2>2, <2>3
  <2>5. place \in Nat \ {0} /\ place + 1 \in Nat /\ place + 1 <= Len(text)
        /\ (place + 1) - place + 1 = 2
    BY <1>2, <2>2
  <2>6. SubSeq(text, place, place + 1) = [k \in 1 .. 2 |-> text[place + k - 1]]
    BY <2>5
  <2>7. /\ SubSeq(text, place, place + 1)[1] = text[place]
        /\ SubSeq(text, place, place + 1)[2] = text[place + 1]
    <3>1. 1 \in 1 .. 2 /\ 2 \in 1 .. 2 /\ place + 1 - 1 = place /\ place + 2 - 1 = place + 1
      BY <2>5
    <3> QED BY <2>6, <3>1
  <2>8. <<"/", "*">>[1] = "/" /\ <<"/", "*">>[2] = "*"
    OBVIOUS
  <2> QED
    BY <2>2, <2>4, <2>7, <2>8
<1>4. Modes[place] = "slash" /\ Modes[place + 1] = "block"
  <2>1. place + 1 \in 1 .. Len(text) /\ (place + 1) - 1 = place
    BY <1>2, <1>3
  <2> QED
    BY <1>2, <1>3, <2>1, ModesScan, ScanElsewhere
<1>5. /\ BlockEnds # {} => /\ end \in place + 4 .. End
                           /\ text[end - 2] = "*" /\ text[end - 1] = "/"
      /\ \A j \in BlockEnds : end <= j
  <2>1. BlockEnds \in SUBSET Nat
    BY <1>2 DEF BlockEnds
  <2>2. BlockEnds # {} => end \in BlockEnds /\ \A j \in BlockEnds : end <= j
    BY <2>1, LeastIsLeast
  <2> QED
    BY <2>2 DEF BlockEnds
<1>6. BlockEnds # {} => last = end - 2
  OBVIOUS
<1>7. BlockEnds = {} => last = End - 1 /\ end = End
  BY <1>2
<1> HIDE DEF end, last
<1>8. /\ end \in Nat /\ place + 2 <= end /\ end <= End
      /\ last \in Nat /\ place + 1 <= last /\ last <= End - 1 /\ last <= end - 1
  BY <1>2, <1>3, <1>5, <1>6, <1>7, SMTT(20)
<1> DEFINE G == {k \in Nat : /\ Modes[k] \in {"block", "star"}
                             /\ Modes[k] = "star" <=> k >= place + 2 /\ text[k] = "*"}
<1>9. ASSUME NEW k \in place + 1 .. last - 1, k \in G
      PROVE  k + 1 \in G
  <2>1. /\ k \in Nat /\ k + 1 \in Nat /\ k + 1 \in 1 .. Len(text) /\ (k + 1) - 1 = k
        /\ k + 1 >= place + 2 /\ k + 2 \in Nat /\ k + 2 <= End /\ (k + 2) - 1 = k + 1
        /\ (k + 2) - 2 = k /\ k >= place + 1
    BY <1>2, <1>8
  <2>2. Modes[k + 1] = Scan(Modes[k], text[k + 1])
    BY <1>2, <2>1, ModesScan
  <2>3. ASSUME Modes[k] = "star", text[k + 1] = "/"
        PROVE  FALSE
    <3>1. k >= place + 2 /\ text[k] = "*"
      BY <1>9, <2>3
    <3>2. k + 2 \in BlockEnds
      BY <1>2, <2>1, <2>3, <3>1 DEF BlockEnds
    <3>3. end <= k + 2 /\ last = end - 2
      BY <1>5, <1>6, <3>2
    <3> QED
      BY <1>8, <2>1, <3>3
  <2>4. Modes[k] \in {"block", "star"}
    BY <1>9
  <2>5. Modes[k + 1] \in {"block", "star"} /\ (Modes[k + 1] = "star" <=> text[k + 1] = "*")
    BY <2>2, <2>3, <2>4, ScanElsewhere
  <2> QED
    BY <2>1, <2>5
<1>10. place + 1 \in G
  BY <1>2, <1>4
<1>11. \A k \in place + 1 .. last : k \in G
  <2> HIDE DEF G
  <2>1. \A k \in place + 1 .. last - 1 : k \in G => k + 1 \in G
    BY <1>9
  <2>2. place + 1 \in Nat /\ last \in Nat
    BY <1>2, <1>8
  <2> QED BY <1>10, <2>1, <2>2, AlongTheText
<1>12. BlockEnds # {} => Modes[end - 1] = "closed"
  <2> SUFFICES ASSUME BlockEnds # {} PROVE Modes[end - 1] = "closed"
    OBVIOUS
  <2>1. /\ end - 2 \in place + 1 .. last /\ end - 2 >= place + 2
        /\ end - 1 \in 1 .. Len(text) /\ (end - 1) - 1 = end - 2
    BY <1>2, <1>5, <1>6, <1>8
  <2>2. end - 2 \in G
    BY <1>11, <2>1
  <2>3. Modes[end - 2] = "star" /\ text[end - 1] = "/"
    BY <1>5, <2>1, <2>2
  <2>4. Modes[end - 1] = Scan("star", "/")
    BY <1>2, <2>1, <2>3, ModesScan
  <2> QED
    BY <2>4, ScanElsewhere
<1>13. Boundary(end)
  BY <1>7, <1>12 DEF Boundary, InCode
<1>14. AsScanned("blockComment", place, end)
  <2> SUFFICES ASSUME NEW k \in place .. end - 1
               PROVE  Commented(k) /\ ~Quoted(k)
    BY DEF AsScanned
  <2>1. CASE k = place
    BY <1>2, <1>3, <1>4, <2>1 DEF Commented, Quoted
  <2>2. CASE k \in place + 1 .. last
    BY <1>11, <2>2 DEF Commented, Quoted
  <2>3. CASE k # place /\ k \notin place + 1 .. last
    <3>1. BlockEnds # {} /\ k = end - 1
      BY <1>2, <1>6, <1>7, <1>8, <2>3
    <3> QED
      BY <1>12, <3>1 DEF Commented, Quoted
  <2> QED
    BY <2>1, <2>2, <2>3
<1> QED
  BY <1>1, <1>2, <1>8, <1>13, <1>14 DEF ScanReads

(* A character is escaped exactly when the one before it is a backslash      *)
(* that is not: the run of backslashes before it grows by one at a time.     *)
LEMMA EscapeStep ==
  ASSUME place \in Nat
  PROVE  /\ ~Escaped(place + 1)
         /\ \A i \in Nat : i >= place + 1 =>
              (Escaped(i + 1) <=> text[i] = "backslash" /\ ~Escaped(i))
<1> DEFINE Run(k, i) == /\ \A j \in k .. i - 1 : text[j] = "backslash"
                        /\ k = place + 1 \/ text[k - 1] # "backslash"
<1>1. \A i : Escaped(i) <=> \E k \in place + 1 .. i - 1 : Run(k, i) /\ (i - k) % 2 = 1
  BY Zenon DEF Escaped
<1>2. ~Escaped(place + 1)
  <2>1. place + 1 .. (place + 1) - 1 = {}
    OBVIOUS
  <2> QED
    BY <1>1, <2>1
<1> SUFFICES ASSUME NEW i \in Nat, i >= place + 1
             PROVE  Escaped(i + 1) <=> text[i] = "backslash" /\ ~Escaped(i)
  BY <1>2
<1>3. (i + 1) - 1 = i
  OBVIOUS
<1>4. ASSUME Escaped(i + 1) PROVE text[i] = "backslash" /\ ~Escaped(i)
  <2>1. PICK k \in place + 1 .. i : Run(k, i + 1) /\ ((i + 1) - k) % 2 = 1
    BY <1>1, <1>3, <1>4
  <2>2. /\ \A j \in k .. i : text[j] = "backslash"
        /\ k = place + 1 \/ text[k - 1] # "backslash"
    BY <1>3, <2>1
  <2>3. i \in k .. i /\ k \in Nat /\ k <= i /\ place + 1 <= k
    BY <2>1
  <2>4. ASSUME Escaped(i) PROVE FALSE
    <3>1. PICK m \in place + 1 .. i - 1 : Run(m, i) /\ (i - m) % 2 = 1
      BY <1>1, <2>4
    <3>2. m \in Nat /\ place + 1 <= m /\ m <= i - 1
      BY <3>1
    <3>3. CASE m < k
      <4>1. k - 1 \in m .. i - 1 /\ k # place + 1
        BY <2>3, <3>2, <3>3
      <4> QED
        BY <2>2, <3>1, <4>1
    <3>4. CASE k < m
      <4>1. m - 1 \in k .. i /\ m # place + 1
        BY <2>3, <3>2, <3>4
      <4> QED
        BY <2>2, <3>1, <4>1
    <3>5. CASE m = k
      <4>1. ((i + 1) - k) % 2 = 1 /\ (i - k) % 2 = 1
        BY <2>1, <3>1, <3>5
      <4> HIDE DEF Run
      <4> QED
        BY <2>3, <4>1
    <3> QED
      BY <2>3, <3>2, <3>3, <3>4, <3>5
  <2> QED
    BY <2>2, <2>3, <2>4
<1>5. ASSUME text[i] = "backslash", ~Escaped(i) PROVE Escaped(i + 1)
  <2> DEFINE S == {k \in place + 1 .. i : \A j \in k .. i : text[j] = "backslash"}
  <2>1. S \in SUBSET Nat /\ i \in S
    BY <1>5
  <2>2. PICK k \in S : \A n \in S : k <= n
    <3> HIDE DEF S
    <3> QED BY <2>1, LeastIsLeast
  <2>3. k \in Nat /\ place + 1 <= k /\ k <= i /\ \A j \in k .. i : text[j] = "backslash"
    OBVIOUS
  <2>4. k = place + 1 \/ text[k - 1] # "backslash"
    <3> SUFFICES ASSUME k # place + 1, text[k - 1] = "backslash" PROVE FALSE
      OBVIOUS
    <3>1. k - 1 \in place + 1 .. i /\ ~(k <= k - 1)
      BY <2>3
    <3>2. \A j \in k - 1 .. i : j = k - 1 \/ j \in k .. i
      BY <2>3
    <3>3. \A j \in k - 1 .. i : text[j] = "backslash"
      BY <2>3, <3>2
    <3>4. k - 1 \in S
      BY <3>1, <3>3
    <3> QED
      BY <2>2, <3>1, <3>4
  <2>5. Run(k, i + 1)
    BY <1>3, <2>3, <2>4
  <2>6. k # i => Run(k, i) /\ k \in place + 1 .. i - 1
    <3>1. \A j \in k .. i - 1 : j \in k .. i
      BY <2>3
    <3> QED
      BY <2>3, <2>4, <3>1
  <2> HIDE DEF Run, S
  <2>7. k # i => (i - k) % 2 # 1
    BY <1>1, <1>5, <2>6
  <2>8. ((i + 1) - k) % 2 = 1
    BY <2>3, <2>7
  <2>9. k \in place + 1 .. (i + 1) - 1
    BY <2>3
  <2> QED
    BY <1>1, <2>5, <2>8, <2>9
<1> QED
  BY <1>4, <1>5

LEMMA StringIsScanned ==
  ASSUME LexerInv, Boundary(place), LexString
  PROVE  \E end : ScanReads("string", end)
<1> DEFINE stop == Least(StringStops)
           end  == IF StringStops = {} THEN End ELSE stop + 1
           last == IF StringStops = {} THEN Len(text) ELSE stop - 1
<1>1. Plain /\ At(place) = "quote" /\ Push("string", end)
  BY DEF LexString
<1>2. /\ text \in Seq(STRING) /\ End \in Nat /\ Len(text) = End - 1 /\ place \in Nat
      /\ place < End /\ 1 <= place
      /\ text[place] = "quote" /\ Modes[place] = "string"
  BY <1>1, InkInCode
<1>3. /\ StringStops # {} => stop \in StringStops /\ \A j \in StringStops : stop <= j
  <2>1. StringStops \in SUBSET Nat
    BY <1>2 DEF StringStops
  <2> QED
    BY <2>1, LeastIsLeast
<1>4. StringStops # {} => /\ stop \in place + 1 .. End - 1 /\ ~Escaped(stop)
                          /\ text[stop] \in {"quote"} \cup Newlines
  BY <1>3 DEF StringStops
<1>5. /\ StringStops # {} => end = stop + 1 /\ last = stop - 1
      /\ StringStops = {} => end = End /\ last = End - 1
  BY <1>2
<1> HIDE DEF stop, end, last
<1>6. /\ end \in Nat /\ place + 1 <= end /\ end <= End
      /\ last \in Nat /\ place <= last /\ last <= End - 1 /\ last <= end - 1
  BY <1>2, <1>4, <1>5
<1> DEFINE G == {k \in Nat : /\ Modes[k] \in {"string", "escape"}
                             /\ Modes[k] = "escape" <=> Escaped(k + 1)}
<1>7. ASSUME NEW k \in place .. last - 1, k \in G
      PROVE  k + 1 \in G
  <2>1. /\ k \in Nat /\ k + 1 \in Nat /\ k + 1 \in 1 .. Len(text) /\ (k + 1) - 1 = k
        /\ k + 1 >= place + 1 /\ k + 1 \in place + 1 .. End - 1 /\ k + 1 <= last
    BY <1>2, <1>6
  <2>2. Modes[k + 1] = Scan(Modes[k], text[k + 1])
    BY <1>2, <2>1, ModesScan
  <2>3. Modes[k] \in {"string", "escape"} /\ (Modes[k] = "escape" <=> Escaped(k + 1))
    BY <1>7
  <2>4. Escaped((k + 1) + 1) <=> text[k + 1] = "backslash" /\ ~Escaped(k + 1)
    BY <1>2, <2>1, EscapeStep
  <2>5. ~Escaped(k + 1) => text[k + 1] \notin {"quote"} \cup Newlines
    <3> SUFFICES ASSUME ~Escaped(k + 1), text[k + 1] \in {"quote"} \cup Newlines
                 PROVE  FALSE
      OBVIOUS
    <3>1. k + 1 \in StringStops
      BY <2>1 DEF StringStops
    <3>2. stop <= k + 1 /\ last = stop - 1 /\ stop \in Nat
      BY <1>2, <1>3, <1>4, <1>5, <3>1, SMTT(20)
    <3> QED
      BY <2>1, <3>2
  <2>6. /\ Modes[k + 1] \in {"string", "escape"}
        /\ Modes[k + 1] = "escape" <=> text[k + 1] = "backslash" /\ ~Escaped(k + 1)
    <3>1. CASE Modes[k] = "escape"
      <4>1. Modes[k + 1] = "string" /\ Escaped(k + 1)
        BY <2>2, <2>3, <3>1, ScanElsewhere
      <4> QED
        BY <4>1
    <3>2. CASE Modes[k] = "string"
      <4>1. ~Escaped(k + 1) /\ text[k + 1] \notin {"quote"} \cup Newlines
        BY <2>3, <2>5, <3>2
      <4>2. CASE text[k + 1] = "backslash"
        <5>1. Modes[k + 1] = "escape"
          BY <2>2, <3>2, <4>2, ScanElsewhere
        <5> QED
          BY <4>1, <4>2, <5>1
      <4>3. CASE text[k + 1] # "backslash"
        <5>1. Modes[k + 1] = "string"
          BY <2>2, <3>2, <4>1, <4>3, ScanElsewhere
        <5> QED
          BY <4>3, <5>1
      <4> QED
        BY <4>2, <4>3
    <3> QED
      BY <2>3, <3>1, <3>2
  <2> QED
    BY <2>1, <2>4, <2>6
<1>8. place \in G
  BY <1>2, EscapeStep
<1>9. \A k \in place .. last : k \in G
  <2> HIDE DEF G
  <2>1. \A k \in place .. last - 1 : k \in G => k + 1 \in G
    BY <1>7
  <2> QED BY <1>2, <1>6, <1>8, <2>1, AlongTheText
<1>10. StringStops # {} => Modes[end - 1] = "ended"
  <2> SUFFICES ASSUME StringStops # {} PROVE Modes[end - 1] = "ended"
    OBVIOUS
  <2>0. /\ stop \in Nat /\ place + 1 <= stop /\ stop <= End - 1
        /\ end = stop + 1 /\ last = stop - 1
    BY <1>2, <1>4, <1>5
  <2>1. /\ stop - 1 \in place .. last /\ end - 1 = stop /\ (stop - 1) + 1 = stop
        /\ stop \in 1 .. Len(text)
    <3> HIDE DEF G
    <3> QED BY <1>2, <2>0
  <2>2. stop - 1 \in G
    BY <1>9, <2>1
  <2>3. Modes[stop - 1] = "string"
    BY <1>4, <2>1, <2>2
  <2>4. Modes[stop] = Scan("string", text[stop])
    BY <1>2, <2>1, <2>3, ModesScan
  <2> QED
    BY <1>4, <2>1, <2>4, ScanElsewhere
<1>11. Boundary(end)
  BY <1>5, <1>10 DEF Boundary, InCode
<1>12. AsScanned("string", place, end)
  <2> SUFFICES ASSUME NEW k \in place .. end - 1
               PROVE  ~Commented(k) /\ Quoted(k)
    BY DEF AsScanned
  <2>1. CASE k \in place .. last
    BY <1>9, <2>1 DEF Commented, Quoted
  <2>2. CASE k \notin place .. last
    <3>1. k \in Nat /\ place <= k /\ k <= end - 1 /\ ~(k <= last)
      BY <1>2, <1>6, <2>2
    <3>2. StringStops # {}
      BY <1>2, <1>5, <3>1
    <3>3. last = end - 1 - 1
      <4>1. stop \in Nat /\ end = stop + 1 /\ last = stop - 1
        BY <1>2, <1>4, <1>5, <3>2
      <4> HIDE DEF G
      <4> QED BY <4>1
    <3>4. k = end - 1
      <4> HIDE DEF G
      <4> QED BY <1>6, <3>1, <3>3
    <3> QED
      BY <1>10, <3>2, <3>4 DEF Commented, Quoted
  <2> QED
    BY <2>1, <2>2
<1> QED
  BY <1>1, <1>2, <1>6, <1>11, <1>12 DEF ScanReads

(* The branches that read ordinary characters.                               *)
LEMMA WordsAreOrdinary ==
  \A c \in WordChars \cup Digits \cup {"_", "-", "#"} : c \notin Special
BY DEF WordChars, WordStart, Words, Digits, Special

LEMMA DirectiveIsScanned ==
  ASSUME LexerInv, Clean, Boundary(place), LexDirective
  PROVE  \E kind, end : ScanReads(kind, end)
<1> DEFINE end == SkipWhile(place + 1, WordChars)
<1>1. Plain
  BY DEF LexDirective
<1>2. /\ text \in Seq(STRING) /\ End \in Nat /\ place \in Nat /\ place < End /\ 1 <= place
      /\ At(place) = text[place] /\ place \in 1 .. Len(text)
  BY <1>1, InkInCode
<1>3. text[place] = "#"
  BY <1>2 DEF LexDirective, Clean
<1>4. Push("invalid", end)
  BY <1>2, <1>3 DEF LexDirective
<1>5. end \in place + 1 .. End /\ \A k \in place + 1 .. end - 1 : text[k] \in WordChars
  <2>1. place + 1 \in 1 .. End
    BY <1>2
  <2> QED BY <1>2, <2>1, RunEnds
<1> HIDE DEF end
<1>6. end \in place .. End
  BY <1>2, <1>5
<1>7. \A k \in place .. end - 1 : text[k] \notin Special
  <2>1. \A k \in place .. end - 1 : k = place \/ k \in place + 1 .. end - 1
    BY <1>2
  <2> QED BY <1>3, <1>5, <2>1, WordsAreOrdinary
<1> QED
  BY <1>1, <1>4, <1>6, <1>7, OrdinaryToken

LEMMA WordIsScanned ==
  ASSUME LexerInv, Boundary(place), LexWord
  PROVE  \E kind, end : ScanReads(kind, end)
<1> DEFINE end == SkipWhile(place, WordChars)
<1>1. Plain /\ Push(WordKind(end), end)
  BY DEF LexWord
<1>2. text \in Seq(STRING) /\ place \in 1 .. End
  BY <1>1, InkInCode
<1>3. end \in place .. End /\ \A k \in place .. end - 1 : text[k] \in WordChars
  BY <1>2, RunEnds
<1> HIDE DEF end
<1>4. WordKind(end) \notin {"blockComment", "string"}
  BY DEF WordKind
<1>5. \A k \in place .. end - 1 : text[k] \notin Special
  BY <1>3, WordsAreOrdinary
<1> QED
  BY <1>1, <1>3, <1>4, <1>5, OrdinaryToken

LEMMA NumberIsScanned ==
  ASSUME LexerInv, Clean, Boundary(place), LexNumber
  PROVE  \E kind, end : ScanReads(kind, end)
<1> DEFINE whole    == IF At(place) = "." THEN place + 1 ELSE place
           dot      == DigitsEnd(whole)
           fraction == IF At(dot) = "." THEN DigitsEnd(dot + 1) ELSE dot
           sign     == IF At(fraction + 1) = "-" THEN fraction + 2 ELSE fraction + 1
           exponent == IF At(fraction) = "e" THEN DigitsEnd(sign) ELSE fraction
           end      == IF At(exponent) = "i" THEN exponent + 1 ELSE exponent
           isReal   == whole > place \/ At(dot) = "." \/ At(fraction) = "e"
           kind     == IF end > exponent THEN "imaginary" ELSE IF isReal THEN "real"
                       ELSE "integer"
           Plainly(i) == \A k \in place .. i - 1 : text[k] \notin Special
<1>1. Plain
  BY DEF LexNumber
<1>2. /\ text \in Seq(STRING) /\ End \in Nat /\ Len(text) = End - 1
      /\ place \in Nat /\ place < End /\ 1 <= place
  BY <1>1, InkInCode
<1>3. Push(kind, end)
  BY Zenon DEF LexNumber
<1>4. kind \notin {"blockComment", "string"}
  <2> HIDE DEF end, exponent, isReal
  <2> QED OBVIOUS
<1> HIDE DEF kind
<1>5. ASSUME NEW i \in Nat, 1 <= i
      PROVE  At(i) # "." /\ (At(i) \in {"e", "-", "i"} => i < End /\ text[i] = At(i))
  <2> HIDE DEF whole, dot, fraction, sign, exponent, end, isReal, Plainly
  <2>1. CASE i < End
    <3>1. i \in 1 .. Len(text)
      BY <1>2, <1>5, <2>1
    <3> QED
      BY <2>1, <3>1 DEF At, Clean
  <2>2. CASE ~(i < End)
    BY <2>2 DEF At
  <2> QED
    BY <2>1, <2>2
<1>6. ASSUME NEW i \in 1 .. End
      PROVE  /\ DigitsEnd(i) \in i .. End
             /\ \A k \in i .. DigitsEnd(i) - 1 : text[k] \notin Special
  <2>1. /\ DigitsEnd(i) \in i .. End
        /\ \A k \in i .. DigitsEnd(i) - 1 : text[k] \in Digits \cup {"_"}
    BY <1>2, RunEnds DEF DigitsEnd
  <2> QED BY <2>1, WordsAreOrdinary
<1>7. ASSUME NEW i \in place .. End, NEW j \in i .. End, Plainly(i),
             \A k \in i .. j - 1 : text[k] \notin Special
      PROVE  Plainly(j)
  <2>1. \A k \in place .. j - 1 : k \in place .. i - 1 \/ k \in i .. j - 1
    BY <1>2
  <2> QED BY <1>7, <2>1
<1>8. ASSUME NEW i \in Nat, i < End, text[i] \notin Special
      PROVE  \A k \in i .. (i + 1) - 1 : text[k] \notin Special
  <2>1. \A k \in i .. (i + 1) - 1 : k = i
    OBVIOUS
  <2> QED BY <1>8, <2>1
<1>9. whole = place /\ fraction = dot /\ dot \in place .. End /\ Plainly(dot)
  <2>1. whole = place /\ place \in 1 .. End
    BY <1>2, <1>5
  <2>2. dot \in place .. End /\ Plainly(dot)
    BY <1>6, <2>1
  <2> HIDE DEF dot, whole
  <2>3. fraction = dot
    BY <1>2, <1>5, <2>2
  <2> QED
    BY <2>1, <2>2, <2>3
<1> HIDE DEF fraction
<1>10. exponent \in place .. End /\ Plainly(exponent)
  <2> HIDE DEF Plainly
  <2>0. fraction \in place .. End /\ Plainly(fraction) /\ fraction \in Nat /\ 1 <= fraction
    BY <1>2, <1>9
  <2>1. CASE At(fraction) # "e"
    BY <2>0, <2>1
  <2>2. CASE At(fraction) = "e"
    <3>1. fraction < End /\ text[fraction] = "e"
      BY <1>5, <2>0, <2>2
    <3>2. \A k \in fraction .. (fraction + 1) - 1 : text[k] \notin Special
      BY <1>8, <2>0, <3>1 DEF Special
    <3>3. fraction + 1 \in fraction .. End /\ fraction + 1 \in place .. End
          /\ fraction + 1 \in Nat /\ 1 <= fraction + 1
      BY <1>2, <2>0, <3>1
    <3>4. Plainly(fraction + 1)
      BY <1>7, <2>0, <3>2, <3>3
    <3>5. sign \in place .. End /\ Plainly(sign)
      <4>1. CASE At(fraction + 1) # "-"
        BY <3>3, <3>4, <4>1
      <4>2. CASE At(fraction + 1) = "-"
        <5>1. fraction + 1 < End /\ text[fraction + 1] = "-"
          BY <1>5, <3>3, <4>2
        <5>2. \A k \in fraction + 1 .. ((fraction + 1) + 1) - 1 : text[k] \notin Special
          BY <1>8, <3>3, <5>1 DEF Special
        <5>3. (fraction + 1) + 1 = fraction + 2 /\ fraction + 2 \in fraction + 1 .. End
              /\ fraction + 2 \in place .. End
          BY <1>2, <2>0, <5>1
        <5>4. Plainly(fraction + 2)
          BY <1>7, <3>3, <3>4, <5>2, <5>3
        <5> QED
          BY <4>2, <5>3, <5>4
      <4> QED
        BY <4>1, <4>2
    <3>6. exponent = DigitsEnd(sign)
      BY <2>2
    <3> HIDE DEF sign, exponent
    <3>7. sign \in 1 .. End
      BY <1>2, <3>5
    <3>8. /\ exponent \in sign .. End
          /\ \A k \in sign .. exponent - 1 : text[k] \notin Special
      BY <1>6, <3>6, <3>7
    <3>9. exponent \in place .. End
      BY <1>2, <3>5, <3>8
    <3> QED
      BY <1>7, <3>5, <3>8, <3>9
  <2> QED
    BY <2>1, <2>2
<1> HIDE DEF exponent
<1>11. end \in place .. End /\ Plainly(end)
  <2> HIDE DEF Plainly
  <2>0. exponent \in Nat /\ 1 <= exponent
    BY <1>2, <1>10
  <2>1. CASE At(exponent) # "i"
    BY <1>10, <2>1
  <2>2. CASE At(exponent) = "i"
    <3>1. exponent < End /\ text[exponent] = "i"
      BY <1>5, <2>0, <2>2
    <3>2. \A k \in exponent .. (exponent + 1) - 1 : text[k] \notin Special
      BY <1>8, <2>0, <3>1 DEF Special
    <3>3. exponent + 1 \in exponent .. End /\ exponent + 1 \in place .. End
      BY <1>2, <1>10, <3>1
    <3>4. Plainly(exponent + 1)
      BY <1>7, <1>10, <3>2, <3>3
    <3> QED
      BY <2>2, <3>3, <3>4
  <2> QED
    BY <2>1, <2>2
<1> HIDE DEF end
<1> QED
  BY <1>1, <1>3, <1>4, <1>11, OrdinaryToken

(* What Here says of a symbol, and the branches that read symbols. A slash   *)
(* alone is followed by nothing that makes it the start of a comment.        *)
LEMMA HereReads ==
  ASSUME LexerInv, Plain, NEW s \in Symbols, Here(s)
  PROVE  /\ place + Len(s) \in place .. End /\ Len(s) \in 1 .. 3
         /\ \A k \in place .. place + Len(s) - 1 : \E j \in 1 .. Len(s) : text[k] = s[j]
         /\ text[place] = s[1]
         /\ Len(s) >= 2 => text[place + 1] = s[2]
<1>1. text \in Seq(STRING) /\ End \in Nat /\ Len(text) = End - 1 /\ place \in Nat /\ 1 <= place
  BY PlaceIsRead DEF LexerInv, End
<1>2. Len(s) \in 1 .. 3
  BY SymbolsAreShort
<1>3. place + Len(s) <= End /\ SubSeq(text, place, place + Len(s) - 1) = s
  BY DEF Here
<1> DEFINE n == Len(s)
<1>4. n \in 1 .. 3 /\ n \in Nat /\ place + n <= End /\ (place + n - 1) - place + 1 = n
  BY <1>1, <1>2, <1>3
<1>5. s = [j \in 1 .. n |-> text[place + j - 1]]
  <2> HIDE DEF n
  <2>1. SubSeq(text, place, place + n - 1)
          = [j \in 1 .. (place + n - 1) - place + 1 |-> text[place + j - 1]]
    BY <1>1, <1>4
  <2> QED
    BY <1>3, <1>4, <2>1 DEF n
<1>6. \A j \in 1 .. n : s[j] = text[place + j - 1]
  <2> HIDE DEF n
  <2> QED BY <1>5
<1> HIDE DEF n
<1>7. ASSUME NEW k \in place .. place + n - 1
      PROVE  \E j \in 1 .. n : text[k] = s[j]
  <2>1. (k - place) + 1 \in 1 .. n /\ place + ((k - place) + 1) - 1 = k
    BY <1>1, <1>4
  <2> QED
    BY <1>6, <2>1
<1>8. text[place] = s[1] /\ (n >= 2 => text[place + 1] = s[2])
  <2>1. /\ 1 \in 1 .. n /\ place + 1 - 1 = place
        /\ n >= 2 => 2 \in 1 .. n /\ place + 2 - 1 = place + 1
    BY <1>1, <1>4
  <2> QED
    BY <1>6, <2>1
<1>9. place + n \in place .. End
  BY <1>1, <1>4
<1> QED
  BY <1>4, <1>7, <1>8, <1>9 DEF n

LEMMA SlashAlone ==
  ASSUME LexerInv, Boundary(place), NoneAbove, text[place] = "/", Push("symbol", place + 1)
  PROVE  ScanReads("symbol", place + 1)
<1>1. Plain /\ ~LineCommentHere /\ ~Here(<<"/", "*">>)
  BY DEF NoneAbove
<1>2. /\ text \in Seq(STRING) /\ End \in Nat /\ Len(text) = End - 1 /\ place \in Nat
      /\ place < End /\ 1 <= place /\ At(place) = text[place] /\ Modes[place] = "slash"
  BY <1>1, InkInCode
<1>3. At(place + 1) \notin {"/", "//allow"}
  BY <1>1, <1>2 DEF LineCommentHere
<1>4. place + 1 < End => text[place + 1] # "*" /\ At(place + 1) = text[place + 1]
  <2> SUFFICES ASSUME place + 1 < End, text[place + 1] = "*" PROVE FALSE
    BY DEF At
  <2>1. Len(<<"/", "*">>) = 2 /\ place + 2 <= End /\ place + 2 - 1 = place + 1
    BY <1>2
  <2>2. place \in Nat \ {0} /\ place + 1 \in Nat /\ place + 1 <= Len(text)
        /\ (place + 1) - place + 1 = 2
    BY <1>2, <2>1
  <2>3. SubSeq(text, place, place + 1) = [k \in 1 .. 2 |-> text[place + k - 1]]
    BY <2>2
  <2>4. SubSeq(text, place, place + 1) = <<text[place], text[place + 1]>>
    <3>1. \A k \in 1 .. 2 : k = 1 \/ k = 2
      OBVIOUS
    <3>2. place + 1 - 1 = place /\ place + 2 - 1 = place + 1
      BY <1>2
    <3>3. \A k \in 1 .. 2 : text[place + k - 1] = <<text[place], text[place + 1]>>[k]
      BY <3>1, <3>2
    <3>4. <<text[place], text[place + 1]>> =
            [k \in 1 .. 2 |-> <<text[place], text[place + 1]>>[k]]
      OBVIOUS
    <3> QED
      BY <2>3, <3>3, <3>4
  <2>5. Here(<<"/", "*">>)
    BY <2>1, <2>4 DEF Here
  <2> QED
    BY <1>1, <2>5
<1>5. place + 1 \in place .. End /\ (place + 1) - 1 = place
  BY <1>2
<1>6. Boundary(place + 1)
  <2>1. CASE place + 1 = End
    BY <2>1 DEF Boundary
  <2>2. CASE place + 1 # End
    <3>1. place + 1 < End
      BY <1>2, <2>2
    <3>2. At(place + 1) \notin {"/", "*"}
      BY <1>3, <1>4, <3>1
    <3>3. InCode(place + 1)
      BY <1>2, <1>5, <3>2 DEF InCode
    <3> QED
      BY <3>3 DEF Boundary
  <2> QED
    BY <2>1, <2>2
<1>7. ~Commented(place)
  <2>1. place < Len(text) => Modes[place + 1] # "block"
    <3> SUFFICES ASSUME place < Len(text) PROVE Modes[place + 1] # "block"
      OBVIOUS
    <3>1. place + 1 < End /\ place + 1 \in 1 .. Len(text)
      BY <1>2
    <3>2. Modes[place + 1] = Scan("slash", text[place + 1])
      BY <1>2, <1>5, <3>1, ModesScan
    <3> QED
      BY <1>4, <3>1, <3>2, ScanElsewhere
  <2> QED
    BY <1>2, <2>1 DEF Commented
<1>8. AsScanned("symbol", place, place + 1)
  <2>1. \A k \in place .. (place + 1) - 1 : k = place
    BY <1>2
  <2> QED
    BY <1>2, <1>7, <2>1 DEF AsScanned, Quoted
<1> QED
  BY <1>5, <1>6, <1>8 DEF ScanReads

LEMMA SlashAndAssign ==
  ASSUME LexerInv, Boundary(place), Plain, text[place] = "/", text[place + 1] = "=",
         place + 2 <= End, Push("symbol", place + 2)
  PROVE  ScanReads("symbol", place + 2)
<1>1. /\ text \in Seq(STRING) /\ End \in Nat /\ Len(text) = End - 1 /\ place \in Nat
      /\ Modes[place] = "slash"
  BY InkInCode
<1>2. /\ place + 1 \in 1 .. Len(text) /\ (place + 1) - 1 = place
      /\ place + 2 \in place .. End /\ (place + 2) - 1 = place + 1
  BY <1>1
<1>3. Modes[place + 1] = Scan("slash", text[place + 1])
  BY <1>1, <1>2, ModesScan
<1>4. Modes[place + 1] = "code"
  BY <1>3, ScanInCode
<1>5. InCode(place + 2)
  BY <1>2, <1>4 DEF InCode
<1>6. \A k \in place .. (place + 2) - 1 : k = place \/ k = place + 1
  BY <1>1
<1>7. AsScanned("symbol", place, place + 2)
  BY <1>1, <1>4, <1>6 DEF AsScanned, Commented, Quoted
<1> QED
  BY <1>2, <1>5, <1>7 DEF ScanReads, Boundary

LEMMA SymbolIsScanned ==
  ASSUME LexerInv, Clean, Boundary(place), LexSymbol
  PROVE  \E kind, end : ScanReads(kind, end)
<1>1. NoneAbove /\ Plain
  BY DEF LexSymbol, NoneAbove
<1>2. PICK s \in SymbolsHere : Push("symbol", place + Len(s))
  BY DEF LexSymbol
<1>3. s \in Symbols /\ Here(s)
  BY DEF SymbolsHere
<1>4. /\ place + Len(s) \in place .. End /\ Len(s) \in 1 .. 3
      /\ \A k \in place .. place + Len(s) - 1 : \E j \in 1 .. Len(s) : text[k] = s[j]
      /\ text[place] = s[1]
      /\ Len(s) >= 2 => text[place + 1] = s[2]
  BY <1>1, <1>3, HereReads
<1>5. text[place] # "."
  BY <1>1, InkInCode DEF Clean
<1>6. CASE s = <<"/">>
  <2>1. Len(s) = 1 /\ s[1] = "/"
    BY <1>6
  <2> QED
    BY <1>1, <1>2, <1>4, <2>1, SlashAlone
<1>7. CASE s = <<"/", "=">>
  <2>1. Len(s) = 2 /\ s[1] = "/" /\ s[2] = "=" /\ 2 >= 2
    BY <1>7
  <2>2. place + 2 <= End
    BY <1>3, <2>1 DEF Here
  <2> QED
    BY <1>1, <1>2, <1>4, <2>1, <2>2, SlashAndAssign
<1>8. CASE s \notin {<<"/">>, <<"/", "=">>}
  <2>1. s \in {<<"<">>, <<"<", "=">>, <<"-">>, <<"-", "=">>, <<"=">>, <<"=", "=">>,
               <<"(">>, <<",">>, <<"*">>, <<"*", "=">>, <<"backslash">>}
    <3>1. s[1] # "."
      BY <1>4, <1>5
    <3>2. s # <<".", "*">> /\ s # <<".", "*", "=">>
      BY <3>1
    <3>3. s # <<".", "/">> /\ s # <<".", "/", "=">>
      BY <3>1
    <3> QED
      BY <1>3, <1>8, <3>2, <3>3, Zenon DEF Symbols
  <2>2. \A j \in 1 .. Len(s) : s[j] \notin Special
    <3>1. \/ \E a : s = <<a>> /\ a \in {"<", "-", "=", "(", ",", "*", "backslash"}
          \/ \E a, b : s = <<a, b>> /\ a \in {"<", "-", "=", "*"} /\ b = "="
      BY <2>1
    <3>2. ASSUME NEW a, s = <<a>>, a \in {"<", "-", "=", "(", ",", "*", "backslash"}
          PROVE  \A j \in 1 .. Len(s) : s[j] \notin Special
      <4>1. Len(s) = 1 /\ s[1] = a
        BY <3>2
      <4>2. \A j \in 1 .. 1 : j = 1
        OBVIOUS
      <4> QED BY <3>2, <4>1, <4>2 DEF Special
    <3>3. ASSUME NEW a, NEW b, s = <<a, b>>, a \in {"<", "-", "=", "*"}, b = "="
          PROVE  \A j \in 1 .. Len(s) : s[j] \notin Special
      <4>1. Len(s) = 2 /\ s[1] = a /\ s[2] = b /\ \A j \in 1 .. 2 : j = 1 \/ j = 2
        BY <3>3
      <4> QED BY <3>3, <4>1 DEF Special
    <3> QED
      BY <3>1, <3>2, <3>3
  <2>3. \A k \in place .. place + Len(s) - 1 : text[k] \notin Special
    BY <1>4, <2>2
  <2>4. ASSUME NEW end, end = place + Len(s) PROVE ScanReads("symbol", end)
    <3>1. Push("symbol", end)
      BY <1>2, <2>4
    <3>2. end \in place .. End
      BY <1>4, <2>4
    <3>3. ASSUME NEW k \in place .. end - 1
          PROVE  text[k] \notin Special
      <4>0. place \in Nat /\ Len(s) \in Nat
        BY <1>1, <1>4, InkInCode
      <4>1. k \in place .. place + Len(s) - 1
        BY <2>4, <4>0
      <4> QED
        BY <2>3, <4>1
    <3> QED
      BY <1>1, <3>1, <3>2, <3>3, OrdinaryToken
  <2> QED
    BY <2>4
<1> QED
  BY <1>6, <1>7, <1>8

LEMMA ArrowIsScanned ==
  ASSUME LexerInv, Boundary(place), LexArrow
  PROVE  \E kind, end : ScanReads(kind, end)
<1>1. Plain /\ Here(Arrow) /\ Push("legacy", place + 2)
  BY DEF LexArrow
<1>2. text \in Seq(STRING) /\ End \in Nat /\ Len(text) = End - 1 /\ place \in Nat /\ 1 <= place
  BY <1>1, InkInCode
<1>3. Len(Arrow) = 2 /\ Arrow[1] = "<" /\ Arrow[2] = "-"
  BY DEF Arrow
<1>4. place + 2 <= End /\ SubSeq(text, place, place + 2 - 1) = Arrow
  BY <1>1, <1>3 DEF Here
<1>5. place + 2 - 1 = place + 1 /\ place \in Nat \ {0} /\ place + 1 \in Nat
      /\ place + 1 <= Len(text) /\ (place + 1) - place + 1 = 2 /\ place + 1 - 1 = place
  BY <1>2, <1>4
<1>6. SubSeq(text, place, place + 1) = [k \in 1 .. 2 |-> text[place + k - 1]]
  BY <1>5
<1>7. text[place] = "<" /\ text[place + 1] = "-"
  <2>1. 1 \in 1 .. 2 /\ 2 \in 1 .. 2
    OBVIOUS
  <2>2. Arrow[1] = text[place + 1 - 1] /\ Arrow[2] = text[place + 2 - 1]
    BY <1>4, <1>5, <1>6, <2>1
  <2> QED
    BY <1>3, <1>5, <2>2
<1>8. \A k \in place .. (place + 2) - 1 : k = place \/ k = place + 1
  BY <1>2
<1>9. \A k \in place .. (place + 2) - 1 : text[k] \notin Special
  BY <1>7, <1>8 DEF Special
<1>10. place + 2 \in place .. End
  BY <1>2, <1>4
<1> QED
  BY <1>1, <1>9, <1>10, OrdinaryToken

LEMMA InvalidIsScanned ==
  ASSUME LexerInv, Boundary(place), LexInvalid
  PROVE  \E kind, end : ScanReads(kind, end)
<1>1. /\ NoneAbove /\ Plain /\ ~LineCommentHere /\ SymbolsHere = {}
      /\ Push("invalid", place + 1)
  BY DEF LexInvalid, NoneAbove
<1>2. /\ text \in Seq(STRING) /\ End \in Nat /\ Len(text) = End - 1 /\ place \in Nat
      /\ place < End /\ 1 <= place /\ At(place) = text[place]
  BY <1>1, InkInCode
<1>3. text[place] \notin {"quote", "//allow"}
  BY <1>1, <1>2 DEF NoneAbove, LineCommentHere
<1>4. ASSUME text[place] = "/" PROVE FALSE
  <2>1. Len(<<"/">>) = 1 /\ place + 1 <= End /\ place + 1 - 1 = place
    BY <1>2
  <2>2. place \in Nat \ {0} /\ place <= Len(text) /\ place - place + 1 = 1
    BY <1>2
  <2>3. SubSeq(text, place, place) = [k \in 1 .. 1 |-> text[place + k - 1]]
    BY <2>2
  <2>4. SubSeq(text, place, place) = <<"/">>
    <3>1. \A k \in 1 .. 1 : k = 1
      OBVIOUS
    <3>2. \A k \in 1 .. 1 : text[place + k - 1] = <<"/">>[k]
      BY <1>4, <2>1, <3>1
    <3>3. <<"/">> = [k \in 1 .. 1 |-> <<"/">>[k]]
      OBVIOUS
    <3> QED
      BY <2>3, <3>2, <3>3
  <2>5. Here(<<"/">>)
    BY <2>1, <2>4 DEF Here
  <2>6. <<"/">> \in Symbols
    BY DEF Symbols
  <2> QED
    BY <1>1, <2>5, <2>6 DEF SymbolsHere
<1>5. \A k \in place .. (place + 1) - 1 : k = place
  BY <1>2
<1>6. \A k \in place .. (place + 1) - 1 : text[k] \notin Special
  BY <1>3, <1>4, <1>5 DEF Special
<1>7. place + 1 \in place .. End
  BY <1>2
<1> QED
  BY <1>1, <1>6, <1>7, OrdinaryToken

(* Every branch, where no path is due: the automaton agrees on what it reads *)
(* and is at the beginning of a token again; and no path is due after it.    *)
LEMMA NextTokenIsScanned ==
  ASSUME ScanInv, Clean, NextToken
  PROVE  expectPath' = FALSE /\ \E kind, end : ScanReads(kind, end)
<1>1. LexerInv /\ expectPath = FALSE /\ Boundary(place)
  BY DEF ScanInv, LexerInv
<1>2. CASE LexWhitespace
  <2>1. expectPath' = FALSE
    BY <1>1, <1>2 DEF LexWhitespace
  <2> QED
    BY <1>1, <1>2, <2>1, BlanksAreScanned
<1>3. CASE LexIncludePath
  BY <1>1, <1>3 DEF LexIncludePath
<1>4. CASE LexDirective
  <2>1. Plain
    BY <1>4 DEF LexDirective
  <2>2. At(place) # "#include"
    BY <1>1, <2>1, InkInCode DEF Clean
  <2>3. expectPath' = expectPath
    BY <1>4, <2>2 DEF LexDirective
  <2> QED
    BY <1>1, <1>4, <2>3, DirectiveIsScanned
<1>5. CASE LexLineComment
  BY <1>1, <1>5, LineCommentIsScanned DEF LexLineComment
<1>6. CASE LexBlockComment
  BY <1>1, <1>6, BlockCommentIsScanned DEF LexBlockComment
<1>7. CASE LexString
  BY <1>1, <1>7, StringIsScanned DEF LexString
<1>8. CASE LexNumber
  <2>1. expectPath' = expectPath
    BY <1>8, Zenon DEF LexNumber
  <2> QED
    BY <1>1, <1>8, <2>1, NumberIsScanned
<1>9. CASE LexWord
  BY <1>1, <1>9, WordIsScanned DEF LexWord
<1>10. CASE LexArrow
  BY <1>1, <1>10, ArrowIsScanned DEF LexArrow
<1>11. CASE LexSymbol
  BY <1>1, <1>11, SymbolIsScanned DEF LexSymbol
<1>12. CASE LexInvalid
  BY <1>1, <1>12, InvalidIsScanned DEF LexInvalid
<1> QED
  BY <1>2, <1>3, <1>4, <1>5, <1>6, <1>7, <1>8, <1>9, <1>10, <1>11, <1>12 DEF NextToken

LEMMA InitialScan == LexerInit => ScanInv
<1> SUFFICES ASSUME LexerInit PROVE ScanInv
  OBVIOUS
<1>1. LexerInv /\ expectPath = FALSE /\ place = 1 /\ tokens = <<>>
  BY InitialLexer DEF LexerInit
<1>2. Modes[0] = "code"
  BY <1>1, ModesScan DEF LexerInv
<1>3. Boundary(place)
  <2>1. place - 1 = 0
    BY <1>1
  <2> QED
    BY <1>2, <2>1 DEF Boundary, InCode
<1>4. DOMAIN tokens = {}
  BY <1>1
<1> QED
  BY <1>1, <1>3, <1>4 DEF ScanInv

LEMMA ScanStep == ScanInv /\ [LexerNext]_lexerVars => ScanInv'
<1> SUFFICES ASSUME ScanInv, [LexerNext]_lexerVars PROVE ScanInv'
  OBVIOUS
<1>1. LexerInv /\ LexerInv'
  BY LexerStep DEF ScanInv
<1>2. text' = text
  BY DEF LexerNext, NextToken, lexerVars
<1>3. (Clean' <=> Clean) /\ Modes' = Modes /\ End' = End
  BY <1>2, Zenon DEF Clean, Modes, End
<1> SUFFICES ASSUME Clean
             PROVE  /\ ~expectPath'
                    /\ Boundary(place)'
                    /\ \A n \in DOMAIN tokens' :
                         AsScanned(tokens[n].kind, tokens[n].start, tokens[n].end)'
  BY <1>1, <1>3, Zenon DEF ScanInv
<1>4. /\ ~expectPath /\ Boundary(place)
      /\ \A n \in DOMAIN tokens : AsScanned(tokens[n].kind, tokens[n].start, tokens[n].end)
  BY DEF ScanInv
<1>5. ASSUME NEW e, place' = e PROVE Boundary(place)' <=> Boundary(e)
  BY <1>2, <1>3, <1>5, Zenon DEF Boundary, InCode, At
<1>6. ASSUME NEW n, NEW kind, NEW start, NEW end,
             tokens'[n].kind = kind, tokens'[n].start = start, tokens'[n].end = end
      PROVE  AsScanned(tokens[n].kind, tokens[n].start, tokens[n].end)'
               <=> AsScanned(kind, start, end)
  BY <1>2, <1>3, <1>6, Zenon DEF AsScanned, Commented, Quoted
<1>7. ASSUME expectPath' = FALSE, NEW kind, NEW end, ScanReads(kind, end)
      PROVE  /\ ~expectPath'
             /\ Boundary(place)'
             /\ \A n \in DOMAIN tokens' :
                  AsScanned(tokens[n].kind, tokens[n].start, tokens[n].end)'
  <2>1. Push(kind, end) /\ AsScanned(kind, place, end) /\ Boundary(end) /\ place' = end
    BY <1>7 DEF ScanReads, Push
  <2>2. PICK n : n = Len(tokens) + 1
    OBVIOUS
  <2>3. /\ DOMAIN tokens = 1 .. n - 1 /\ DOMAIN tokens' = 1 .. n /\ n \in Nat
        /\ tokens'[n].kind = kind /\ tokens'[n].start = place /\ tokens'[n].end = end
        /\ \A m \in DOMAIN tokens : tokens'[m] = tokens[m]
    BY <1>1, <2>1, <2>2, PushedAt
  <2>4. AsScanned(tokens[n].kind, tokens[n].start, tokens[n].end)'
    BY <1>6, <2>1, <2>3
  <2>5. ASSUME NEW m \in DOMAIN tokens
        PROVE  AsScanned(tokens[m].kind, tokens[m].start, tokens[m].end)'
    BY <1>4, <1>6, <2>3
  <2>6. \A m \in DOMAIN tokens' : m = n \/ m \in DOMAIN tokens
    BY <2>3
  <2>7. Boundary(place)'
    BY <1>5, <2>1
  <2> QED
    BY <1>7, <2>4, <2>5, <2>6, <2>7
<1>8. CASE NextToken
  <2>1. PICK kind, end : ScanReads(kind, end)
    BY <1>8, NextTokenIsScanned
  <2>2. expectPath' = FALSE
    BY <1>8, NextTokenIsScanned
  <2> QED
    BY <1>7, <2>1, <2>2
<1>9. CASE LexEnd /\ UNCHANGED text
  <2>1. Push("eof", place) /\ expectPath' = FALSE /\ place = End
    BY <1>1, <1>4, <1>9 DEF LexEnd, LexerInv
  <2>2. End \in Nat
    BY <1>1 DEF LexerInv, End
  <2>3. place \in place .. End /\ place .. place - 1 = {}
    BY <2>1, <2>2
  <2>4. AsScanned("eof", place, place)
    BY <2>3 DEF AsScanned
  <2>5. ScanReads("eof", place)
    BY <1>4, <2>1, <2>3, <2>4 DEF ScanReads
  <2> QED
    BY <1>7, <2>1, <2>5
<1>10. CASE UNCHANGED lexerVars
  <2>1. place' = place /\ tokens' = tokens /\ expectPath' = expectPath
    BY <1>10 DEF lexerVars
  <2>2. Boundary(place)'
    BY <1>4, <1>5, <2>1
  <2>3. ASSUME NEW n \in DOMAIN tokens
        PROVE  AsScanned(tokens[n].kind, tokens[n].start, tokens[n].end)'
    BY <1>4, <1>6, <2>1
  <2> QED
    BY <1>4, <2>1, <2>2, <2>3
<1> QED
  BY <1>8, <1>9, <1>10 DEF LexerNext

(* On every text without paths and dots: comments and strings end where the  *)
(* character-by-character automaton sees them end, so that no star of an     *)
(* opener closes its comment and no escaped quote its string.                *)
THEOREM CommentsAreScanned == LexerSpec => []CommentsAndStringsAsScanned
<1>1. ASSUME ScanInv PROVE CommentsAndStringsAsScanned
  <2> SUFFICES ASSUME Clean, NEW n \in DOMAIN tokens,
                      NEW k \in tokens[n].start .. tokens[n].end - 1
               PROVE  /\ tokens[n].kind = "blockComment" <=> Commented(k)
                      /\ tokens[n].kind = "string" <=> Quoted(k)
    BY Zenon DEF CommentsAndStringsAsScanned, Clean, Commented, Quoted
  <2> QED
    BY <1>1 DEF ScanInv, AsScanned
<1>2. ScanInv => CommentsAndStringsAsScanned
  BY <1>1
<1> QED
  BY <1>2, InitialScan, ScanStep, PTL DEF LexerSpec
================================================================================
