--------------------------------- MODULE Lexer ---------------------------------
(***************************************************************************)
(* lexer.rs: the lexer as the machine it is, one token a step. Its state   *)
(* is the place it has reached, whether an include path is due, and what   *)
(* it has pushed so far; the text does not change. The actions are the     *)
(* branches of next_token in their order: each is enabled only where none  *)
(* of the branches above it applies.                                       *)
(***************************************************************************)
EXTENDS Naturals, Sequences

CONSTANT Texts    \* the texts the lexer is given: sequences of characters
ASSUME TextsAssumption == Texts \subseteq Seq(STRING)

VARIABLES
  text,
  place,         \* offset: the place of the next character to read
  expectPath,    \* expect_include_path
  tokens,        \* [kind, start, end], end being the place after the last character
  diagnostics    \* the lexical ones, of the same form

lexerVars == <<text, place, expectPath, tokens, diagnostics>>

Newlines   == {"LF", "CR"}
Whitespace == Newlines \cup {" "}
Digits     == {"1"}
Words      == {"real", "lp__", "all"}
WordStart  == {"a", "e", "i", "theta", "_"} \cup Words
WordChars  == WordStart \cup Digits

(* Symbol::ALL, as far as the alphabets spell them. *)
Symbols == {<<"<">>, <<"<", "=">>, <<"-">>, <<"-", "=">>, <<"=">>, <<"=", "=">>,
            <<"(">>, <<",">>, <<"*">>, <<"*", "=">>, <<"/">>, <<"/", "=">>,
            <<"backslash">>, <<".", "*">>, <<".", "*", "=">>,
            <<".", "/">>, <<".", "/", "=">>}
Arrow == <<"<", "-">>

End == Len(text) + 1
At(i) == IF i < End THEN text[i] ELSE "end"
Here(spelling) ==
  /\ place + Len(spelling) <= End
  /\ SubSeq(text, place, place + Len(spelling) - 1) = spelling
LineCommentHere == At(place) = "//allow" \/
                   (At(place) = "/" /\ At(place + 1) \in {"/", "//allow"})

(* The first place from i on that satisfies the condition, or the end. *)
Least(S) == CHOOSE m \in S : \A n \in S : m <= n
SkipWhile(i, S) == Least({j \in i .. End : j < End => text[j] \notin S})
SkipUntil(i, S) == Least({j \in i .. End : j < End => text[j] \in S})

Push(kind, end) ==
  /\ tokens' = Append(tokens, [kind |-> kind, start |-> place, end |-> end])
  /\ place' = end
Report(kind, end) ==
  diagnostics' = Append(diagnostics, [kind |-> kind, start |-> place, end |-> end])

(* A mutant: whitespace of any kind ends the wait for a path. *)
LexWhitespaceForgets ==
  /\ At(place) \in Whitespace
  /\ Push("whitespace", SkipWhile(place, Whitespace))
  /\ expectPath' = FALSE
  /\ UNCHANGED diagnostics

LexWhitespace ==
  /\ At(place) \in Whitespace
  /\ LET end == SkipWhile(place, Whitespace) IN
     /\ Push("whitespace", end)
     /\ expectPath' = (expectPath /\ \A k \in place .. end - 1 : text[k] \notin Newlines)
  /\ UNCHANGED diagnostics

(* A mutant: the quote that ends a path is stepped over though there is none. *)
PathEndPastText ==
  IF At(place) # "quote" THEN SkipUntil(place, Whitespace)
  ELSE SkipUntil(place + 1, {"quote"}) + 1

(* A quoted path may hold blanks and line ends; it ends after its second     *)
(* quote, or with the text.                                                  *)
PathEnd ==
  IF At(place) # "quote" THEN SkipUntil(place, Whitespace)
  ELSE LET close == SkipUntil(place + 1, {"quote"})
       IN IF close < End THEN close + 1 ELSE End

LexIncludePath ==
  /\ place < End /\ At(place) \notin Whitespace /\ expectPath
  /\ Push("path", PathEnd)
  /\ expectPath' = FALSE
  /\ UNCHANGED diagnostics

(* The branches below are reached by what is neither blank nor a path. *)
Plain == place < End /\ At(place) \notin Whitespace /\ ~expectPath

LexLineComment ==
  /\ Plain /\ LineCommentHere
  /\ Push("comment", SkipUntil(place + 1, Newlines))
  /\ UNCHANGED <<expectPath, diagnostics>>

(* A mutant: the search for the end of the comment includes its opener. *)
BlockEndOverlapping ==
  {j \in place + 3 .. End : text[j - 2] = "*" /\ text[j - 1] = "/"}

(* The places after an end of the block comment that starts here *)
BlockEnds == {j \in place + 4 .. End : text[j - 2] = "*" /\ text[j - 1] = "/"}

LexBlockComment ==
  /\ Plain /\ Here(<<"/", "*">>)
  /\ IF BlockEnds # {}
     THEN Push("blockComment", Least(BlockEnds)) /\ UNCHANGED diagnostics
     ELSE Push("blockComment", End) /\ Report("unterminatedComment", End)
  /\ UNCHANGED expectPath

(* A character is escaped when the backslashes before it, back to the        *)
(* opening quote, are odd in number.                                         *)
Escaped(i) ==
  \E k \in place + 1 .. i - 1 :
    /\ \A j \in k .. i - 1 : text[j] = "backslash"
    /\ k = place + 1 \/ text[k - 1] # "backslash"
    /\ (i - k) % 2 = 1
StringStops == {i \in place + 1 .. End - 1 :
                  text[i] \in {"quote"} \cup Newlines /\ ~Escaped(i)}

LexString ==
  /\ Plain /\ At(place) = "quote"
  /\ LET end == IF StringStops = {} THEN End ELSE Least(StringStops) + 1 IN
     /\ Push("string", end)
     /\ IF StringStops # {} /\ text[end - 1] = "quote" THEN UNCHANGED diagnostics
        ELSE Report("unterminatedString", end)
  /\ UNCHANGED expectPath

LexDirective ==
  /\ Plain /\ At(place) \in {"#include", "#"}
  /\ IF At(place) = "#include"
     THEN /\ Push("directive", place + 1)
          /\ expectPath' = TRUE
          /\ UNCHANGED diagnostics
     ELSE LET end == SkipWhile(place + 1, WordChars) IN
          /\ Push("invalid", end)
          /\ Report("invalidDirective", end)
          /\ UNCHANGED expectPath

NumberHere == At(place) \in Digits \/ (At(place) = "." /\ At(place + 1) \in Digits)

(* digits_with_underscores, over the run that starts at a place *)
DigitsEnd(i) == SkipWhile(i, Digits \cup {"_"})
WellWritten(i) ==
  /\ DigitsEnd(i) > i
  /\ text[i] # "_" /\ text[DigitsEnd(i) - 1] # "_"
  /\ \A k \in i + 1 .. DigitsEnd(i) - 1 : text[k] # "_" \/ text[k - 1] # "_"

LexNumber ==
  /\ Plain /\ NumberHere
  /\ LET whole    == IF At(place) = "." THEN place + 1 ELSE place
         dot      == DigitsEnd(whole)
         fraction == IF At(dot) = "." THEN DigitsEnd(dot + 1) ELSE dot
         sign     == IF At(fraction + 1) = "-" THEN fraction + 2 ELSE fraction + 1
         exponent == IF At(fraction) = "e" THEN DigitsEnd(sign) ELSE fraction
         end      == IF At(exponent) = "i" THEN exponent + 1 ELSE exponent
         isReal   == whole > place \/ At(dot) = "." \/ At(fraction) = "e"
         malformed == \/ ~WellWritten(whole)
                      \/ At(dot) = "." /\ At(dot + 1) = "_"
                      \/ At(fraction) = "e" /\ ~WellWritten(sign)
     IN /\ Push(IF end > exponent THEN "imaginary" ELSE IF isReal THEN "real"
                ELSE "integer", end)
        /\ IF malformed THEN Report("malformedNumber", end) ELSE UNCHANGED diagnostics
  /\ UNCHANGED expectPath

(* A keyword or a legacy word is one only when it is the whole word. *)
WordKind(end) ==
  IF end > place + 1 THEN "identifier"
  ELSE IF text[place] = "real" THEN "type"
  ELSE IF text[place] = "lp__" THEN "legacy" ELSE "identifier"

LexWord ==
  /\ Plain /\ At(place) \in WordStart
  /\ LET end == SkipWhile(place, WordChars) IN Push(WordKind(end), end)
  /\ UNCHANGED <<expectPath, diagnostics>>

(* The arrow is looked for before the symbols: it wins over their longest. *)
LexArrow ==
  /\ Plain /\ Here(Arrow)
  /\ Push("legacy", place + 2)
  /\ UNCHANGED <<expectPath, diagnostics>>

SymbolsHere == {s \in Symbols : Here(s)}
NoneAbove ==
  /\ Plain /\ ~LineCommentHere /\ ~NumberHere /\ ~Here(Arrow) /\ ~Here(<<"/", "*">>)
  /\ At(place) \notin WordStart \cup {"quote", "#include", "#"}

LexSymbol ==
  /\ NoneAbove /\ SymbolsHere # {}
  /\ \E s \in SymbolsHere :
       /\ \A other \in SymbolsHere : Len(other) <= Len(s)
       /\ Push("symbol", place + Len(s))
  /\ UNCHANGED <<expectPath, diagnostics>>

LexInvalid ==
  /\ NoneAbove /\ SymbolsHere = {}
  /\ Push("invalid", place + 1)
  /\ Report("invalidCharacter", place + 1)
  /\ UNCHANGED expectPath

(* run: when the text is used up, the end of file is pushed, an empty token. *)
Lexed == tokens # <<>> /\ tokens[Len(tokens)].kind = "eof"
LexEnd ==
  /\ place = End /\ ~Lexed
  /\ Push("eof", place)
  /\ UNCHANGED <<expectPath, diagnostics>>

LexerInit ==
  /\ text \in Texts
  /\ place = 1
  /\ expectPath = FALSE
  /\ tokens = <<>>
  /\ diagnostics = <<>>

NextToken ==
  /\ \/ LexWhitespace \/ LexIncludePath \/ LexLineComment \/ LexBlockComment
     \/ LexString \/ LexDirective \/ LexNumber \/ LexWord \/ LexArrow
     \/ LexSymbol \/ LexInvalid
  /\ UNCHANGED text

LexerNext == NextToken \/ (LexEnd /\ UNCHANGED text)
LexerSpec == LexerInit /\ [][LexerNext]_lexerVars
-----------------------------------------------------------------------------
(* A reference for comments and strings: what a character is part of, by     *)
(* the automaton that reads one character at a time.                         *)
Scan(mode, c) ==
  CASE mode = "line"   -> IF c \in Newlines THEN "code" ELSE "line"
    [] mode = "block"  -> IF c = "*" THEN "star" ELSE "block"
    [] mode = "star"   -> IF c = "/" THEN "closed" ELSE IF c = "*" THEN "star" ELSE "block"
    [] mode = "string" -> IF c = "backslash" THEN "escape"
                          ELSE IF c \in {"quote"} \cup Newlines THEN "ended" ELSE "string"
    [] mode = "escape" -> "string"
    [] mode = "slash" /\ c = "/" -> "line"
    [] mode = "slash" /\ c = "*" -> "block"
    [] OTHER           -> CASE c = "/" -> "slash"
                            [] c = "//allow" -> "line"
                            [] c = "quote" -> "string"
                            [] OTHER -> "code"
Modes ==
  LET f[i \in 0 .. Len(text)] == IF i = 0 THEN "code" ELSE Scan(f[i - 1], text[i]) IN f

-----------------------------------------------------------------------------
(* The lexer is lossless (repository-map.md: tokens use UTF-8 byte ranges    *)
(* and reconstruct the source): its tokens are never empty, each starts      *)
(* where the one before ended, the last ends where the lexer is, and what it *)
(* reports is the range of a token. Lexing ends with the text used up.       *)
TokensCoverText ==
  /\ place \in 1 .. End
  /\ \A n \in DOMAIN tokens :
       /\ tokens[n].start = IF n = 1 THEN 1 ELSE tokens[n - 1].end
       /\ tokens[n].kind # "eof" => tokens[n].start < tokens[n].end
  /\ place = IF tokens = <<>> THEN 1 ELSE tokens[Len(tokens)].end
  /\ \A n \in DOMAIN diagnostics : \E m \in DOMAIN tokens :
       tokens[m].start = diagnostics[n].start /\ tokens[m].end = diagnostics[n].end
  /\ Lexed => place = End

(* Nothing but blanks of one line between two tokens *)
SameLineGap(n, m) ==
  \A k \in tokens[n].end .. tokens[m].start - 1 : text[k] \in Whitespace \ Newlines

(* An include path belongs to the directive on its line: lexer.rs waits for  *)
(* a path across blanks and gives up at a line end. So a path is always      *)
(* preceded by a directive with blanks of one line between, and a directive  *)
(* followed by anything else on its line has one.                            *)
PathsFollowDirectives ==
  /\ \A m \in DOMAIN tokens : tokens[m].kind = "path" =>
       \E n \in 1 .. m - 1 : tokens[n].kind = "directive" /\ SameLineGap(n, m)
  /\ \A n \in DOMAIN tokens, m \in DOMAIN tokens :
       /\ n < m
       /\ tokens[n].kind = "directive"
       /\ SameLineGap(n, m)
       /\ tokens[m].kind \notin {"whitespace", "eof"}
       => tokens[m].kind = "path"

(* Comments and strings end where a reader of the text, character by         *)
(* character, sees them end: a comment is closed by the first star and slash *)
(* after its opener, whose own star does not count, and an escaped quote     *)
(* closes no string.                                                         *)
(* (Paths, and the dot that takes the slash of ./ along, are left aside.)    *)
CommentsAndStringsAsScanned ==
  (Lexed /\ \A k \in 1 .. Len(text) : text[k] \notin {"#include", "."}) =>
    LET modes == Modes IN
    \A n \in DOMAIN tokens : \A k \in tokens[n].start .. tokens[n].end - 1 :
      /\ tokens[n].kind = "blockComment" <=>
           (modes[k] \in {"block", "star", "closed"} \/
            (k < Len(text) /\ modes[k] = "slash" /\ modes[k + 1] = "block"))
      /\ tokens[n].kind = "string" <=> modes[k] \in {"string", "escape", "ended"}

================================================================================
