------------------------------- MODULE Formatter ------------------------------
(***************************************************************************)
(* format.rs, run twice: a second pass reads each token as the first one   *)
(* wrote it, in lockstep. A token comes with the gap before it, the blanks *)
(* and line ends since the token before; the text is never put together.   *)
(* What a pass does next depends on its own record and the next token      *)
(* alone, so sources of every length are covered.                          *)
(***************************************************************************)
EXTENDS Integers, Sequences, FiniteSets

CONSTANTS
  Width,             \* indent_width
  MaxDepth,          \* bound on the nesting of delimiters
  IncludesComplete   \* whether every #include is followed by its path

ASSUME FormatterAssumption == /\ Width \in 1 .. 16 /\ MaxDepth \in Nat
                              /\ IncludesComplete \in BOOLEAN

(* Token kinds by the arm of format they take: a round bracket stands for a *)
(* square one, a bar for ":" and "?" too, the operators have forms.         *)
Words  == {"identifier", "keyword", "number", "string"}
Tokens == Words \cup {"bar", "operator", "leftParen", "rightParen", "leftBrace",
                      "rightBrace", "comma", "semicolon", "include", "path",
                      "lineComment", "blockComment"}
NoToken == "start"

(* The lexer takes the longest match. Without a gap these are one token, or *)
(* may be one, depending on how they are spelled.                           *)
Joins   == {"identifier", "keyword"} \X {"identifier", "keyword", "number"}
MayJoin == Joins \cup ({"number"} \X {"identifier", "keyword", "number", "operator"})
                 \cup ({"operator", "bar"} \X {"operator", "bar", "lineComment",
                                              "blockComment"})

-----------------------------------------------------------------------------
(* The text. The author writes what the analysis finds no error in:         *)
(* delimiters match, and a brace does not follow an unfinished statement.   *)

Gaps == {"none", "blank", "newline"}

Opener(t) == IF t = "rightBrace" THEN "leftBrace" ELSE "leftParen"

(* Whether the lexer reads token t after gap g and the last token. *)
Lexes(last, t, g) ==
  /\ g = "none" => <<last, t>> \notin Joins
  /\ last = "lineComment" => g = "newline"
  /\ last = "path" => g # "none"
  /\ t = "path" <=> last = "include" /\ g # "newline"

Errorless(last, open, t) ==
  /\ t \in {"rightBrace", "rightParen"} =>
       open # <<>> /\ open[Len(open)] = Opener(t)
  /\ t = "rightBrace" =>
       last \notin {"identifier", "number", "string", "rightParen"}

Nested(open, t) ==
  CASE t \in {"leftBrace", "leftParen"} -> Append(open, t)
    [] t \in {"rightBrace", "rightParen"} -> SubSeq(open, 1, Len(open) - 1)
    [] OTHER -> open

-----------------------------------------------------------------------------
(* One pass: the locals of format, and the blanks at the end of its output  *)
(* since the last token.                                                    *)

NoGap == [newline |-> FALSE, spaces |-> 0]
Blank == [newline |-> FALSE, spaces |-> 1]

Start == [indent |-> 0, lineStart |-> TRUE, pending |-> FALSE, gap |-> NoGap]

(* A bug: the end of a line is trimmed as well. *)
TrimBlanks(f) == [f EXCEPT !.gap = NoGap]

TrimSpaces(f) == [f EXCEPT !.gap = [newline |-> f.gap.newline, spaces |-> 0]]

Newline(f) == [f EXCEPT !.gap = [newline |-> TRUE, spaces |-> 0],
                        !.lineStart = TRUE, !.pending = FALSE]

WriteIndent(f) ==
  IF f.lineStart
  THEN [f EXCEPT !.gap = [newline |-> f.gap.newline,
                          spaces |-> f.gap.spaces + f.indent * Width],
                 !.lineStart = FALSE]
  ELSE f

(* A bug: a blank is written after blanks. *)
WriteEachPending(f) ==
  LET w == WriteIndent(f)
  IN  [w EXCEPT !.gap.spaces = IF w.pending THEN @ + 1 ELSE @, !.pending = FALSE]

WritePending(f) ==
  LET w == WriteIndent(f)
  IN  [w EXCEPT !.gap = IF w.pending /\ w.gap = NoGap THEN Blank ELSE w.gap,
                !.pending = FALSE]

Whitespace(f) == [f EXCEPT !.pending = ~f.lineStart]

Deeper(f)    == [f EXCEPT !.indent = f.indent + 1]
Shallower(f) == [f EXCEPT !.indent = IF f.indent = 0 THEN 0 ELSE f.indent - 1]

(* Bugs: the brace is indented like its block; a level too many ends.       *)
CloseBraceLate(f) ==
  Shallower(WriteIndent(IF f.lineStart THEN f ELSE Newline(f)))

CloseBraceTwice(f) ==
  WriteIndent(Newline([f EXCEPT !.indent = f.indent - 2]))

CloseBrace(f) ==
  WriteIndent(IF f.lineStart THEN Shallower(f) ELSE Newline(Shallower(f)))

(* A pass when it is about to push the spelling of t. *)
Before(f, t) ==
  CASE t = "rightBrace"            -> CloseBrace(f)
    [] t \in {"comma", "semicolon"}   -> f
    [] t = "leftParen"            -> WriteIndent(f)
    [] t = "rightParen"            -> TrimSpaces(f)
    [] t = "operator"     -> WritePending([f EXCEPT !.pending = TRUE])
    [] OTHER              -> WritePending(f)

(* A pass once it has dealt with t, f being the one that just pushed it.    *)
After(f, t) ==
  CASE t = "leftBrace" -> Newline(Deeper(f))
    [] t \in {"lineComment", "path", "rightBrace", "semicolon"} -> Newline(f)
    [] t \in {"blockComment", "comma", "operator", "include"} \cup Words ->
         [f EXCEPT !.pending = TRUE]
    [] OTHER -> [f EXCEPT !.pending = FALSE]

-----------------------------------------------------------------------------
VARIABLES
  last, open,      \* the last token of the text, its unclosed delimiters
  first, second,   \* the two passes
  written          \* the last token written, and the gaps before it

vars == <<last, open, first, second, written>>

Init == /\ last = NoToken /\ open = <<>>
        /\ first = Start /\ second = Start
        /\ written = [token |-> NoToken, after |-> NoToken, source |-> "none",
                      first |-> NoGap, second |-> NoGap, indent |-> 0]

(* The next token t of the text, after gap g; the second pass finds the     *)
(* gap that the first one wrote.                                            *)
Write(t, g) ==
  LET f == Before(IF g # "none" THEN Whitespace(first) ELSE first, t)
      s == Before(IF f.gap # NoGap THEN Whitespace(second) ELSE second, t)
  IN  /\ Lexes(last, t, g) /\ Errorless(last, open, t)
      /\ t \in {"leftBrace", "leftParen"} => Len(open) < MaxDepth
      /\ IncludesComplete /\ last = "include" => t = "path"
      /\ last' = t
      /\ open' = Nested(open, t)
      /\ first' = After([f EXCEPT !.gap = NoGap], t)
      /\ second' = After([s EXCEPT !.gap = NoGap], t)
      /\ written' = [token |-> t, after |-> last, source |-> g,
                     first |-> f.gap, second |-> s.gap, indent |-> f.indent]

Next == \E t \in Tokens, g \in Gaps : Write(t, g)

Spec == Init /\ [][Next]_vars

-----------------------------------------------------------------------------
Gap  == [newline : BOOLEAN, spaces : Nat]
Pass == [indent : Nat, lineStart : BOOLEAN, pending : BOOLEAN, gap : Gap]

TypeOK ==
  /\ last \in Tokens \cup {NoToken}
  /\ open \in Seq({"leftBrace", "leftParen"})
  /\ first \in Pass /\ second \in Pass
  /\ written \in [token : Tokens \cup {NoToken}, after : Tokens \cup {NoToken},
                  source : Gaps, first : Gap, second : Gap, indent : Nat]

(* The lexer finds the same tokens in what format writes ("preserves        *)
(* comments, directives, includes, strings, and source meaning"): none      *)
(* joins its neighbour, none ends up in a comment or an include path.       *)
TokensSurvive ==
  /\ <<written.after, written.token>> \in MayJoin /\ written.first = NoGap =>
       written.source = "none"
  /\ written.after = "lineComment" => written.first.newline
  /\ written.after = "path" => written.first # NoGap
  /\ written.after = "include" =>
       (written.token = "path" <=> ~written.first.newline)

(* A second pass changes at most what follows a comma outside all blocks,   *)
(* and then by one blank: trimmed ends of lines, indents and pending        *)
(* blanks agree with what the pass before it wrote.                         *)
OnlyCommasWaver ==
  written.first # written.second =>
    /\ written.after = "comma" /\ written.indent = 0
    /\ written.first.spaces + written.second.spaces = 1

(* Blocks among delimiters *)
BlocksIn(delimiters) ==
  Cardinality({k \in DOMAIN delimiters : delimiters[k] = "leftBrace"})

(* A token that starts a line is indented by the blocks that are open, or   *)
(* is a separator or closing bracket, which are never indented.             *)
LinesAreIndented ==
  LET blocks == BlocksIn(open)
  IN  written.first.newline =>
        written.first.spaces =
          CASE written.token \in {"comma", "semicolon", "rightParen"} -> 0
            [] written.token = "leftBrace" -> Width * (blocks - 1)
            [] OTHER -> Width * blocks
=============================================================================
