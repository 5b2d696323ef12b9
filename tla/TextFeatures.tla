----------------------------- MODULE TextFeatures ------------------------------
(***************************************************************************)
(* What the server makes of the places of a text once it is lexed: the     *)
(* encoded semantic tokens, the range of a message of stanc, the lines a   *)
(* suppression comment reaches, and the name before an open call. Each     *)
(* crosses from one notion of place to another; the properties compare     *)
(* the outcome with what the client shows.                                 *)
(***************************************************************************)
EXTENDS Lexer, LineIndex

CONSTANTS MaxLine, MaxColumn   \* of the locations in stanc's messages

-----------------------------------------------------------------------------
(* The client, as the protocol defines it: a line ends with LF, CR or both,  *)
(* and a column past the end of a line means its end.                        *)
ClientStarts ==
  {1} \cup {i \in 2 .. End : \/ text[i - 1] = "LF"
                             \/ text[i - 1] = "CR" /\ At(i) # "LF"}
ClientLine(i) == Rank(ClientStarts, i) - 1
ClientStart(line) == Nth(ClientStarts, line + 1)
ClientContent(line) ==
  {i \in ClientStart(line) .. End :
     \A k \in ClientStart(line) .. i - 1 : text[k] \notin Newlines}
ClientPlace(p) ==
  LET reached == {i \in ClientContent(p.line) :
                    Units(text, ClientStart(p.line), i) <= p.character}
  IN CHOOSE i \in reached : \A k \in reached : k <= i

InsideCRLF(i) == i > 1 /\ i < End /\ text[i - 1] = "CR" /\ text[i] = "LF"
(* The conversions know LF and CRLF only. *)
NoLoneCR == \A k \in 1 .. Len(text) : text[k] = "CR" => At(k + 1) = "LF"

-----------------------------------------------------------------------------
(* semantic_kind *)
Highlighted == {"type", "identifier", "symbol", "integer", "real", "imaginary",
                "string", "comment", "blockComment", "directive", "path", "legacy"}

OneLine(t) == PositionAt(text, t.start).line = PositionAt(text, t.end).line
Encodable(t) == t.kind \in Highlighted /\ OneLine(t)

(* A mutant: the distance is counted from the end of the token before. *)
EncodedFromEnd(t, previous) ==
  LET p == PositionAt(text, t.start)
      q == IF previous = <<>> THEN [line |-> 0, character |-> 0]
           ELSE PositionAt(text, previous[Len(previous)].end)
  IN [deltaLine |-> p.line - q.line,
      deltaStart |-> IF p.line = q.line THEN p.character - q.character
                     ELSE p.character,
      length |-> PositionAt(text, t.end).character - p.character,
      type |-> t.kind]

(* One step of the loop of semantic_tokens: previous holds those encoded.    *)
Encoded(t, previous) ==
  LET p == PositionAt(text, t.start)
      q == IF previous = <<>> THEN [line |-> 0, character |-> 0]
           ELSE PositionAt(text, previous[Len(previous)].start)
  IN [deltaLine |-> p.line - q.line,
      deltaStart |-> IF p.line = q.line THEN p.character - q.character
                     ELSE p.character,
      length |-> PositionAt(text, t.end).character - p.character,
      type |-> t.kind]

(* The tokens the loop does not pass over *)
Shown ==
  LET places == {n \in DOMAIN tokens : Encodable(tokens[n])}
  IN [n \in 1 .. Cardinality(places) |-> tokens[Nth(places, n)]]
SemanticTokens == [n \in DOMAIN Shown |-> Encoded(Shown[n], SubSeq(Shown, 1, n - 1))]

(* Where the client puts the nth: it adds the distances up. *)
Decoded(data) ==
  LET f[n \in 0 .. Len(data)] ==
        IF n = 0 THEN [line |-> 0, character |-> 0]
        ELSE [line |-> f[n - 1].line + data[n].deltaLine,
              character |-> IF data[n].deltaLine = 0
                            THEN f[n - 1].character + data[n].deltaStart
                            ELSE data[n].deltaStart]
  IN f

-----------------------------------------------------------------------------
(* A mutant: stanc's line, counted from one, is taken as an index. *)
DiagnosticRangeLineBelow(line, column) ==
  LET start == IF line < LineCount(text) THEN StartOfLine(text, line) ELSE End
  IN [start |-> start, end |-> IF start < End THEN start + 1 ELSE start]

(* diagnostic_range: line and column as number_after read them, 0 when there *)
(* is none; both are counted from one, the column in characters.             *)
DiagnosticRange(line, column) ==
  IF line = 0 \/ column = 0 THEN [start |-> 1, end |-> 1]
  ELSE
    LET first == IF line <= LineCount(text) THEN StartOfLine(text, line - 1) ELSE End
        last  == SkipUntil(first, {"LF"})
        start == IF first + column - 1 < last THEN first + column - 1 ELSE last
    IN [start |-> start, end |-> IF start < End THEN start + 1 ELSE start]

-----------------------------------------------------------------------------
(* apply_suppressions, for the id all: the directive is what follows the     *)
(* words on its line, blanks at both ends taken off.                         *)
LineEnd(line) == IF line + 1 < LineCount(text) THEN StartOfLine(text, line + 1) ELSE End
Directive(line) ==
  LET allows == {i \in StartOfLine(text, line) .. LineEnd(line) - 1 : text[i] = "//allow"}
      rest == SubSeq(text, Least(allows) + 1, LineEnd(line) - 1)
  IN IF allows = {} THEN <<>>
     ELSE SelectSeq(rest, LAMBDA c : c \notin Whitespace)
(* The blanks inside the rest are not taken off by trim: a rest of one word  *)
(* has none.                                                                 *)
AllowsAll(line) == Directive(line) = <<"all">>

(* A mutant: the comment speaks for its own line. *)
SuppressedOnItsLine(i) ==
  \E line \in 0 .. LineCount(text) - 1 :
    AllowsAll(line) /\ i \in StartOfLine(text, line) .. LineEnd(line) - 1

Suppressed(i) ==
  \E line \in 0 .. LineCount(text) - 1 :
    /\ AllowsAll(line)
    /\ line + 1 < LineCount(text)
    /\ i \in StartOfLine(text, line + 1) .. LineEnd(line + 1) - 1

-----------------------------------------------------------------------------
(* signature_help: the byte at which it starts the name of the call left     *)
(* open before a place. The byte after the last character that is no word's  *)
(* is taken for the start of the next character.                             *)
OpenBefore(i) == {k \in 1 .. i - 1 : text[k] = "("}
NameStart(i) ==
  LET open == CHOOSE k \in OpenBefore(i) : \A l \in OpenBefore(i) : l <= k
      others == {k \in 1 .. open - 1 : text[k] \notin WordChars}
      last == CHOOSE k \in others : \A l \in others : l <= k
  IN IF others = {} THEN 0 ELSE Offset(text, last) + 1

-----------------------------------------------------------------------------
(* In texts whose lines end with LF or CRLF, a place converted for the       *)
(* client is the place it shows, and a place the client names is the place   *)
(* the server takes; only between a CR and its LF there is no position, and  *)
(* the client shows the end of the line.                                     *)
PositionsAreTheClients ==
  (Lexed /\ NoLoneCR) =>
    \A i \in Places(text) :
      IF InsideCRLF(i) THEN ClientPlace(PositionAt(text, i)) = i - 1
      ELSE /\ ClientPlace(PositionAt(text, i)) = i
           /\ LET line == ClientLine(i)
                  column == Units(text, ClientStart(line), i)
              IN PositionToOffset(text, line, column) = [place |-> i]

(* Highlighting: the distances and lengths semantic_tokens sends are never   *)
(* negative (they are u32 differences), and the client that adds them up     *)
(* paints every highlighted token that lies in one line, in order, from its  *)
(* first to its last character.                                              *)
SemanticTokensDecode ==
  (Lexed /\ NoLoneCR) =>
    LET data  == SemanticTokens
        shown == Shown
    IN \A n \in DOMAIN data :
         LET start == Decoded(data)[n]
             last  == [start EXCEPT !.character = @ + data[n].length]
         IN /\ data[n].deltaLine >= 0 /\ data[n].deltaStart >= 0 /\ data[n].length >= 0
            /\ data[n].type = shown[n].kind
            /\ ClientPlace(start) = shown[n].start
            /\ ClientPlace(last) =
                 IF InsideCRLF(shown[n].end) THEN shown[n].end - 1 ELSE shown[n].end

(* A message of stanc is shown on the line it names, when the text has that  *)
(* line, and covers the character of the named column, when the line has it. *)
CompilerRangesAreShown ==
  (Lexed /\ NoLoneCR) =>
    \A line \in 1 .. MaxLine, column \in 1 .. MaxColumn :
      line <= Cardinality(ClientStarts) =>
        LET range == DiagnosticRange(line, column)
            start == PositionAt(text, range.start)
            named == ClientStart(line - 1) + column - 1
        IN /\ start.line = line - 1
           /\ (named \in ClientContent(line - 1) /\ named + 1 \in ClientContent(line - 1)) =>
                /\ ClientPlace(start) = named
                /\ ClientPlace(PositionAt(text, range.end)) = named + 1

(* A comment that allows all lints silences the tokens of the line the       *)
(* client shows below it, and no others.                                     *)
SuppressionsReachTheNextLine ==
  (Lexed /\ NoLoneCR) =>
    \A n \in DOMAIN tokens : tokens[n].kind # "eof" =>
      LET line == ClientLine(tokens[n].start) IN
      Suppressed(tokens[n].start) <=> (line > 0 /\ AllowsAll(line - 1))

(* signature_help takes the text from the start of the name on as a slice,   *)
(* which panics unless a character starts there; release-checklist.md wants  *)
(* the count of panics over ranges to be zero.                               *)
NamesStartAtCharacters ==
  Lexed => \A i \in Places(text) : OpenBefore(i) # {} => IsBoundary(text, NameStart(i))
================================================================================
