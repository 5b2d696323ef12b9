------------------------------- MODULE LineIndex -------------------------------
(***************************************************************************)
(* line_index.rs and mapper.rs: UTF-8 byte offsets of the language crate   *)
(* against the UTF-16 positions of the protocol. A text is a sequence of   *)
(* characters. What the conversions tell apart of a character is its       *)
(* width in bytes, its width in UTF-16 units and whether it ends a line; a *)
(* word that only matters as a whole is one character of several units.    *)
(***************************************************************************)
EXTENDS Naturals, Sequences, FiniteSetsExt

(* "theta" is a letter of two bytes and one unit; "wide" stands for the      *)
(* characters that take a surrogate pair: four bytes and two units. "real"   *)
(* is a keyword, "lp__" a legacy word, "all" an identifier, "#include" and   *)
(* "//allow" (the text "// stanlint: allow") are read as a whole.            *)
Width(c) ==
  CASE c = "theta" -> 2
    [] c = "wide" -> 4
    [] c \in {"real", "lp__"} -> 4
    [] c = "all" -> 3
    [] c = "#include" -> 8
    [] c = "//allow" -> 18
    [] OTHER -> 1

Utf16(c) == IF c = "theta" THEN 1 ELSE IF c = "wide" THEN 2 ELSE Width(c)

(* The byte offset at which the character at place i starts; the place after *)
(* the last character is the end of the text.                                *)
Places(text) == 1 .. Len(text) + 1
Bytes(text, from, to) == UNION {{k} \X (1 .. Width(text[k])) : k \in from .. to - 1}
Offset(text, i) == Cardinality(Bytes(text, 1, i))
IsBoundary(text, offset) == \E i \in Places(text) : Offset(text, i) = offset

(* UTF-16 units between two places, each a character and one of its units *)
Utf16Units(text, from, to) == UNION {{k} \X (1 .. Utf16(text[k])) : k \in from .. to - 1}
Units(text, from, to) == Cardinality(Utf16Units(text, from, to))

(* How many elements of a set of places are up to i, and the nth of them *)
Rank(S, i) == Cardinality({s \in S : s <= i})
Nth(S, n) == CHOOSE s \in S : Rank(S, s) = n

(* line_starts, as the places that follow a line feed: the nth is line n - 1 *)
LineStarts(text) == {1} \cup {i \in 2 .. Len(text) + 1 : text[i - 1] = "LF"}

(* partition_point(start <= offset) - 1, of the place i *)
LineOf(text, i) == Rank(LineStarts(text), i) - 1
StartOfLine(text, line) == Nth(LineStarts(text), line + 1)
LineCount(text) == Cardinality(LineStarts(text))

(* line_content_end *)
ContentEnd(text, start, end) ==
  LET beforeLF == IF end > start /\ text[end - 1] = "LF" THEN end - 1 ELSE end
  IN IF beforeLF > start /\ text[beforeLF - 1] = "CR" THEN beforeLF - 1 ELSE beforeLF

Failure(reason) == [error |-> reason]

(* position_to_offset; the answer is the place whose offset it returns. *)
PositionToOffset(text, line, character) ==
  IF line >= LineCount(text) THEN Failure("line")
  ELSE
    LET start == StartOfLine(text, line)
        end == IF line + 1 < LineCount(text) THEN StartOfLine(text, line + 1)
               ELSE Len(text) + 1
        content == start .. ContentEnd(text, start, end)
        exact == {i \in content : Units(text, start, i) = character}
    IN IF exact # {} THEN [place |-> Min(exact)]
       ELSE IF \E i \in content : Units(text, start, i) > character
            THEN Failure("surrogate") ELSE Failure("character")

(* A mutant: the column is counted in bytes. *)
PositionInBytes(text, i) ==
  [line |-> LineOf(text, i),
   character |-> Offset(text, i) - Offset(text, StartOfLine(text, LineOf(text, i)))]

(* offset_to_position, of a place *)
PositionAt(text, i) ==
  [line |-> LineOf(text, i),
   character |-> Units(text, StartOfLine(text, LineOf(text, i)), i)]
================================================================================
