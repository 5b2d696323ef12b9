-------------------------------- MODULE Syntax --------------------------------
(***************************************************************************)
(* The nodes parser.rs finds around the delimiter pairs, and what its typed*)
(* views read off them. A node is the range of tokens it spans, its end    *)
(* exclusive; positions stand for byte offsets. Left out: includes, calls, *)
(* types, constraints, expressions, and the diagnostics of the blocks.     *)
(***************************************************************************)
EXTENDS Delimiters, SequencesExt

Span(i, j)   == [start |-> i, end |-> j + 1]
NoRange      == [start |-> 0, end |-> 0]
Holds(range, offset)   == range.start <= offset /\ offset < range.end
Encloses(outer, inner) == outer.start <= inner.start /\ inner.end <= outer.end
TokensOf(node)         == node.start .. node.end - 1

KindAt(i) == IF i \in DOMAIN text THEN text[i].kind ELSE "none"
First(S)  == IF S = {} THEN 0 ELSE Min(S)
Of(kind, S) == {i \in S : KindAt(i) = kind}

(* delimiter_pairs.get(&open).unwrap_or(open): an unclosed opener ends where *)
(* it stands.                                                                *)
EndOf(open) == IF open \in DOMAIN pairs THEN pairs[open] ELSE open

-----------------------------------------------------------------------------
(* Program blocks *)

BlockHeaders ==
  {[kind |-> w, words |-> <<w>>] : w \in {"functions", "data", "parameters", "model"}}
  \cup {[kind |-> "transformedData", words |-> <<"transformed", "data">>],
        [kind |-> "transformedParameters", words |-> <<"transformed", "parameters">>],
        [kind |-> "generatedQuantities", words |-> <<"generated", "quantities">>]}
BlockKinds == {h.kind : h \in BlockHeaders}

IsHeaderAt(h, i) ==
  /\ \A k \in DOMAIN h.words : KindAt(i + k - 1) = h.words[k]
  /\ KindAt(i + Len(h.words)) = "leftBrace"

(* The cursor goes on after the brace: the second word of a header does not *)
(* start a block of its own.                                                *)
ProgramBlocks ==
  LET starts == {i \in DOMAIN text : KindAt(i) \in {h.words[1] : h \in BlockHeaders}}
      found == {hi \in BlockHeaders \X starts :
                  /\ IsHeaderAt(hi[1], hi[2])
                  /\ \A h \in BlockHeaders :
                       Len(h.words) > Len(hi[1].words) => ~ IsHeaderAt(h, hi[2] - 1)}
  IN {[kind |-> hi[1].kind, range |-> Span(hi[2], EndOf(hi[2] + Len(hi[1].words)))] : hi \in found}

(* The kind of the first of blocks, in source order. *)
FirstKind(blocks) ==
  IF blocks = {} THEN "none"
  ELSE (CHOOSE b \in blocks : \A c \in blocks : b.range.start <= c.range.start).kind

-----------------------------------------------------------------------------
(* Structures *)

CompoundStatements == {Span(i, EndOf(i)) : i \in Of("leftBrace", DOMAIN text)}

(* A mutant: an opening brace is no boundary. *)
StatementStartAcrossBrace(i) ==
  1 + Max({0} \cup {b \in 1 .. i - 1 : KindAt(b) \in {"rightBrace", "semicolon"}})

(* The statement position i is in starts behind the last boundary before it. *)
StatementStart(i) ==
  1 + Max({0} \cup {b \in 1 .. i - 1 :
                      KindAt(b) \in {"leftBrace", "rightBrace", "semicolon"}})

(* Round brackets that open at i + 1 and close just before a brace; 0 if none. *)
BraceAfter(i) ==
  IF KindAt(i + 1) = "leftParen" /\ i + 1 \in DOMAIN pairs
     /\ KindAt(pairs[i + 1] + 1) = "leftBrace"
  THEN pairs[i + 1] + 1 ELSE 0

ForStatements ==
  {Span(i, EndOf(BraceAfter(i))) : i \in {i \in Of("for", DOMAIN text) : BraceAfter(i) # 0}}

FunctionDeclarations ==
  {Span(StatementStart(i), EndOf(BraceAfter(i))) :
     i \in {i \in Of("identifier", DOMAIN text) :
              BraceAfter(i) # 0 /\ Of("type", StatementStart(i) .. i - 1) # {}}}

VariableDeclarations ==
  {Span(StatementStart(i), i) :
     i \in {i \in Of("semicolon", DOMAIN text) :
              LET statement == StatementStart(i) .. i - 1
              IN Of("tilde", statement) = {} /\ Of("type", statement) # {}}}

-----------------------------------------------------------------------------
(* What the typed views read *)

(* matching_position: counts one kind of delimiter only, unlike pairs. *)
MatchingPosition(node, open, opener, closer) ==
  LET upTo(k) == open .. k
  IN First({k \in Of(closer, open .. node.end - 1) :
              Cardinality(Of(opener, upTo(k))) = Cardinality(Of(closer, upTo(k)))})

BodyRange(node) ==
  LET open  == First(Of("leftBrace", TokensOf(node)))
      close == MatchingPosition(node, open, "leftBrace", "rightBrace")
  IN IF open = 0 \/ close = 0 THEN NoRange ELSE Span(open, close)

(* A depth that never falls below zero, counted from position from. *)
Depth(from, to, opener, closer) ==
  LET depth[k \in from - 1 .. to] ==
        IF k = from - 1 THEN 0
        ELSE LET before == depth[k - 1]
             IN IF KindAt(k) = opener THEN before + 1
                ELSE IF KindAt(k) = closer /\ before > 0 THEN before - 1 ELSE before
  IN depth[to]

(* A mutant: the name is what follows the type. *)
DeclarationNameAfterType(from, to) ==
  LET type == First(Of("type", from .. to)) IN IF type = 0 THEN 0 ELSE type + 1

(* declaration_name_position: the first name behind the type and outside its *)
(* dimensions and constraints; 0 if none.                                    *)
DeclarationName(from, to) ==
  LET type == First(Of("type", from .. to))
  IN IF type = 0 THEN 0
     ELSE First({k \in Of("identifier", type .. to) :
                   /\ Depth(type, k, "leftParen", "rightParen") = 0
                   /\ Depth(type, k, "leftBracket", "rightBracket") = 0
                   /\ Depth(type, k, "lessThan", "greaterThan") = 0})

DeclaredName(declaration) == DeclarationName(declaration.start, declaration.end - 1)

FunctionName(function) ==
  First({k \in Of("identifier", TokensOf(function)) :
           k + 1 \in Of("leftParen", TokensOf(function))})

(* split_top_level_indices between the round brackets, a name per segment. *)
ParameterNames(function) ==
  LET open   == FunctionName(function) + 1
      close  == MatchingPosition(function, open, "leftParen", "rightParen")
      commas == {k \in Of("comma", open + 1 .. close - 1) :
                   /\ Depth(open + 1, k, "leftParen", "rightParen") = 0
                   /\ Depth(open + 1, k, "leftBracket", "rightBracket") = 0}
      Next(k) == Min({close} \cup {c \in commas : c > k})
  IN IF close = 0 THEN {}
     ELSE {DeclarationName(k + 1, Next(k) - 1) : k \in {open} \cup commas} \ {0}

Binder(for) ==
  LET in == First(Of("in", TokensOf(for)))
  IN Max({0} \cup Of("identifier", for.start .. in - 1))
==============================================================================
