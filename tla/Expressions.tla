------------------------------ MODULE Expressions ------------------------------
(***************************************************************************)
(* The expressions of parser.rs: operator precedence parsing of what       *)
(* stands between an assignment or tilde and its semicolon. Nothing is     *)
(* built: the outcome is where parsing failed, or that it did not. An      *)
(* expression is the sequence of the kinds of its tokens; a kind stands    *)
(* for all that are treated alike ("times" for the seven of its level).    *)
(***************************************************************************)
EXTENDS Naturals, SequencesExt

Atoms  == {"identifier", "integer", "real", "string", "target"}
Prefix == {"minus", "bang"}

(* operator_forms, the infix ones *)
Infix == {"power", "times", "minus", "lessThan", "greaterThan", "and", "or", "question", "assign"}
Precedence(kind) ==
  CASE kind = "power" -> 11 [] kind = "times" -> 8 [] kind = "minus" -> 7
    [] kind \in {"lessThan", "greaterThan"} -> 6 [] kind = "and" -> 5 [] kind = "or" -> 4
    [] kind = "question" -> 3 [] kind = "assign" -> 1
RightAssociative == {"power", "question", "assign"}
PrefixPrecedence == 10

KindOf(kinds, i) == IF i \in DOMAIN kinds THEN kinds[i] ELSE "end"

(* A place in the expression, or where it went wrong; the end of the tokens  *)
(* is a place, and may be where it went wrong.                               *)
At(i)     == [ok |-> TRUE, at |-> i]
Wrong(i)  == [ok |-> FALSE, at |-> i]
Expect(kinds, result, kind) ==
  IF ~ result.ok THEN result
  ELSE IF KindOf(kinds, result.at) = kind THEN At(result.at + 1) ELSE Wrong(result.at)

RECURSIVE ParseBindingPower(_, _, _)
RECURSIVE ParseOperators(_, _, _)
RECURSIVE ParseList(_, _)

(* A mutant: at least one argument is wanted. *)
ParseArgumentsSome(kinds, i, closer) == Expect(kinds, ParseList(kinds, i), closer)

ParseArguments(kinds, i, closer) ==
  IF KindOf(kinds, i) = closer THEN At(i + 1)
  ELSE Expect(kinds, ParseList(kinds, i), closer)

ParseList(kinds, i) ==
  LET first == ParseBindingPower(kinds, i, 0)
  IN IF first.ok /\ KindOf(kinds, first.at) = "comma"
     THEN ParseList(kinds, first.at + 1) ELSE first

ParseBindingPower(kinds, i, minimum) ==
  LET kind    == KindOf(kinds, i)
      primary == CASE kind \in Atoms -> At(i + 1)
                   [] kind = "leftParen" ->
                        Expect(kinds, ParseBindingPower(kinds, i + 1, 0), "rightParen")
                   [] kind \in Prefix -> ParseBindingPower(kinds, i + 1, PrefixPrecedence)
                   [] OTHER -> Wrong(i)
  IN IF primary.ok THEN ParseOperators(kinds, primary.at, minimum) ELSE primary

(* Calls, subscripts and transposes bind to whatever is before them. *)
ParseOperators(kinds, i, minimum) ==
  LET kind == KindOf(kinds, i)
      more(rest) == IF rest.ok THEN ParseOperators(kinds, rest.at, minimum) ELSE rest
  IN CASE kind = "leftParen" -> more(ParseArguments(kinds, i + 1, "rightParen"))
       [] kind = "leftBracket" -> more(ParseArguments(kinds, i + 1, "rightBracket"))
       [] kind = "transpose" -> more(At(i + 1))
       [] kind \in Infix /\ Precedence(kind) >= minimum ->
            more(ParseBindingPower(kinds, i + 1,
                   Precedence(kind) + (IF kind \in RightAssociative THEN 0 ELSE 1)))
       [] OTHER -> At(i)

(* parse_expression_pratt *)
ParseExpression(kinds) ==
  IF kinds = <<>> THEN Wrong(0)
  ELSE LET parsed == ParseBindingPower(kinds, 1, 0)
       IN IF parsed.ok /\ parsed.at # Len(kinds) + 1 THEN Wrong(parsed.at) ELSE parsed

-----------------------------------------------------------------------------
(* A reference: the expressions of Stan's grammar that are made of these     *)
(* tokens, without precedences. Before a bar stands what a density is of,    *)
(* behind it what is given. Conditionals, slices, array and row vector       *)
(* literals are not among them; what may be called is not asked, here or in  *)
(* the parser. The parts of the tokens that are expressions, lists, or an    *)
(* expression and what is given are found by length, from shorter ones.      *)
Operands == {"identifier", "integer", "real"}
Signs == {"minus", "bang"}
Operators == {"power", "times", "minus", "lessThan", "greaterThan", "and", "or"}

Part(what, i, j) == [what |-> what, from |-> i, upTo |-> j]

IsExpression(kinds, parts, i, j) ==
  LET is(what, a, b) == Part(what, a, b) \in parts
      called(k)     == kinds[k] = "leftParen" /\ kinds[j] = "rightParen"
      subscripts(k) == kinds[k] = "leftBracket" /\ kinds[j] = "rightBracket"
  IN \/ i = j /\ kinds[i] \in Operands
     \/ kinds[i] = "leftParen" /\ kinds[j] = "rightParen" /\ is("expression", i + 1, j - 1)
     \/ kinds[i] \in Signs /\ is("expression", i + 1, j)
     \/ kinds[j] = "transpose" /\ is("expression", i, j - 1)
     \/ \E k \in i + 1 .. j - 1 :
          /\ is("expression", i, k - 1)
          /\ \/ kinds[k] \in Operators /\ is("expression", k + 1, j)
             \/ (called(k) \/ subscripts(k)) /\ (k + 1 = j \/ is("list", k + 1, j - 1))
             \/ called(k) /\ is("given", k + 1, j - 1)

PartsOf(kinds) ==
  LET OfLength(parts, n) ==
        LET spans == {<<i, i + n - 1>> : i \in 1 .. Len(kinds) - n + 1}
            expressions == {s \in spans : IsExpression(kinds, parts, s[1], s[2])}
            lists == {s \in spans \ expressions : \E k \in s[1] + 1 .. s[2] - 1 :
                        /\ kinds[k] = "comma"
                        /\ Part("list", s[1], k - 1) \in parts
                        /\ Part("expression", k + 1, s[2]) \in parts}
            given == {s \in spans : \E k \in s[1] + 1 .. s[2] :
                        /\ kinds[k] = "bar"
                        /\ Part("expression", s[1], k - 1) \in parts
                        /\ k = s[2] \/ Part("list", k + 1, s[2]) \in parts}
        IN parts \cup {Part("expression", s[1], s[2]) : s \in expressions}
                 \cup {Part("list", s[1], s[2]) : s \in expressions \cup lists}
                 \cup {Part("given", s[1], s[2]) : s \in given}
  IN FoldLeft(OfLength, {}, [n \in 1 .. Len(kinds) |-> n])

IsGrammatical(kinds) ==
  kinds # <<>> /\ Part("expression", 1, Len(kinds)) \in PartsOf(kinds)
================================================================================
