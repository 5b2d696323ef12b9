-------------------------------- MODULE Linting --------------------------------
(***************************************************************************)
(* An author types a program token by token: a data block, a declaration,  *)
(* and a statement derived from Stan's grammar, perhaps within loops. The  *)
(* author knows what is written: which calls are open, where each argument *)
(* starts, what is used and within what. A token may be left out or typed  *)
(* that does not belong there; from then on only what must hold of every   *)
(* text is expected.                                                       *)
(***************************************************************************)
EXTENDS Lints, FiniteSets

CONSTANTS
  Blocks,     \* where the statement is
  Functions,  \* built-in functions the author calls
  Drawn,      \* names the author writes after a tilde
  Forms,      \* forms of expressions and statements the author writes
  MaxForms,   \* bound on how many
  MaxSlips,   \* bound on the tokens left out or too many
  SlipCost    \* how many forms less a text has for each of them

ASSUME LintingAssumption == MaxForms \in Nat /\ MaxSlips \in Nat /\ SlipCost \in Nat

VARIABLES
  plan,    \* what is left to write: tokens, and symbols of the grammar
  forms,   \* how many forms were written
  slips,   \* how many tokens were left out or are too many
  open,    \* the callees of the calls that are open, the innermost last
  calls,   \* by callee: [starts, plain, closed, loops]
  drawn,   \* by the position of a name after a tilde: the loops around it
  loops    \* the positions of the loops around the token to come

authorVars == <<plan, forms, slips, open, calls, drawn, loops>>
vars == <<delimiterVars, authorVars>>

-----------------------------------------------------------------------------
(* The grammar *)

T(kind, role) == [kind |-> kind, name |-> "", role |-> role]
Plain(kind)   == T(kind, "none")
Word(name)    == [kind |-> "identifier", name |-> name, role |-> "none"]
Argument(name) == [kind |-> "identifier", name |-> name, role |-> "starts"]
Typed(type, name) ==
  <<[kind |-> "type", name |-> type, role |-> "none"], Word(name), Plain("semicolon")>>

Symbols    == {"Statement", "Expression", "Arguments"}
Expression == Plain("Expression")

Program(block) ==
  <<Plain("data"), Plain("leftBrace")>> \o Typed("int", "n") \o Typed("vector", "v")
  \o <<Plain("rightBrace")>> \o [k \in DOMAIN block.words |-> Plain(block.words[k])]
  \o <<Plain("leftBrace")>> \o Typed("real", "z") \o <<Plain("Statement"), Plain("rightBrace")>>

Call(name) == <<Word(name), T("leftParen", "opens"), Plain("Arguments"), T("rightParen", "closes")>>

(* What a symbol is replaced by, without a further form or with one. *)
Simple(symbol) ==
  CASE symbol = "Statement" -> {<<Word("z"), Plain("assign"), Expression, Plain("semicolon")>>}
    [] symbol = "Expression" -> {<<Word("n")>>, <<Word("v")>>}
    [] symbol = "Arguments" -> {<<T("Expression", "starts")>>}

Form(form, productions) == IF form \in Forms THEN productions ELSE {}
Composed(symbol) ==
  CASE symbol = "Statement" ->
         Form("sampling", {<<Word("v"), Plain("tilde")>>
                             \o Call(d) \o <<Plain("semicolon")>> : d \in Drawn})
         \cup Form("loop", {<<Plain("for"), Plain("leftParen"), Word("i"), Plain("in"), Word("n"),
                              Plain("rightParen"), T("leftBrace", "loops"), Plain("Statement"),
                              T("rightBrace", "leaves")>>})
         \cup Form("constraint",
                {<<[kind |-> "type", name |-> "real", role |-> "none"], Plain("lessThan"),
                   Plain("lower"), Plain("assign"), Expression, Plain("comma"), Plain("upper"),
                   Plain("assign"), Expression, Plain("greaterThan"), Word("u"),
                   Plain("semicolon")>>})
    [] symbol = "Expression" ->
         Form("call", {Call(f) : f \in Functions})
         \cup Form("group", {<<Plain("leftParen"), Expression, Plain("rightParen")>>})
         \cup Form("prefix", {<<Plain("minus"), Expression>>})
         \cup Form("infix", {<<Expression, Plain("times"), Expression>>,
                             <<Word("n"), Plain("power"), Expression>>})
         \cup Form("index", {<<Expression, Plain("leftBracket"), Expression, T("comma", "mixes"),
                               Expression, Plain("rightBracket")>>})
         \cup Form("given", {<<Word(Distributions[d]), T("leftParen", "opens"),
                               T("Expression", "starts"), T("bar", "mixes"), Argument("v"),
                               Plain("comma"), Argument("n"), T("rightParen", "closes")>> :
                             d \in Drawn \cap DOMAIN Distributions})
    [] symbol = "Arguments" ->
         {<<>>, <<T("Expression", "starts"), Plain("comma"), T("Expression", "starts")>>}

-----------------------------------------------------------------------------
Init ==
  /\ DelimiterInit
  /\ \E block \in {h \in BlockHeaders : h.kind \in Blocks} : plan = Program(block)
  /\ forms = 0 /\ slips = 0
  /\ open = <<>> /\ calls = <<>> /\ drawn = <<>> /\ loops = <<>>

(* The symbol next in the plan is replaced; an argument starts here. *)
Derive ==
  /\ plan # <<>> /\ Head(plan).kind \in Symbols
  /\ \/ \E production \in Simple(Head(plan).kind) :
          plan' = production \o Tail(plan) /\ UNCHANGED forms
     \/ /\ forms + SlipCost * slips < MaxForms
        /\ \E production \in Composed(Head(plan).kind) :
             plan' = production \o Tail(plan) /\ forms' = forms + 1
  /\ calls' = IF Head(plan).role = "starts"
              THEN [calls EXCEPT ![Last(open)].starts = Append(@, Len(text) + 1)]
              ELSE calls
  /\ UNCHANGED <<delimiterVars, slips, open, drawn, loops>>

(* What the next token means to its author *)
Means(t) ==
  LET at == Len(text) + 1 IN
  \/ /\ t.role = "none"
     /\ UNCHANGED <<open, calls, loops>>
  \/ /\ t.role = "opens"
     /\ open' = Append(open, at - 1)
     /\ calls' = calls @@ (at - 1 :> [starts |-> <<>>, plain |-> TRUE, closed |-> 0, loops |-> loops])
     /\ UNCHANGED loops
  \/ /\ t.role = "closes"
     /\ calls' = [calls EXCEPT ![Last(open)].closed = at]
     /\ open' = Front(open)
     /\ UNCHANGED loops
  \/ /\ t.role = "starts"
     /\ calls' = [calls EXCEPT ![Last(open)].starts = Append(@, at)]
     /\ UNCHANGED <<open, loops>>
  \/ /\ t.role = "mixes"
     /\ calls' = IF open = <<>> THEN calls ELSE [calls EXCEPT ![Last(open)].plain = FALSE]
     /\ UNCHANGED <<open, loops>>
  \/ /\ t.role = "loops"
     /\ loops' = Append(loops, at - 6)
     /\ UNCHANGED <<open, calls>>
  \/ /\ t.role = "leaves"
     /\ loops' = Front(loops)
     /\ UNCHANGED <<open, calls>>

Draws(t) ==
  drawn' = IF t.kind = "tilde" THEN drawn @@ (Len(text) + 2 :> loops) ELSE drawn

Ready == plan # <<>> /\ Head(plan).kind \notin Symbols
Type ==
  /\ Ready
  /\ ReadToken(Head(plan))
  /\ plan' = Tail(plan)
  /\ Means(Head(plan)) /\ Draws(Head(plan))
  /\ UNCHANGED <<forms, slips>>

(* Within the statement only. *)
MaySlip ==
  /\ Ready
  /\ slips < MaxSlips /\ forms + SlipCost <= MaxForms
  /\ Cardinality(Of("semicolon", DOMAIN text)) > 2
  /\ slips' = slips + 1
  /\ UNCHANGED forms
LeaveOut ==
  /\ MaySlip
  /\ plan' = Tail(plan)
  /\ Means(Head(plan)) /\ Draws(Head(plan))
  /\ UNCHANGED delimiterVars
Strays == {Word("n"), Plain("comma"), Plain("leftParen"), Plain("rightBracket"), Plain("minus")}
TypeStray ==
  /\ MaySlip
  /\ \E stray \in Strays : ReadToken(stray)
  /\ UNCHANGED <<plan, open, calls, drawn, loops>>

Next == Derive \/ Type \/ LeaveOut \/ TypeStray
Spec == Init /\ [][Next]_vars

-----------------------------------------------------------------------------
(* Properties *)

Finished == plan = <<>> /\ slips = 0

(* A statement's expression is reported, as soon as its semicolon is typed,   *)
(* when Stan's grammar does not derive it, and but for the bar of a density   *)
(* only then: precedence and associativity of the Pratt parser decide how an  *)
(* expression is read, never whether (parser.rs 1252-1395). With a bar valid  *)
(* expressions are reported too: see ValidProgramsHaveNoErrors.               *)
ExpressionsAsGrammar ==
  \A s \in {s \in SemicolonEnds : s.end = Len(text) + 1 /\ HasExpression(s)} :
    LET kinds    == ExpressionOf(s)
        reported == s.end - 1 \in ExpectedExpressions
    IN /\ ~ reported => IsGrammatical(kinds)
       /\ reported /\ "bar" \notin ToSet(kinds) => ~ IsGrammatical(kinds)

(* The type of an argument that is a single token *)
TypeOf(call, k) ==
  LET start == calls[call].starts[k]
      next  == IF k < Len(calls[call].starts) THEN calls[call].starts[k + 1]
               ELSE calls[call].closed + 1
  IN IF next # start + 2 THEN "none"
     ELSE IF text[start].name = "n" THEN "int" ELSE "vector"
Fits(type, parameter) == type = parameter \/ <<type, parameter>> = <<"int", "real">>

Target(call) == Function(text[call].name)
Lists(call) == Overloads(Target(call))
KnownCalls == {c \in DOMAIN calls : Target(c).name # "none"}
PlainCalls == {c \in KnownCalls : calls[c].plain /\ Lists(c) # {}}
AtomicCalls == {c \in KnownCalls : \A k \in DOMAIN calls[c].starts : TypeOf(c, k) # "none"}
Accepted(call, list) ==
  /\ Len(list) = Len(calls[call].starts)
  /\ \A k \in DOMAIN list : Fits(TypeOf(call, k), list[k])

OwnStarts(call) == \A k \in DOMAIN calls[call].starts :
                     text[calls[call].starts[k]].kind # "leftParen"

Shown(lint, diagnostics) == {d.at : d \in {d \in diagnostics : d.lint = lint}}
BlockWritten ==
  IF Of("generated", DOMAIN text) # {} THEN "generatedQuantities" ELSE "model"

TrueOfTheText(lints) ==
  LET Uses(name) == \E i \in DOMAIN text : text[i].name = name /\ KindAt(i - 1) # "type"
  IN /\ Shown("argument-count", lints) \cap PlainCalls =
          {c \in PlainCalls : \A list \in Lists(c) : Len(list) # Len(calls[c].starts)}
     /\ Shown("argument-type", lints) \cap AtomicCalls \cap PlainCalls =
          {c \in AtomicCalls \cap PlainCalls :
             /\ \E list \in Lists(c) : Len(list) = Len(calls[c].starts)
             /\ \A list \in Lists(c) : ~ Accepted(c, list)}
     /\ Shown("illegal-context", lints) =
          {c \in DOMAIN calls : /\ text[c].name \in Builtins
                                /\ BlockWritten \notin Contexts[text[c].name]}
     /\ Shown("unknown-distribution", lints) =
          {i \in DOMAIN drawn : text[i].name \notin DOMAIN Distributions}
     /\ {<<d.at, d.loop>> : d \in {d \in lints : d.lint = "repeated"}} =
          UNION {{c} \X ToSet(calls[c].loops) :
                   c \in {c \in DOMAIN calls : text[c].name \in Expensive}}
     /\ Shown("vectorize", lints) = UNION {ToSet(drawn[i]) : i \in DOMAIN drawn}
     /\ {"n", "v", "z"} \cap {text[i].name : i \in Shown("unused", lints)} =
          {name \in {"n", "v", "z"} : ~ Uses(name)}
     /\ Shown("unresolved", lints) =
          {i \in DOMAIN drawn : text[i].name \notin DOMAIN Distributions}
     /\ \A c \in {c \in PlainCalls : OwnStarts(c)} :
          text[c].name \in Builtins =>
            DataHints(c) = {calls[c].starts[k] :
                              k \in DataArguments[text[c].name] \cap DOMAIN calls[c].starts}

(* In a finished program the lints say what the author knows: the calls with *)
(* a number of arguments no overload has, unless a bar or a comma in square  *)
(* brackets stands among them; the calls with arguments of single tokens no  *)
(* overload takes; the calls that do not belong in the block; the unknown    *)
(* distributions; the repeated calls, each once for every loop around it;    *)
(* the loops around sampling statements; and the names never used. The hint  *)
(* of a data-only parameter stands where its argument starts, unless an      *)
(* argument of the call starts with a parenthesis.                           *)
LintsAreTrue == Finished => TrueOfTheText(Lint(AnalyzeSemantics(NamesOf)))

(* While a program is typed, a call that is not closed has no diagnostics of *)
(* its arguments or its place (is_complete, parser.rs 519-522, is there for  *)
(* this), and as long as its parenthesis is the last one, signature help     *)
(* shows its function and the argument that is being typed.                  *)
OpenCallsAreHelped ==
  slips = 0 /\ open # <<>> =>
    LET call  == Last(open)
        starts == calls[call].starts
    IN /\ \A k \in DOMAIN open : \A d \in ArgumentCountErrors \cup IllegalContexts : d.at # open[k]
       /\ (/\ Ready /\ calls[call].plain
           /\ Max(Of("leftParen", DOMAIN text)) = call + 1) =>
            SignatureHelp =
              IF Target(call).name = "none" THEN <<>>
              ELSE <<[function |-> Target(call).name,
                      active |-> IF starts = <<>> THEN 0 ELSE Len(starts) - 1]>>

(* A program the author writes by the rules of Stan has no error: a call with *)
(* as many arguments as its function takes is not reported, and neither is an *)
(* expression (docs/release-checklist.md: default local error diagnostics on  *)
(* stanc-valid models are zero).                                              *)
ValidProgramsHaveNoErrors ==
  (Finished /\ \A c \in KnownCalls : \E list \in Lists(c) : Len(list) = Len(calls[c].starts))
    => ArgumentCountErrors = {} /\ ExpectedExpressions = {}
================================================================================
