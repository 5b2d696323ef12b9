--------------------------------- MODULE Lints ---------------------------------
(***************************************************************************)
(* The checks of lint.rs on the text read so far, and what the server      *)
(* offers inside a call: signature help and inlay hints (features.rs). A   *)
(* call is named by the position of its callee, a diagnostic is the lint   *)
(* and the position it is shown at. Left out: configuration and severity,  *)
(* deprecated elements, missing priors, and user-defined distributions.    *)
(***************************************************************************)
EXTENDS Semantics, Expressions

CONSTANTS
  Signatures,     \* of a built-in function: the lists of parameter types
  DataArguments,  \* of a built-in function: which parameters are data only
  Contexts,       \* of a built-in function: the blocks it may be called in
  Distributions   \* from the name after a tilde to its function

Diagnosed(lint, at) == [lint |-> lint, at |-> at]
Builtins == DOMAIN Signatures

-----------------------------------------------------------------------------
(* Calls *)

Calls == {i \in Of("identifier", DOMAIN text) : KindAt(i + 1) = "leftParen"}
CallEnd(call) == EndOf(call + 1)

IsDeclaration(call) == \E f \in FunctionDeclarations : FunctionName(f) = call

(* A mutant: a call is checked before its parenthesis is closed. *)
CompleteCallEven(call) == ~ IsDeclaration(call)

(* complete_call *)
CompleteCall(call) ==
  Of("rightParen", call .. CallEnd(call)) # {} /\ ~ IsDeclaration(call)

(* The function a call is checked against; a call after a tilde is one of    *)
(* the distribution's function without its first parameter.                  *)
Function(name) ==
  IF name \in Builtins THEN [name |-> name, skipped |-> 0]
  ELSE IF name \in DOMAIN Distributions THEN [name |-> Distributions[name], skipped |-> 1]
  ELSE [name |-> "none", skipped |-> 0]
Checked == {call \in Calls : CompleteCall(call) /\ Function(text[call].name).name # "none"}
Overloads(function) ==
  {SubSeq(types, function.skipped + 1, Len(types)) : types \in Signatures[function.name]}

(* The loops over the tokens of a call start behind its name and end where   *)
(* as many round brackets have closed as opened.                             *)
Inside(call) ==
  LET close == MatchingPosition(Span(call, CallEnd(call)), call + 1, "leftParen", "rightParen")
  IN [k \in 1 .. (IF close = 0 THEN CallEnd(call) ELSE close) - call |-> call + k]
Deepen(state, kind) ==
  IF kind = "leftParen" THEN state.depth + 1
  ELSE IF kind = "rightParen" /\ state.depth > 0 THEN state.depth - 1 ELSE state.depth

(* A mutant: commas of any depth count. *)
CountedAnywhere(state, i) ==
  LET kind == KindAt(i) IN
  [depth  |-> Deepen(state, kind),
   commas |-> state.commas + (IF kind = "comma" THEN 1 ELSE 0),
   value  |-> state.value \/ kind \notin {"leftParen", "rightParen", "comma"}]

Counted(state, i) ==
  LET kind == KindAt(i)
      separates == kind = "comma" /\ state.depth = 1
  IN [depth  |-> Deepen(state, kind),
      commas |-> state.commas + (IF separates THEN 1 ELSE 0),
      value  |-> \/ state.value
                 \/ /\ kind \notin {"leftParen", "rightParen"} /\ ~ separates
                    /\ state.depth >= 1]

(* call_argument_count *)
ArgumentCount(call) ==
  LET end == FoldLeft(Counted, [depth |-> 0, commas |-> 0, value |-> FALSE],
                      Inside(call))
  IN end.commas + (IF end.value THEN 1 ELSE 0)

ArgumentCountErrors ==
  {Diagnosed("argument-count", call) :
     call \in {c \in Checked :
                 LET lists == Overloads(Function(text[c].name))
                 IN lists # {} /\ ArgumentCount(c) \notin {Len(types) : types \in lists}}}

-----------------------------------------------------------------------------
(* Argument types: that of the first literal or name of each argument. *)

(* The type a declaration starts with; a binder is an int. *)
DeclaredType(symbol) ==
  IF symbol.kind = "loop" THEN "int"
  ELSE text[Max(Of("type", 1 .. symbol.at))].name
TypeAt(semantics, i) ==
  CASE KindAt(i) = "integer" -> "int"
    [] KindAt(i) = "real" -> "real"
    [] OTHER -> IF i \in DOMAIN semantics.resolved /\ semantics.resolved[i] # 0
                THEN DeclaredType(semantics.symbols[semantics.resolved[i]]) ELSE "none"

(* A name of which nothing is known leaves the argument's type open, for the *)
(* next one to give.                                                         *)
InferredArguments(semantics, call) ==
  LET Step(state, i) ==
        LET kind == KindAt(i)
            next == [state EXCEPT !.depth = Deepen(state, kind)]
        IN CASE state.depth = 1 /\ kind = "comma" ->
                  [next EXCEPT !.types = Append(@, state.current), !.current = "none"]
             [] state.depth = 1 /\ kind = "rightParen" ->
                  IF state.current # "none" \/ state.types # <<>>
                  THEN [next EXCEPT !.types = Append(@, state.current)] ELSE next
             [] state.depth = 1 /\ state.current = "none"
                /\ kind \in {"integer", "real", "identifier"} ->
                  [next EXCEPT !.current = TypeAt(semantics, i)]
             [] OTHER -> next
      start == [depth |-> 0, types |-> <<>>, current |-> "none"]
  IN FoldLeft(Step, start, Inside(call)).types

TypeCompatible(argument, parameter) ==
  argument = parameter \/ (argument = "int" /\ parameter = "real")

ArgumentTypeErrors(semantics) ==
  {Diagnosed("argument-type", call) :
     call \in {c \in Checked :
       LET types == InferredArguments(semantics, c)
           fitting == {list \in Overloads(Function(text[c].name)) : Len(list) = Len(types)}
       IN /\ "none" \notin ToSet(types)
          /\ fitting # {}
          /\ \A list \in fitting : \E k \in DOMAIN types : ~ TypeCompatible(types[k], list[k])}}

-----------------------------------------------------------------------------
(* The other lints *)

(* context_at: tokens are apart by blanks, so none starts where a block ends. *)
ContextAt(i) ==
  FirstKind({b \in ProgramBlocks :
               Holds(b.range, i) /\ b.kind \notin {"functions", "data", "parameters"}})
IllegalContexts ==
  {Diagnosed("illegal-context", call) :
     call \in {c \in Calls :
       LET name == text[c].name
           block == ContextAt(c)
       IN CompleteCall(c) /\ name \in Builtins /\ block # "none" /\ block \notin Contexts[name]}}

(* Statements as find_includes_calls_and_statements ends them *)
SemicolonEnds == {[start |-> StatementStart(i), end |-> i + 1] :
                    i \in Of("semicolon", DOMAIN text)}
SamplingStatements == {s \in SemicolonEnds : Of("tilde", TokensOf(s)) # {}}
(* A sampling statement with any closing parenthesis is complete. *)
UnknownDistributions ==
  {Diagnosed("unknown-distribution", First(Of("tilde", TokensOf(s))) + 1) :
     s \in {s \in SamplingStatements :
       LET after == First(Of("tilde", TokensOf(s))) + 1
       IN /\ Of("rightParen", TokensOf(s)) # {}
          /\ KindAt(after) = "identifier"
          /\ text[after].name \notin DOMAIN Distributions}}

(* emit_unresolved and emit_unused; what is built in is no reference. *)
Unresolved(semantics) ==
  {Diagnosed("unresolved", i) :
     i \in {i \in DOMAIN semantics.resolved :
              /\ semantics.resolved[i] = 0
              /\ text[i].name \notin Builtins \cup DOMAIN Distributions}}
Unused(semantics) ==
  {Diagnosed("unused", semantics.symbols[k].at) :
     k \in {k \in DOMAIN semantics.symbols :
              \A i \in DOMAIN semantics.resolved : semantics.resolved[i] # k}}

(* emit_performance, once for each loop around *)
Expensive == {"inverse"}
Performance ==
  {[lint |-> "repeated", at |-> cl[1], loop |-> cl[2].start] :
     cl \in {cl \in Calls \X ForStatements :
               /\ text[cl[1]].name \in Expensive
               /\ Encloses(cl[2], Span(cl[1], CallEnd(cl[1])))}}
  \cup {Diagnosed("vectorize", loop.start) :
          loop \in {l \in ForStatements : \E s \in SamplingStatements : Encloses(l, s)}}

Lint(semantics) ==
  ArgumentCountErrors \cup ArgumentTypeErrors(semantics) \cup IllegalContexts
  \cup UnknownDistributions \cup Unresolved(semantics) \cup Unused(semantics) \cup Performance

(* syntax.expected-expression, at the semicolon of the statement *)
ExpressionOf(s) ==
  LET start == First(Of("assign", TokensOf(s)) \cup Of("tilde", TokensOf(s)))
  IN IF start = 0 THEN <<>>
     ELSE [k \in 1 .. s.end - 2 - start |-> KindAt(start + k)]
HasExpression(s) == Of("assign", TokensOf(s)) \cup Of("tilde", TokensOf(s)) # {}
ExpectedExpressions ==
  {s.end - 1 : s \in {s \in SemicolonEnds :
                        HasExpression(s) /\ ~ ParseExpression(ExpressionOf(s)).ok}}

-----------------------------------------------------------------------------
(* argument_starts: the first tokens of the arguments that have one outside  *)
(* parentheses of their own.                                                 *)
ArgumentStarts(call) ==
  LET Step(state, i) ==
        LET kind == KindAt(i)
            next == [state EXCEPT !.depth = Deepen(state, kind)]
        IN CASE state.depth = 1 /\ kind = "comma" -> [next EXCEPT !.need = TRUE]
             [] state.depth = 1 /\ state.need /\ kind \notin {"leftParen", "rightParen", "comma"} ->
                  [next EXCEPT !.starts = Append(@, i), !.need = FALSE]
             [] OTHER -> next
      start == [depth |-> 0, need |-> TRUE, starts |-> <<>>]
  IN FoldLeft(Step, start, Inside(call)).starts

(* inlay_hints: the places where "data:" is shown, for the parameters of the *)
(* first overload.                                                           *)
DataHints(call) ==
  LET starts == ArgumentStarts(call)
  IN IF text[call].name \notin Builtins THEN {}
     ELSE {starts[k] : k \in DataArguments[text[call].name] \cap DOMAIN starts}

(* signature_help at the end of the text: the last parenthesis, the word     *)
(* before it, and the commas behind it.                                      *)
SignatureHelp ==
  LET parens == Of("leftParen", DOMAIN text)
      open   == Max(parens)
      function == IF KindAt(open - 1) = "identifier" THEN Function(text[open - 1].name).name
                  ELSE "none"
  IN IF parens = {} \/ function = "none" THEN <<>>
     ELSE <<[function |-> function, active |-> Cardinality(Of("comma", open .. Len(text)))]>>
================================================================================
