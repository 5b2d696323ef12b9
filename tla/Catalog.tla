-------------------------------- MODULE Catalog --------------------------------
(***************************************************************************)
(* catalog.rs and types.rs: how a line of the signature catalog becomes    *)
(* typed overloads of a function, and how an overload is displayed. A line *)
(* is the name of a function, in two parts (what comes before its last     *)
(* underscore suffix, and the suffix), and the words and marks after it;   *)
(* blanks are left out, which trim and the display agree on.               *)
(***************************************************************************)
EXTENDS Naturals, SequencesExt

BaseTypes == {"int", "real", "complex", "vector", "row_vector", "matrix",
              "complex_vector", "complex_row_vector", "complex_matrix"}

Error(kind) == [error |-> kind]
Value(value) == [value |-> value]
IsValue(result) == "value" \in DOMAIN result
Then(result, F(_)) == IF IsValue(result) THEN F(result.value) ELSE result
(* collect::<Result<Vec<_>, _>>: the first error, or all the values *)
Collect(results) ==
  LET failed == SelectInSeq(results, LAMBDA r : ~IsValue(r))
  IN IF failed # 0 THEN results[failed]
     ELSE Value([n \in DOMAIN results |-> results[n].value])

(* What a sequence has at some of its places, in order *)
Picked(sequence, places) ==
  [n \in 1 .. Cardinality(places) |->
     sequence[CHOOSE i \in places : Cardinality({k \in places : k < i}) = n - 1]]

Places(text, mark) == {i \in DOMAIN text : text[i] = mark}
From(text, i) == SubSeq(text, i, Len(text))

(* matching_delimiter, of a parenthesis at the place open: where the depth   *)
(* is back at zero, or 0 for an unbalanced one.                              *)
MatchingDelimiter(text, open) ==
  LET depth(i) == Cardinality({k \in Places(text, "(") : k \in open .. i})
                  - Cardinality({k \in Places(text, ")") : k \in open .. i})
      closed == {i \in open .. Len(text) : depth(i) = 0}
  IN IF closed = {} THEN 0 ELSE Min(closed)

(* A mutant of SplitStep: brackets do not protect a comma. *)
SplitStepAtBrackets(state, mark) ==
  IF mark = "(" THEN [state EXCEPT !.open = Append(@, mark), !.part = Append(@, mark)]
  ELSE IF mark = ")"
       THEN [state EXCEPT !.balanced = @ /\ state.open # <<>>,
                          !.open = IF @ = <<>> THEN @ ELSE Front(@), !.part = Append(@, mark)]
  ELSE IF mark = "," /\ state.open = <<>>
       THEN [state EXCEPT !.parts = Append(@, state.part), !.part = <<>>]
  ELSE [state EXCEPT !.part = Append(@, mark)]

OpenerOf(closer) == IF closer = ")" THEN "(" ELSE "["
SplitStep(state, mark) ==
  CASE mark \in {"(", "["} ->
         [state EXCEPT !.open = Append(@, mark), !.part = Append(@, mark)]
    [] mark \in {")", "]"} ->
         IF state.open # <<>> /\ Last(state.open) = OpenerOf(mark)
         THEN [state EXCEPT !.open = Front(@), !.part = Append(@, mark)]
         ELSE [state EXCEPT !.balanced = FALSE]
    [] mark = "," /\ state.open = <<>> ->
         [state EXCEPT !.parts = Append(@, state.part), !.part = <<>>]
    [] OTHER -> [state EXCEPT !.part = Append(@, mark)]

(* split_top_level, at commas *)
SplitTopLevel(text) ==
  LET start == [open |-> <<>>, parts |-> <<>>, part |-> <<>>, balanced |-> TRUE]
      end == FoldLeft(SplitStep, start, text)
  IN IF end.balanced /\ end.open = <<>> THEN Value(Append(end.parts, end.part))
     ELSE Error("UnbalancedDelimiter")

(* parse_type. The brackets of an array end at the first one that closes,    *)
(* and only their commas count.                                              *)
Texts == Seq(STRING)
ParseType[text \in Texts] ==
  IF Len(text) >= 2 /\ SubSeq(text, 1, 2) = <<"array", "[">> THEN
    LET closers == Places(text, "]") IN
    IF closers = {} THEN Error("UnbalancedDelimiter")
    ELSE LET close == Min(closers)
             dimensions == Cardinality({k \in Places(text, ",") : k < close}) + 1
         IN Then(ParseType[From(text, close + 1)],
                 LAMBDA element : Value(<<"array", dimensions, element>>))
  ELSE IF Len(text) >= 2 /\ SubSeq(text, 1, 2) = <<"tuple", "(">> THEN
    LET close == MatchingDelimiter(text, 2) IN
    IF close = 0 THEN Error("UnbalancedDelimiter")
    ELSE IF close # Len(text) THEN Error("MalformedSignature")
    ELSE Then(SplitTopLevel(SubSeq(text, 3, close - 1)), LAMBDA parts :
           Then(Collect([n \in DOMAIN parts |-> ParseType[parts[n]]]), LAMBDA elements :
             Value(<<"tuple", elements>>)))
  ELSE IF Len(text) = 1 /\ text[1] \in BaseTypes THEN Value(text)
  ELSE Error("UnknownType")

(* parse_parameter: a function type is kept as it is written. *)
ParseParameter(text) ==
  IF text # <<>> /\ text[1] = "("
  THEN Value([dataOnly |-> FALSE, type |-> <<"variable", text>>])
  ELSE LET dataOnly == text # <<>> /\ text[1] = "data"
       IN Then(ParseType[IF dataOnly THEN Tail(text) ELSE text], LAMBDA type :
            Value([dataOnly |-> dataOnly, type |-> type]))

(* parse_signature, of what follows the name *)
ParseReturn(text) == IF text = <<"void">> THEN Value(text) ELSE ParseType[text]
ParseSignature(text) ==
  LET close == IF text = <<>> THEN 0 ELSE MatchingDelimiter(text, 1)
      arguments == SubSeq(text, 2, close - 1)
      tail == From(text, close + 1)
  IN IF text = <<>> THEN Error("MalformedSignature")
     ELSE IF close = 0 THEN Error("UnbalancedDelimiter")
     ELSE IF tail = <<>> \/ Head(tail) # "=>" THEN Error("MalformedSignature")
     ELSE Then(IF arguments = <<>> THEN Value(<<>>) ELSE SplitTopLevel(arguments), LAMBDA parts :
            Then(Collect([n \in DOMAIN parts |-> ParseParameter(parts[n])]), LAMBDA parameters :
              Then(ParseReturn(Tail(tail)), LAMBDA returned :
                Value([parameters |-> parameters, returns |-> returned]))))

-----------------------------------------------------------------------------
(* The display of types, parameters and signatures *)
Joined(texts) ==
  IF texts = <<>> THEN <<>>
  ELSE FoldLeft(LAMBDA a, b : a \o <<",">> \o b, Head(texts), Tail(texts))

(* The types that are displayed: those with less than MaxNesting types        *)
(* around one another.                                                       *)
MaxNesting == 4
TypesNested[depth \in 0 .. MaxNesting] ==
  IF depth = 0
  THEN {<<base>> : base \in BaseTypes \cup {"void"}} \cup ({"variable"} \X Texts)
  ELSE TypesNested[depth - 1]
       \cup ({"array"} \X Nat \X TypesNested[depth - 1])
       \cup ({"tuple"} \X Seq(TypesNested[depth - 1]))
DisplayedTypes == TypesNested[MaxNesting]
DisplayType[type \in DisplayedTypes] ==
  CASE type[1] = "array" ->
         <<"array", "[">> \o [n \in 1 .. type[2] - 1 |-> ","] \o <<"]">> \o DisplayType[type[3]]
    [] type[1] = "tuple" ->
         <<"tuple", "(">> \o Joined([n \in DOMAIN type[2] |-> DisplayType[type[2][n]]]) \o <<")">>
    [] type[1] = "variable" -> type[2]
    [] OTHER -> type

DisplayParameter(parameter) ==
  (IF parameter.dataOnly THEN <<"data">> ELSE <<>>) \o DisplayType[parameter.type]

DisplaySignature(signature) ==
  <<"(">> \o Joined([n \in DOMAIN signature.parameters |->
                       DisplayParameter(signature.parameters[n])])
  \o <<")", "=>">> \o DisplayType[signature.returns]

-----------------------------------------------------------------------------
(* A special signature: what callbacks return, and whether there are         *)
(* controls, is read off the name: that it begins with ode_, dae or solve_,  *)
(* and that _tol is in it. A return type that is none becomes a variable.    *)
SolverNames == {"ode_tol"}
TolNames    == {"ode_tol", "laplace_tol"}
SpecialSignature(name, fields) ==
  [display |-> fields[1],
   callbackReturns |-> IF name.base \in SolverNames THEN "vector" ELSE "real",
   controls |-> name.base \in TolNames,
   returns |-> IF fields[2] \in BaseTypes \cup {"void"} THEN <<fields[2]>> ELSE <<"variable", fields[2]>>]

(* FunctionCatalog::parse, of the lines of both files and the names of the   *)
(* enum: the overloads by name, or an error.                                 *)
KnownLines(signatures, special, functions) ==
  /\ \A n \in DOMAIN signatures : signatures[n].name \in functions
  /\ \A n \in DOMAIN special : special[n].name \in functions /\ Len(special[n].fields) = 2

ParseLine(line) ==
  Then(ParseSignature(line.text), LAMBDA signature :
    Value([name |-> line.name, signature |-> signature]))
OfName(lines, name) == Picked(lines, {n \in DOMAIN lines : lines[n].name = name})

ParseCatalog(signatures, special, functions) ==
  Then(Collect([n \in DOMAIN signatures |-> ParseLine(signatures[n])]), LAMBDA parsed :
    IF ~KnownLines(signatures, special, functions) THEN Error("CatalogError")
    ELSE Value([name \in functions |->
           LET own == OfName(parsed, name)
               ownSpecial == OfName(special, name)
           IN [concrete |-> [n \in DOMAIN own |-> own[n].signature],
               variadic |-> [n \in DOMAIN ownSpecial |->
                               SpecialSignature(name, ownSpecial[n].fields)]]]))

(* Lifecycle::is_available_in, for the version this catalog is of; a         *)
(* lifecycle says whether the function was removed and when it came (0 when  *)
(* that is not known).                                                       *)
CurrentMinor == 39
IsAvailable(lifecycle) == ~lifecycle.removed /\ lifecycle.introduced <= CurrentMinor
================================================================================
