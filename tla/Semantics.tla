------------------------------ MODULE Semantics ------------------------------
(***************************************************************************)
(* The semantic model of the text read so far: scopes and symbols from     *)
(* analyze_semantics.rs, name lookup from resolution.rs, validate of       *)
(* model.rs and rename of navigation.rs. Names come as an argument, from   *)
(* positions to names, for rename. Left out: types, built-in functions and *)
(* the lookup of x_lpdf by its base name.                                  *)
(***************************************************************************)
EXTENDS Syntax

CONSTANT Margin    \* blanks and comments behind the last token, as one offset

ASSUME MarginAssumption == Margin \in Nat

SizeOf(range) == range.end - range.start
RootRange     == [start |-> 1, end |-> Len(text) + 1 + Margin]

(* min_by_key of the sizes over the indices I: the first of the smallest. *)
Smallest(ranges, I) ==
  CHOOSE k \in I : \A m \in I \ {k} :
    \/ SizeOf(ranges[k]) < SizeOf(ranges[m])
    \/ SizeOf(ranges[k]) = SizeOf(ranges[m]) /\ k < m

Before(r, s) == r.start < s.start \/ (r.start = s.start /\ r.end > s.end)
InOrder(S, Less(_, _)) ==
  [k \in 1 .. Cardinality(S) |->
     CHOOSE r \in S : Cardinality({s \in S : Less(s, r)}) = k - 1]
Sorted(ranges) == InOrder(ranges, Before)

-----------------------------------------------------------------------------
(* Scopes: a sequence, the root first. A scope is named by its index. *)

Root == 1

(* Of several nodes with one range the compound statement stays. *)
ScopedRanges == CompoundStatements \cup FunctionDeclarations \cup ForStatements

(* A mutant: loops get a scope as blocks do. *)
RequestedKindWithoutLoops(range) ==
  IF range \in FunctionDeclarations THEN "function" ELSE "block"

RequestedKind(range) ==
  IF range \in CompoundStatements THEN "block"
  ELSE IF range \in FunctionDeclarations THEN "function" ELSE "loop"

ParentOf(ranges, k) ==
  LET enclosing == {m \in 1 .. k - 1 : ranges[m] # ranges[k] /\ Encloses(ranges[m], ranges[k])}
  IN IF enclosing = {} THEN Root ELSE Smallest(ranges, enclosing)

(* A compound statement right under the root that a program block contains is *)
(* that block's body.                                                         *)
ScopeKind(range, parent) ==
  LET block == FirstKind({b \in ProgramBlocks : Encloses(b.range, range)})
  IN IF RequestedKind(range) = "block" /\ parent = Root /\ block # "none"
     THEN block ELSE RequestedKind(range)

BuildScopes ==
  LET ranges == <<RootRange>> \o Sorted(ScopedRanges)
  IN [k \in DOMAIN ranges |->
        IF k = Root THEN [range |-> RootRange, parent |-> 0, kind |-> "root"]
        ELSE [range |-> ranges[k], parent |-> ParentOf(ranges, k),
              kind |-> ScopeKind(ranges[k], ParentOf(ranges, k))]]

ScopeAt(scopes, offset) ==
  LET holding == {k \in DOMAIN scopes : Holds(scopes[k].range, offset)}
  IN IF holding = {} THEN Root
     ELSE Smallest([k \in DOMAIN scopes |-> scopes[k].range], holding)

ScopeWithRange(scopes, range) == First({k \in DOMAIN scopes : scopes[k].range = range})

-----------------------------------------------------------------------------
(* Symbols: a sequence in the order add_symbol is called. *)

Symbol(at, kind, scope, visibleFrom) ==
  [at |-> at, kind |-> kind, scope |-> scope, visibleFrom |-> visibleFrom]

ProgramKinds == BlockKinds \ {"functions", "model"}

FunctionSymbols(scopes, function) ==
  LET body  == BodyRange(function)
      scope == ScopeWithRange(scopes, function)
      names == IF body = NoRange THEN {} ELSE ParameterNames(function)
      Parameter(at) == Symbol(at, "parameter", scope, body.start)
      sorted == InOrder(names, <)
  IN <<Symbol(FunctionName(function), "function", Root, 0)>>
       \o [k \in DOMAIN sorted |-> Parameter(sorted[k])]

(* A mutant: a declaration is visible within itself. *)
VariableSymbolsFromStart(scopes, declaration) ==
  LET at    == DeclaredName(declaration)
      scope == ScopeAt(scopes, at)
      block == FirstKind({b \in ProgramBlocks : Holds(b.range, at)})
      program == scopes[scope].kind \in BlockKinds /\ block \in ProgramKinds
  IN IF at = 0 THEN <<>>
     ELSE <<Symbol(at, IF program THEN block ELSE "local",
                   IF program THEN Root ELSE scope, declaration.start)>>

(* Directly in a program block other than functions and model, a declaration *)
(* belongs to the program; anywhere else it is local to its scope.           *)
VariableSymbols(scopes, declaration) ==
  LET at    == DeclaredName(declaration)
      scope == ScopeAt(scopes, at)
      block == FirstKind({b \in ProgramBlocks : Holds(b.range, at)})
      program == scopes[scope].kind \in BlockKinds /\ block \in ProgramKinds
  IN IF at = 0 THEN <<>>
     ELSE <<Symbol(at, IF program THEN block ELSE "local",
                   IF program THEN Root ELSE scope, declaration.end)>>

LoopSymbols(scopes, for) ==
  IF Binder(for) = 0 \/ BodyRange(for) = NoRange THEN <<>>
  ELSE <<Symbol(Binder(for), "loop", ScopeWithRange(scopes, for), BodyRange(for).start)>>

AddSymbols(scopes) ==
  LET functions == Sorted(FunctionDeclarations)
      variables == Sorted(VariableDeclarations)
      loops     == Sorted(ForStatements)
  IN FlattenSeq([k \in DOMAIN functions |-> FunctionSymbols(scopes, functions[k])])
       \o FlattenSeq([k \in DOMAIN variables |-> VariableSymbols(scopes, variables[k])])
       \o FlattenSeq([k \in DOMAIN loops |-> LoopSymbols(scopes, loops[k])])

-----------------------------------------------------------------------------
(* Lookup *)

Chain(scopes, scope) ==
  LET chain[s \in DOMAIN scopes] ==
        IF scopes[s].parent = 0 THEN <<s>> ELSE <<s>> \o chain[scopes[s].parent]
  IN chain[scope]

ProgramSymbolVisible(kind, block) ==
  block \in
    CASE kind = "data" -> BlockKinds \ {"functions"}
      [] kind = "transformedData" -> BlockKinds \ {"functions", "data"}
      [] kind = "parameters" -> BlockKinds \ {"functions", "data", "transformedData"}
      [] kind = "transformedParameters" ->
           {"transformedParameters", "model", "generatedQuantities"}
      [] kind = "generatedQuantities" -> {"generatedQuantities"}
      [] OTHER -> {}

ResolveName(symbols, scopes, names, offset) ==
  LET chain  == Chain(scopes, ScopeAt(scopes, offset))
      kinds  == [c \in DOMAIN chain |-> scopes[chain[c]].kind]
      blocks == {c \in DOMAIN chain : kinds[c] \in BlockKinds}
      block  == IF blocks = {} THEN "none" ELSE kinds[Min(blocks)]
      inside_function == \E c \in DOMAIN chain : kinds[c] = "function"
      Visible(s) == \/ s.kind = "function"
                    \/ s.scope # Root
                    \/ ~ inside_function /\ ProgramSymbolVisible(s.kind, block)
      candidates == {k \in DOMAIN symbols :
                       /\ names[symbols[k].at] = names[offset]
                       /\ symbols[k].visibleFrom <= offset
                       /\ Visible(symbols[k])}
      InScope(scope) == {k \in candidates : symbols[k].scope = scope}
      nearest == {c \in DOMAIN chain : InScope(chain[c]) # {}}
      Later(k, m) == \/ symbols[k].visibleFrom > symbols[m].visibleFrom
                     \/ symbols[k].visibleFrom = symbols[m].visibleFrom /\ k > m
  IN IF nearest = {} THEN 0
     ELSE LET best == InScope(chain[Min(nearest)])
          IN CHOOSE k \in best : \A m \in best \ {k} : Later(k, m)

(* The identifiers that declare nothing. *)
References(symbols) ==
  Of("identifier", DOMAIN text) \ {symbols[k].at : k \in DOMAIN symbols}

(* A mutant: names are unique whatever their scope. *)
DuplicatesAnywhere(symbols, names) ==
  LET Same(k) == {m \in DOMAIN symbols : names[symbols[m].at] = names[symbols[k].at]}
  IN {<<symbols[k].at, symbols[Min(Same(k))].at>> :
        k \in {k \in DOMAIN symbols : k # Min(Same(k))}}

(* emit_duplicate_declarations: the symbols reported, with the first of their *)
(* name in their scope.                                                       *)
Duplicates(symbols, names) ==
  LET Same(k) == {m \in DOMAIN symbols : symbols[m].scope = symbols[k].scope
                                         /\ names[symbols[m].at] = names[symbols[k].at]}
  IN {<<symbols[k].at, symbols[Min(Same(k))].at>> :
        k \in {k \in DOMAIN symbols : k # Min(Same(k))}}

AnalyzeSemantics(names) ==
  LET scopes  == BuildScopes
      symbols == AddSymbols(scopes)
  IN [scopes |-> scopes, symbols |-> symbols,
      resolved |-> [i \in References(symbols) |-> ResolveName(symbols, scopes, names, i)],
      duplicates |-> Duplicates(symbols, names)]

NamesOf == [i \in DOMAIN text |-> text[i].name]

-----------------------------------------------------------------------------
(* SemanticModel::validate: parents contain, symbols lie in their scopes, and *)
(* parameters and loop variables have a scope of their own.                   *)
Validate(model) ==
  /\ model.scopes[Root].parent = 0 /\ model.scopes[Root].kind = "root"
  /\ \A k \in DOMAIN model.scopes \ {Root} :
       LET scope == model.scopes[k]
       IN /\ scope.parent \in DOMAIN model.scopes
          /\ Encloses(model.scopes[scope.parent].range, scope.range)
  /\ \A k \in DOMAIN model.symbols :
       LET symbol == model.symbols[k]
       IN /\ symbol.scope \in DOMAIN model.scopes
          /\ symbol.scope # Root =>
               Encloses(model.scopes[symbol.scope].range, Span(symbol.at, symbol.at))
          /\ symbol.kind \in {"parameter", "loop"} =>
               model.scopes[symbol.scope].kind \in {"function", "loop"}
  /\ \A i \in DOMAIN model.resolved : model.resolved[i] \in {0} \cup DOMAIN model.symbols

-----------------------------------------------------------------------------
(* Rename: the declaration and the references resolved to it. *)

RenameAllowed(model, names, symbol, new) ==
  ~ \E k \in DOMAIN model.symbols \ {symbol} :
      /\ model.symbols[k].scope = model.symbols[symbol].scope
      /\ names[model.symbols[k].at] = new

(* A mutant: the declaration is not among the edits. *)
ReferencesAlone(model, symbol) ==
  {i \in DOMAIN model.resolved : model.resolved[i] = symbol}

RenameEdits(model, symbol) ==
  {model.symbols[symbol].at} \cup {i \in DOMAIN model.resolved : model.resolved[i] = symbol}

Rename(model, names, symbol, new) ==
  [i \in DOMAIN names |-> IF i \in RenameEdits(model, symbol) THEN new ELSE names[i]]
==============================================================================
