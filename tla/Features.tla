------------------------------- MODULE Features -------------------------------
(***************************************************************************)
(* Call hierarchies of features.rs on the semantic model: who a function   *)
(* calls and who calls it, each found from the ranges of declarations and  *)
(* the references within them. The client keeps an item between requests;  *)
(* what comes back of it is the index of a symbol.                         *)
(***************************************************************************)
EXTENDS Semantics

(* symbol_at: the declaration at a position, or what a reference stands for. *)
SymbolAt(semantics, i) ==
  LET declared == {k \in DOMAIN semantics.symbols : semantics.symbols[k].at = i}
  IN IF declared # {} THEN Min(declared)
     ELSE IF i \in DOMAIN semantics.resolved THEN semantics.resolved[i] ELSE 0

IsFunction(semantics, k) == k # 0 /\ semantics.symbols[k].kind = "function"

PrepareCallHierarchy(semantics, i) ==
  LET k == SymbolAt(semantics, i) IN IF IsFunction(semantics, k) THEN k ELSE 0

(* declaration of a function's symbol: its whole node *)
DeclarationOf(semantics, k) ==
  CHOOSE f \in FunctionDeclarations : FunctionName(f) = semantics.symbols[k].at

(* A mutant: a declaration reaches to the end of the text. *)
FunctionsBegunBefore(semantics, i) ==
  {k \in DOMAIN semantics.symbols :
     IsFunction(semantics, k) /\ DeclarationOf(semantics, k).start <= i}

FunctionsAround(semantics, i) ==
  {k \in DOMAIN semantics.symbols :
     IsFunction(semantics, k) /\ Encloses(DeclarationOf(semantics, k), Span(i, i))}

(* The first function around a reference is its caller; a reference outside  *)
(* of functions has none.                                                    *)
IncomingCalls(semantics, target) ==
  {[from |-> Min(FunctionsAround(semantics, i)), at |-> i] :
     i \in {i \in DOMAIN semantics.resolved :
              semantics.resolved[i] = target /\ FunctionsAround(semantics, i) # {}}}

OutgoingCalls(semantics, caller) ==
  {[to |-> semantics.resolved[i], at |-> i] :
     i \in {i \in DOMAIN semantics.resolved :
              /\ Encloses(DeclarationOf(semantics, caller), Span(i, i))
              /\ IsFunction(semantics, semantics.resolved[i])}}
==============================================================================
