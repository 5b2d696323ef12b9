------------------------------- MODULE Analysis -------------------------------
(***************************************************************************)
(* A text as its author types it, one token at a time, and the analysis of *)
(* each revision (analyze_revision). The author writes Stan programs phrase*)
(* by phrase and knows what each name stands for: env, the declarations in *)
(* force, innermost scope last, is kept by the rules of semantic-model.md  *)
(* from what the author means, never from ranges. The author may leave out *)
(* a token; from then on only what must hold of every text is expected.    *)
(***************************************************************************)
EXTENDS Features

CONSTANTS
  VariableNames, FunctionNames, FreshName,
  MaxPhrases,  \* bound on the phrases of a text
  MaxSlips,    \* bound on the tokens left out
  SlipCost,    \* how many phrases less a text has for each of them
  Files        \* whole programs, or files included in a functions block

(* A new name is an identifier (valid_identifier, navigation.rs) the text has *)
(* not.                                                                      *)
ASSUME AuthorAssumption ==
  /\ VariableNames \cup FunctionNames \cup {FreshName, ""} \subseteq Names
  /\ FreshName \notin VariableNames \cup FunctionNames \cup {""}
  /\ MaxPhrases \in Nat /\ MaxSlips \in Nat /\ SlipCost \in Nat
  /\ Files \subseteq {"program", "functions"}

VARIABLES
  written,    \* how many phrases were begun
  pending,    \* the tokens left of the phrase being typed
  slips,      \* how many tokens were left out
  env,        \* the scopes that are open, the program's first: what the head of
              \* a function or loop bound, and what is declared within
  held,       \* names declared whose scope has not begun yet
  bindings,   \* from the position of each use to its declaration's, 0 if none
  clashes,    \* pairs of positions that declare one name in one scope
  due,        \* the text has changed since it was analyzed
  model       \* SemanticModel of the text analyzed last

authorVars == <<written, pending, slips, env, held, bindings, clashes>>
vars == <<delimiterVars, authorVars, due, model>>

-----------------------------------------------------------------------------
(* Phrases, with the roles of their tokens *)

T(kind, role)    == [kind |-> kind, name |-> "", role |-> role]
Plain(kind)      == T(kind, "none")
Use(name)        == [kind |-> "identifier", name |-> name, role |-> "use"]
Declare(name)    == [kind |-> "identifier", name |-> name, role |-> "declares"]
Name(name)       == [kind |-> "identifier", name |-> name, role |-> "names"]
Open(owner)      == T("leftBrace", owner)

Close == <<T("rightBrace", "leaves")>>

BlockPhrase(h) == [k \in DOMAIN h.words |-> Plain(h.words[k])] \o <<Open(h.kind)>>

FunctionPhrase(f, x) ==
  <<Plain("type"), Name(f), Plain("leftParen"), Plain("type"), Declare(x),
    Plain("rightParen"), Open("function")>>

Declarations ==
  {<<Plain("type"), Declare(x), T("semicolon", "ends")>> : x \in VariableNames}
  \cup {<<Plain("type"), Plain("leftBracket"), Use(x), Plain("rightBracket"), Declare(x),
          Plain("assign"), Use(x), T("semicolon", "ends")>> : x \in VariableNames}

LoopHead(x) == <<Plain("for"), Plain("leftParen"), Declare(x), Plain("in"), Use(x)>>

Statements ==
  {<<Use(f), Plain("leftParen"), Use(x), Plain("rightParen"), Plain("semicolon")>> :
     f \in FunctionNames, x \in VariableNames}
  \cup {<<Open("block")>>}
  \cup {LoopHead(x) \o <<Plain("rightParen"), Open("loop")>> : x \in VariableNames}

Owner == env[Len(env)].owner
Rank(block) ==
  CASE block = "functions" -> 0 [] block = "data" -> 1 [] block = "transformedData" -> 2
    [] block = "parameters" -> 3 [] block = "transformedParameters" -> 4
    [] block = "model" -> 5 [] OTHER -> 6

(* What may be written next; blocks come in their order. *)
Phrases ==
  IF Owner = "program"
  THEN {BlockPhrase(h) : h \in {h \in BlockHeaders : \A i \in DOMAIN text :
          text[i].role \in BlockKinds => Rank(text[i].role) < Rank(h.kind)}}
  ELSE IF Owner = "functions"
  THEN {FunctionPhrase(f, x) : f \in FunctionNames, x \in VariableNames}
       \cup (IF Len(env) > 1 THEN {Close} ELSE {})
  ELSE {Close} \cup Declarations
       \cup (IF Owner \in {"data", "parameters"} THEN {} ELSE Statements)

(* Room is left to close what is open, and no statement is written twice in *)
(* a row, which a second time says nothing new.                             *)
Fits(phrase) ==
  LET role == Last(phrase).role
      left == MaxPhrases - written - 1 - SlipCost * slips
      open == Len(env) - 1
  IN /\ left >= (IF role = "leaves" THEN open - 1 ELSE IF role \in Owners THEN open + 1 ELSE open)
     /\ Head(phrase).role = "use" => ~ IsSuffix(phrase, text)

-----------------------------------------------------------------------------
(* What a name stands for *)

Block == env[Min({2, Len(env)})].owner
Declaration(at, name) == [at |-> at, name |-> name, block |-> Block]
Named(declarations, name) == {d \in declarations : d.name = name}
Latest(declarations) == Max({0} \cup {d.at : d \in declarations})

InFunction == \E k \in DOMAIN env : env[k].owner = "function"

(* The variables of the program that block can see: those of its own and of *)
(* earlier blocks. A function body sees none.                               *)
ProgramVariables(name) ==
  {d \in Named(env[1].declared, name) :
     d.block # "functions" /\ ~ InFunction /\ Rank(d.block) <= Rank(Block)}

(* The nearest declaration in force; functions are found at the end, because *)
(* they are in force before their declaration too.                          *)
Meaning(name) ==
  LET InScope(k) == Named(env[k].bound \cup env[k].declared, name)
      scopes == {k \in 2 .. Len(env) : InScope(k) # {}}
  IN IF scopes # {} THEN Latest(InScope(Max(scopes)))
     ELSE Latest(ProgramVariables(name))

FunctionNamed(name) ==
  Latest({d \in Named(env[1].declared, name) : d.block = "functions"})

Clashing(declared, new) ==
  {{d.at, new.at} : d \in Named(declared, new.name)}

DeclareIn(frame, new) ==
  /\ env' = [env EXCEPT ![frame].declared = @ \cup {new}]
  /\ clashes' = clashes \cup Clashing(env[frame].declared, new)

(* What typing token t means to its author. *)
Means(t) ==
  LET at == Len(text) + 1 IN
  \/ /\ t.role = "none"
     /\ UNCHANGED <<env, held, bindings, clashes>>
  \/ /\ t.role = "use"
     /\ bindings' = [i \in DOMAIN bindings \cup {at} |->
                       IF i = at THEN Meaning(t.name) ELSE bindings[i]]
     /\ UNCHANGED <<env, held, clashes>>
  \/ /\ t.role = "declares"
     /\ held' = {Declaration(at, t.name)}
     /\ UNCHANGED <<env, bindings, clashes>>
  \/ /\ t.role = "names"
     /\ DeclareIn(1, Declaration(at, t.name))
     /\ UNCHANGED <<held, bindings>>
  \/ /\ t.role = "ends"
     /\ \E new \in held : DeclareIn(IF Owner \in ProgramKinds THEN 1 ELSE Len(env), new)
     /\ held' = {}
     /\ UNCHANGED bindings
  \/ /\ t.role \in Owners
     /\ env' = Append(env, [owner |-> t.role, bound |-> held, declared |-> {}])
     /\ held' = {}
     /\ UNCHANGED <<bindings, clashes>>
  \/ /\ t.role = "leaves"
     /\ env' = SubSeq(env, 1, Len(env) - 1)
     /\ UNCHANGED <<held, bindings, clashes>>

-----------------------------------------------------------------------------
Init ==
  /\ DelimiterInit
  /\ written = 0 /\ pending = <<>> /\ slips = 0
  /\ \E file \in Files : env = <<[owner |-> file, bound |-> {}, declared |-> {}]>>
  /\ held = {} /\ bindings = <<>> /\ clashes = {}
  /\ due = FALSE
  /\ model = AnalyzeSemantics(NamesOf)

Type(tokens) ==
  /\ ReadToken(Head(tokens))
  /\ pending' = Tail(tokens)
  /\ Means(Head(tokens))
  /\ due' = TRUE
  /\ UNCHANGED <<slips, model>>

(* The next token is left out, meant as it was. *)
Slip(tokens) ==
  /\ slips < MaxSlips
  /\ written + SlipCost < MaxPhrases
  /\ slips' = slips + 1
  /\ pending' = Tail(tokens)
  /\ Means(Head(tokens))
  /\ UNCHANGED <<delimiterVars, due, model>>

Write(tokens) == Type(tokens) \/ Slip(tokens)

Continue ==
  /\ pending # <<>>
  /\ Write(pending)
  /\ UNCHANGED written

Begin ==
  /\ ~ due /\ pending = <<>>
  /\ \E phrase \in Phrases : Fits(phrase) /\ Write(phrase)
  /\ written' = written + 1

(* analyze_revision: a change enters a phrase, and each revision is analyzed. *)
Analyze ==
  /\ due /\ pending = <<>>
  /\ due' = FALSE
  /\ model' = AnalyzeSemantics(NamesOf)
  /\ UNCHANGED <<delimiterVars, authorVars>>

Next == Continue \/ Begin \/ Analyze
Spec == Init /\ [][Next]_vars

-----------------------------------------------------------------------------
(* Properties *)

(* The text, the author's record and the model have the shape their readers *)
(* rely on; every range lies in the text.                                   *)
TypeOK ==
  /\ DelimiterTypeOK
  /\ pending \in Seq(Token) /\ slips \in 0 .. MaxSlips
  /\ Len(env) \in Nat \ {0}
  /\ \A c, d \in held : c = d
  /\ DOMAIN bindings \subseteq 1 .. Len(text) + 1
  /\ \A k \in DOMAIN model.scopes : Encloses(RootRange, model.scopes[k].range)
  /\ \A k \in DOMAIN model.symbols : KindAt(model.symbols[k].at) = "identifier"

(* What analyze_semantics asserts of its result, on every revision, broken or *)
(* not: debug_assert of validate, analyze_semantics.rs 136-141.               *)
ModelIsValid == ~ due => Validate(model)

(* Two scopes are apart or one is in the other: only then is the smallest one *)
(* around an offset the innermost, and a symbol's chain the scopes around it. *)
ScopesNest ==
  \A k, m \in DOMAIN model.scopes :
    LET r == model.scopes[k].range
        s == model.scopes[m].range
    IN Encloses(r, s) \/ Encloses(s, r) \/ r.end <= s.start \/ s.end <= r.start

Finished == ~ due /\ pending = <<>> /\ slips = 0 /\ Len(env) = 1

Resolved(i)  == IF model.resolved[i] = 0 THEN 0 ELSE model.symbols[model.resolved[i]].at
Intended(i)  == IF bindings[i] # 0 THEN bindings[i] ELSE FunctionNamed(text[i].name)

(* In a finished program every use resolves to the nearest declaration in     *)
(* force (semantic-model.md). In one that is being written, a use resolves so *)
(* or not at all, but for functions, which are known without their block.     *)
UsesResolve ==
  slips = 0 /\ ~ due =>
    \A i \in DOMAIN bindings :
      /\ i \in DOMAIN model.resolved
      /\ Resolved(i) \in {Intended(i)} \cup
                         (IF Finished THEN {} ELSE {0, FunctionNamed(text[i].name)})

(* The duplicate-declaration errors of a finished program relate declarations *)
(* of one name in one scope, and leave out none of them.                      *)
DuplicatesAreReported ==
  Finished =>
    /\ \A d \in model.duplicates : {d[1], d[2]} \in clashes
    /\ UNION clashes = {d[1] : d \in model.duplicates} \cup {d[2] : d \in model.duplicates}

(* The function the author wrote a use in, 0 if it is in none *)
WrittenIn(i) ==
  LET before == {j \in 1 .. i - 1 : text[j].role = "names"}
      blocks == {j \in 1 .. i - 1 : text[j].role \in BlockKinds \ {"functions"}}
  IN IF blocks = {} THEN Max({0} \cup before) ELSE 0

(* In a finished program the call hierarchy is what the author wrote, seen    *)
(* from either end: preparing it at a use of a function yields the function,  *)
(* a use is an outgoing call of the function it was written in and of no      *)
(* other, and an incoming call of the function it stands for, from there      *)
(* (features.rs 223-405).                                                     *)
HierarchiesAgree ==
  Finished =>
    \A i \in DOMAIN bindings :
      LET target == PrepareCallHierarchy(model, i)
          functions == {k \in DOMAIN model.symbols : IsFunction(model, k)}
          callers == {k \in functions : model.symbols[k].at = WrittenIn(i)}
      IN /\ target # 0 => model.symbols[target].at = Intended(i)
         /\ \A k \in functions :
              /\ {c.to : c \in {c \in OutgoingCalls(model, k) : c.at = i}} =
                   IF target # 0 /\ k \in callers THEN {target} ELSE {}
              /\ {c.from : c \in {c \in IncomingCalls(model, k) : c.at = i}} =
                   IF k = target THEN callers ELSE {}

RenamedModel(symbol, new) ==
  AnalyzeSemantics(Rename(model, NamesOf, symbol, new))

(* A rename to a name the text does not have changes no binding: in the       *)
(* renamed text each use stands for the declaration it stood for              *)
(* (navigation.rs 63-82).                                                     *)
FreshRenamesAreSafe ==
  Finished =>
    \A symbol \in DOMAIN model.symbols :
      RenameAllowed(model, NamesOf, symbol, FreshName) =>
        RenamedModel(symbol, FreshName).resolved = model.resolved
==============================================================================
