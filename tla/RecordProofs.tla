----------------------------- MODULE RecordProofs -----------------------------
(***************************************************************************)
(* What the author of a text keeps in env, held, bindings and clashes, as a*)
(* function of the text and its delimiter pairs: for texts of any length,  *)
(* as long as no token is left out.                                        *)
(*                                                                         *)
(* The text is laid with phrases (AnalysisProofs); here each is known with *)
(* the roles of its tokens and with where it may stand.                    *)
(***************************************************************************)
EXTENDS AnalysisProofs

-----------------------------------------------------------------------------
(* Phrases, by the kinds and roles of their tokens *)

Form(kinds, roles) == [kinds |-> kinds, roles |-> roles]

FunctionForm == Form(FunctionShape,
                     <<"none", "names", "none", "none", "declares", "none", "function">>)
PlainForm    == Form(PlainShape, <<"none", "declares", "ends">>)
SizedForm    == Form(SizedShape,
                     <<"none", "none", "use", "none", "declares", "none", "use", "ends">>)
CallForm     == Form(CallShape, <<"use", "none", "use", "none", "none">>)
LoopForm     == Form(LoopShape, <<"none", "none", "declares", "none", "use", "none", "loop">>)
BlockForm    == Form(<<"leftBrace">>, <<"block">>)
CloseForm    == Form(<<"rightBrace">>, <<"leaves">>)

OneWordForm(w)     == Form(<<w, "leftBrace">>, <<"none", w>>)
TwoWordForm(v, w, kind) == Form(<<v, w, "leftBrace">>, <<"none", "none", kind>>)
OneWordForms == {OneWordForm(w) : w \in {"functions", "data", "parameters", "model"}}
TwoWordForms == {TwoWordForm("transformed", "data", "transformedData"),
                 TwoWordForm("transformed", "parameters", "transformedParameters"),
                 TwoWordForm("generated", "quantities", "generatedQuantities")}
HeaderForms  == OneWordForms \cup TwoWordForms
InnerForms   == {PlainForm, SizedForm, CallForm, LoopForm, BlockForm}
Forms        == HeaderForms \cup {FunctionForm, CloseForm} \cup InnerForms

Brackets == {"leftParen", "leftBracket"}
Blockers == {"rightParen", "rightBracket"}

(* A form has at most one pair of round or square brackets, at o and c, and   *)
(* declares at most one name, at d. It ends with its only boundary.           *)
WellFormed(form, o, c, d) ==
  LET n == Len(form.kinds)
  IN /\ form.kinds \in Shapes /\ n \in 1 .. 8 /\ Len(form.roles) = n
     /\ form.kinds[n] \in Boundaries
     /\ \A k \in 1 .. n - 1 : form.kinds[k] \notin Boundaries
     /\ o \in 0 .. n /\ c \in 0 .. n /\ d \in 0 .. n
     /\ \A k \in 1 .. n : /\ form.kinds[k] \in Brackets <=> k = o
                          /\ form.kinds[k] \in Blockers <=> k = c
                          /\ form.roles[k] = "declares" <=> k = d
     /\ (o = 0 /\ c = 0) \/ (0 < o /\ o < c /\ c < n /\ form.kinds[o] = MatchingOpen(form.kinds[c]))
     /\ \A k \in 1 .. n : /\ form.roles[k] \in Owners <=> form.kinds[k] = "leftBrace"
                          /\ form.roles[k] = "leaves" <=> form.kinds[k] = "rightBrace"
                          /\ form.kinds[k] = "rightBrace" => k = 1
                          /\ form.roles[k] \in {"use", "declares", "names"} => form.kinds[k] = "identifier"
                          /\ form.roles[k] = "ends" => form.kinds[k] = "semicolon" /\ d # 0
                          /\ form.roles[k] = "names" => k < d
                          /\ form.roles[k] = "none" /\ form.kinds[k] = "semicolon" => d = 0

(* The roles of tokens *)
LEMMA RolesAre ==
  /\ \A kinds, roles : Form(kinds, roles).kinds = kinds /\ Form(kinds, roles).roles = roles
  /\ Len(FunctionForm.roles) = 7 /\ FunctionForm.roles[1] = "none" /\ FunctionForm.roles[2] = "names"
  /\ FunctionForm.roles[3] = "none" /\ FunctionForm.roles[4] = "none"
  /\ FunctionForm.roles[5] = "declares" /\ FunctionForm.roles[6] = "none"
  /\ FunctionForm.roles[7] = "function"
  /\ Len(PlainForm.roles) = 3 /\ PlainForm.roles[1] = "none" /\ PlainForm.roles[2] = "declares"
  /\ PlainForm.roles[3] = "ends"
  /\ Len(SizedForm.roles) = 8 /\ SizedForm.roles[1] = "none" /\ SizedForm.roles[2] = "none"
  /\ SizedForm.roles[3] = "use" /\ SizedForm.roles[4] = "none" /\ SizedForm.roles[5] = "declares"
  /\ SizedForm.roles[6] = "none" /\ SizedForm.roles[7] = "use" /\ SizedForm.roles[8] = "ends"
  /\ Len(CallForm.roles) = 5 /\ CallForm.roles[1] = "use" /\ CallForm.roles[2] = "none"
  /\ CallForm.roles[3] = "use" /\ CallForm.roles[4] = "none" /\ CallForm.roles[5] = "none"
  /\ Len(LoopForm.roles) = 7 /\ LoopForm.roles[1] = "none" /\ LoopForm.roles[2] = "none"
  /\ LoopForm.roles[3] = "declares" /\ LoopForm.roles[4] = "none" /\ LoopForm.roles[5] = "use"
  /\ LoopForm.roles[6] = "none" /\ LoopForm.roles[7] = "loop"
  /\ Len(BlockForm.roles) = 1 /\ BlockForm.roles[1] = "block"
  /\ Len(BlockForm.kinds) = 1 /\ BlockForm.kinds[1] = "leftBrace"
  /\ Len(CloseForm.roles) = 1 /\ CloseForm.roles[1] = "leaves"
  /\ Len(CloseForm.kinds) = 1 /\ CloseForm.kinds[1] = "rightBrace"
  /\ FunctionForm.kinds = FunctionShape /\ PlainForm.kinds = PlainShape /\ SizedForm.kinds = SizedShape
  /\ CallForm.kinds = CallShape /\ LoopForm.kinds = LoopShape
BY DEF Form, FunctionForm, PlainForm, SizedForm, CallForm, LoopForm, BlockForm, CloseForm

(* The kinds of program blocks *)
LEMMA BlockKindsAre ==
  BlockKinds = {"functions", "data", "parameters", "model", "transformedData",
                "transformedParameters", "generatedQuantities"}
<1> DEFINE one == {[kind |-> w, words |-> <<w>>] : w \in {"functions", "data", "parameters", "model"}}
           two == {[kind |-> "transformedData", words |-> <<"transformed", "data">>],
                   [kind |-> "transformedParameters", words |-> <<"transformed", "parameters">>],
                   [kind |-> "generatedQuantities", words |-> <<"generated", "quantities">>]}
<1>1. BlockHeaders = one \cup two
  BY DEF BlockHeaders
<1>2. {h.kind : h \in one} = {"functions", "data", "parameters", "model"}
  <2> DEFINE words == {"functions", "data", "parameters", "model"}
             H(w) == [kind |-> w, words |-> <<w>>]
  <2>1. \A w : H(w).kind = w
    OBVIOUS
  <2>2. one = {H(w) : w \in words}
    OBVIOUS
  <2> HIDE DEF words, H, one
  <2>3. {h.kind : h \in one} = words
    BY <2>1, <2>2
  <2> QED BY <2>3 DEF words
<1>3. {h.kind : h \in two} = {"transformedData", "transformedParameters", "generatedQuantities"}
  OBVIOUS
<1>4. BlockKinds = {h.kind : h \in one} \cup {h.kind : h \in two}
  <2> HIDE DEF one, two
  <2> QED BY <1>1 DEF BlockKinds
<1> QED BY <1>2, <1>3, <1>4

(* The forms of block headers, one by one *)
LEMMA HeaderFormsAre ==
  ASSUME NEW form \in HeaderForms
  PROVE  LET n == Len(form.kinds)
         IN /\ form.kinds \in Shapes /\ n \in {2, 3} /\ Len(form.roles) = n
            /\ form.kinds[n] = "leftBrace" /\ form.roles[n] \in BlockKinds
            /\ \A k \in 1 .. n - 1 : form.kinds[k] \in BlockWords /\ form.roles[k] = "none"
<1>0. HeaderShapes \subseteq Shapes
  BY DEF Shapes
<1>1. CASE form \in OneWordForms
  <2>1. PICK w \in {"functions", "data", "parameters", "model"} : form = OneWordForm(w)
    BY <1>1 DEF OneWordForms
  <2>2. form.kinds = <<w, "leftBrace">> /\ form.roles = <<"none", w>>
    BY <2>1, RolesAre DEF OneWordForm
  <2>3. /\ Len(form.kinds) = 2 /\ Len(form.roles) = 2 /\ form.kinds[2] = "leftBrace"
        /\ form.kinds[1] = w /\ form.roles[1] = "none" /\ form.roles[2] = w
        /\ \A k \in 1 .. 2 - 1 : k = 1
    BY <2>2
  <2>4. w \in BlockKinds /\ w \in BlockWords
    BY BlockKindsAre DEF BlockWords
  <2>5. form.kinds \in HeaderShapes
    <3> DEFINE one == {<<u, "leftBrace">> : u \in {"functions", "data", "parameters", "model"}}
    <3>1. one \subseteq HeaderShapes
      BY DEF HeaderShapes
    <3>2. <<w, "leftBrace">> \in one
      BY Zenon
    <3> HIDE DEF one
    <3> QED BY <2>2, <3>1, <3>2
  <2> QED BY <1>0, <2>3, <2>4, <2>5
<1>2. CASE form \in TwoWordForms
  <2>1. PICK v \in {"transformed", "generated"}, w \in {"data", "parameters", "quantities"},
             kind \in BlockKinds : form = TwoWordForm(v, w, kind)
    BY <1>2, BlockKindsAre DEF TwoWordForms
  <2>2. form.kinds = <<v, w, "leftBrace">> /\ form.roles = <<"none", "none", kind>>
    BY <2>1, RolesAre DEF TwoWordForm
  <2>3. /\ Len(form.kinds) = 3 /\ Len(form.roles) = 3 /\ form.kinds[3] = "leftBrace"
        /\ form.kinds[1] = v /\ form.kinds[2] = w
        /\ form.roles[1] = "none" /\ form.roles[2] = "none" /\ form.roles[3] = kind
        /\ \A k \in 1 .. 3 - 1 : k = 1 \/ k = 2
    BY <2>2
  <2>4. v \in BlockWords /\ w \in BlockWords
    BY DEF BlockWords
  <2>5. form.kinds \in HeaderShapes
    BY <2>2 DEF HeaderShapes
  <2> QED BY <1>0, <2>3, <2>4, <2>5
<1> QED BY <1>1, <1>2 DEF HeaderForms

(* Every form is well formed. *)
LEMMA FormsAre ==
  ASSUME NEW form \in Forms
  PROVE  \E o, c, d : WellFormed(form, o, c, d)
<1>0. /\ Brackets = {"leftParen", "leftBracket"} /\ Blockers = {"rightParen", "rightBracket"}
      /\ Boundaries = {"leftBrace", "rightBrace", "semicolon"}
      /\ MatchingOpen("rightParen") = "leftParen" /\ MatchingOpen("rightBracket") = "leftBracket"
      /\ {FunctionShape, PlainShape, SizedShape, CallShape, LoopShape, <<"leftBrace">>, <<"rightBrace">>}
           \subseteq Shapes
  BY DEF Brackets, Blockers, Boundaries, MatchingOpen, Shapes
<1>1. CASE form \in HeaderForms
  <2> DEFINE n == Len(form.kinds)
  <2>1. /\ form.kinds \in Shapes /\ n \in {2, 3} /\ Len(form.roles) = n
        /\ form.kinds[n] = "leftBrace" /\ form.roles[n] \in BlockKinds
        /\ \A k \in 1 .. n - 1 : form.kinds[k] \in BlockWords /\ form.roles[k] = "none"
    BY <1>1, HeaderFormsAre
  <2>2. BlockWords \cap (Brackets \cup Blockers \cup Boundaries \cup {"identifier"}) = {}
        /\ BlockKinds \subseteq Owners
    BY <1>0, BlockKindsAre DEF BlockWords, Owners
  <2>3. \A owner \in Owners : owner \notin {"none", "use", "declares", "names", "ends", "leaves"}
    BY DEF Owners
  <2> HIDE DEF n
  <2>4. \A k \in 1 .. n : k = n \/ k \in 1 .. n - 1
    BY <2>1
  <2>5. WellFormed(form, 0, 0, 0)
    <3>1. /\ n \in 1 .. 8 /\ 0 \in 0 .. n /\ form.kinds[n] \in Boundaries
      BY <1>0, <2>1
    <3>2. \A k \in 1 .. n - 1 : form.kinds[k] \notin Boundaries
      BY <2>1, <2>2
    <3>3. ASSUME NEW k \in 1 .. n
          PROVE  /\ form.kinds[k] \notin Brackets /\ form.kinds[k] \notin Blockers
                 /\ form.roles[k] # "declares" /\ k # 0
                 /\ form.roles[k] \in Owners <=> form.kinds[k] = "leftBrace"
                 /\ form.roles[k] # "leaves" /\ form.kinds[k] # "rightBrace"
                 /\ form.roles[k] \notin {"use", "declares", "names", "ends"}
                 /\ form.kinds[k] # "semicolon"
      <4>1. CASE k = n
        <5>1. "leftBrace" \notin Brackets \cup Blockers
          BY <1>0
        <5> QED BY <2>1, <2>2, <2>3, <4>1, <5>1
      <4>2. CASE k \in 1 .. n - 1
        <5>1. /\ form.kinds[k] \notin Brackets /\ form.kinds[k] \notin Blockers
              /\ form.kinds[k] \notin Boundaries
          BY <2>1, <2>2, <4>2
        <5>2. form.roles[k] = "none" /\ "none" \notin Owners
          BY <2>1, <2>3, <4>2
        <5> QED BY <1>0, <5>1, <5>2
      <4> QED BY <2>4, <4>1, <4>2
    <3> QED BY <2>1, <3>1, <3>2, <3>3 DEF WellFormed, n
  <2> QED BY <2>5
<1>2. CASE form = FunctionForm
  <2>1. /\ 7 \in 1 .. 8 /\ 3 \in 0 .. 7 /\ 6 \in 0 .. 7 /\ 5 \in 0 .. 7
        /\ \A k \in 1 .. 7 : k = 1 \/ k = 2 \/ k = 3 \/ k = 4 \/ k = 5 \/ k = 6 \/ k = 7
        /\ \A k \in 1 .. 7 - 1 : k = 1 \/ k = 2 \/ k = 3 \/ k = 4 \/ k = 5 \/ k = 6
    OBVIOUS
  <2>2. /\ Len(form.kinds) = 7 /\ Len(form.roles) = 7 /\ form.kinds \in Shapes
        /\ form.kinds[1] = "type" /\ form.roles[1] = "none"
        /\ form.kinds[2] = "identifier" /\ form.roles[2] = "names"
        /\ form.kinds[3] = "leftParen" /\ form.roles[3] = "none"
        /\ form.kinds[4] = "type" /\ form.roles[4] = "none"
        /\ form.kinds[5] = "identifier" /\ form.roles[5] = "declares"
        /\ form.kinds[6] = "rightParen" /\ form.roles[6] = "none"
        /\ form.kinds[7] = "leftBrace" /\ form.roles[7] = "function"
    BY <1>0, <1>2, ShapesAre, RolesAre
  <2>3. ASSUME NEW k \in 1 .. 7
        PROVE  /\ form.kinds[k] \in Brackets <=> k = 3
               /\ form.kinds[k] \in Blockers <=> k = 6
               /\ form.roles[k] = "declares" <=> k = 5
    BY <1>0, <2>1, <2>2
  <2>4. ASSUME NEW k \in 1 .. 7
        PROVE  /\ form.roles[k] \in Owners <=> form.kinds[k] = "leftBrace"
               /\ form.roles[k] = "leaves" <=> form.kinds[k] = "rightBrace"
               /\ form.kinds[k] = "rightBrace" => k = 1
               /\ form.roles[k] \in {"use", "declares", "names"} => form.kinds[k] = "identifier"
               /\ form.roles[k] = "ends" => form.kinds[k] = "semicolon" /\ 5 # 0
               /\ form.roles[k] = "names" => k < 5
               /\ form.roles[k] = "none" /\ form.kinds[k] = "semicolon" => 5 = 0
    BY <2>1, <2>2 DEF Owners
  <2>5. /\ form.kinds[7] \in Boundaries /\ \A k \in 1 .. 7 - 1 : form.kinds[k] \notin Boundaries
        /\ (3 = 0 /\ 6 = 0)
           \/ (0 < 3 /\ 3 < 6 /\ 6 < 7 /\ form.kinds[3] = MatchingOpen(form.kinds[6]))
    BY <1>0, <2>1, <2>2
  <2>6. WellFormed(form, 3, 6, 5)
    BY <2>1, <2>2, <2>3, <2>4, <2>5 DEF WellFormed
  <2> QED BY <2>6
<1>3. CASE form = PlainForm
  <2>1. /\ 3 \in 1 .. 8 /\ 0 \in 0 .. 3 /\ 2 \in 0 .. 3
        /\ \A k \in 1 .. 3 : k = 1 \/ k = 2 \/ k = 3
        /\ \A k \in 1 .. 3 - 1 : k = 1 \/ k = 2
    OBVIOUS
  <2>2. /\ Len(form.kinds) = 3 /\ Len(form.roles) = 3 /\ form.kinds \in Shapes
        /\ form.kinds[1] = "type" /\ form.roles[1] = "none"
        /\ form.kinds[2] = "identifier" /\ form.roles[2] = "declares"
        /\ form.kinds[3] = "semicolon" /\ form.roles[3] = "ends"
    BY <1>0, <1>3, ShapesAre, RolesAre
  <2>3. ASSUME NEW k \in 1 .. 3
        PROVE  /\ form.kinds[k] \in Brackets <=> k = 0
               /\ form.kinds[k] \in Blockers <=> k = 0
               /\ form.roles[k] = "declares" <=> k = 2
    BY <1>0, <2>1, <2>2
  <2>4. ASSUME NEW k \in 1 .. 3
        PROVE  /\ form.roles[k] \in Owners <=> form.kinds[k] = "leftBrace"
               /\ form.roles[k] = "leaves" <=> form.kinds[k] = "rightBrace"
               /\ form.kinds[k] = "rightBrace" => k = 1
               /\ form.roles[k] \in {"use", "declares", "names"} => form.kinds[k] = "identifier"
               /\ form.roles[k] = "ends" => form.kinds[k] = "semicolon" /\ 2 # 0
               /\ form.roles[k] = "names" => k < 2
               /\ form.roles[k] = "none" /\ form.kinds[k] = "semicolon" => 2 = 0
    BY <2>1, <2>2 DEF Owners
  <2>5. /\ form.kinds[3] \in Boundaries /\ \A k \in 1 .. 3 - 1 : form.kinds[k] \notin Boundaries
        /\ (0 = 0 /\ 0 = 0)
           \/ (0 < 0 /\ 0 < 0 /\ 0 < 3 /\ form.kinds[0] = MatchingOpen(form.kinds[0]))
    BY <1>0, <2>1, <2>2
  <2>6. WellFormed(form, 0, 0, 2)
    BY <2>1, <2>2, <2>3, <2>4, <2>5 DEF WellFormed
  <2> QED BY <2>6
<1>4. CASE form = SizedForm
  <2>1. /\ 8 \in 1 .. 8 /\ 2 \in 0 .. 8 /\ 4 \in 0 .. 8 /\ 5 \in 0 .. 8
        /\ \A k \in 1 .. 8 : k = 1 \/ k = 2 \/ k = 3 \/ k = 4 \/ k = 5 \/ k = 6 \/ k = 7 \/ k = 8
        /\ \A k \in 1 .. 8 - 1 : k = 1 \/ k = 2 \/ k = 3 \/ k = 4 \/ k = 5 \/ k = 6 \/ k = 7
    OBVIOUS
  <2>2. /\ Len(form.kinds) = 8 /\ Len(form.roles) = 8 /\ form.kinds \in Shapes
        /\ form.kinds[1] = "type" /\ form.roles[1] = "none"
        /\ form.kinds[2] = "leftBracket" /\ form.roles[2] = "none"
        /\ form.kinds[3] = "identifier" /\ form.roles[3] = "use"
        /\ form.kinds[4] = "rightBracket" /\ form.roles[4] = "none"
        /\ form.kinds[5] = "identifier" /\ form.roles[5] = "declares"
        /\ form.kinds[6] = "assign" /\ form.roles[6] = "none"
        /\ form.kinds[7] = "identifier" /\ form.roles[7] = "use"
        /\ form.kinds[8] = "semicolon" /\ form.roles[8] = "ends"
    BY <1>0, <1>4, ShapesAre, RolesAre
  <2>3. ASSUME NEW k \in 1 .. 8
        PROVE  /\ form.kinds[k] \in Brackets <=> k = 2
               /\ form.kinds[k] \in Blockers <=> k = 4
               /\ form.roles[k] = "declares" <=> k = 5
    BY <1>0, <2>1, <2>2
  <2>4. ASSUME NEW k \in 1 .. 8
        PROVE  /\ form.roles[k] \in Owners <=> form.kinds[k] = "leftBrace"
               /\ form.roles[k] = "leaves" <=> form.kinds[k] = "rightBrace"
               /\ form.kinds[k] = "rightBrace" => k = 1
               /\ form.roles[k] \in {"use", "declares", "names"} => form.kinds[k] = "identifier"
               /\ form.roles[k] = "ends" => form.kinds[k] = "semicolon" /\ 5 # 0
               /\ form.roles[k] = "names" => k < 5
               /\ form.roles[k] = "none" /\ form.kinds[k] = "semicolon" => 5 = 0
    BY <2>1, <2>2 DEF Owners
  <2>5. /\ form.kinds[8] \in Boundaries /\ \A k \in 1 .. 8 - 1 : form.kinds[k] \notin Boundaries
        /\ (2 = 0 /\ 4 = 0)
           \/ (0 < 2 /\ 2 < 4 /\ 4 < 8 /\ form.kinds[2] = MatchingOpen(form.kinds[4]))
    BY <1>0, <2>1, <2>2
  <2>6. WellFormed(form, 2, 4, 5)
    BY <2>1, <2>2, <2>3, <2>4, <2>5 DEF WellFormed
  <2> QED BY <2>6
<1>5. CASE form = CallForm
  <2>1. /\ 5 \in 1 .. 8 /\ 2 \in 0 .. 5 /\ 4 \in 0 .. 5 /\ 0 \in 0 .. 5
        /\ \A k \in 1 .. 5 : k = 1 \/ k = 2 \/ k = 3 \/ k = 4 \/ k = 5
        /\ \A k \in 1 .. 5 - 1 : k = 1 \/ k = 2 \/ k = 3 \/ k = 4
    OBVIOUS
  <2>2. /\ Len(form.kinds) = 5 /\ Len(form.roles) = 5 /\ form.kinds \in Shapes
        /\ form.kinds[1] = "identifier" /\ form.roles[1] = "use"
        /\ form.kinds[2] = "leftParen" /\ form.roles[2] = "none"
        /\ form.kinds[3] = "identifier" /\ form.roles[3] = "use"
        /\ form.kinds[4] = "rightParen" /\ form.roles[4] = "none"
        /\ form.kinds[5] = "semicolon" /\ form.roles[5] = "none"
    BY <1>0, <1>5, ShapesAre, RolesAre
  <2>3. ASSUME NEW k \in 1 .. 5
        PROVE  /\ form.kinds[k] \in Brackets <=> k = 2
               /\ form.kinds[k] \in Blockers <=> k = 4
               /\ form.roles[k] = "declares" <=> k = 0
    BY <1>0, <2>1, <2>2
  <2>4. ASSUME NEW k \in 1 .. 5
        PROVE  /\ form.roles[k] \in Owners <=> form.kinds[k] = "leftBrace"
               /\ form.roles[k] = "leaves" <=> form.kinds[k] = "rightBrace"
               /\ form.kinds[k] = "rightBrace" => k = 1
               /\ form.roles[k] \in {"use", "declares", "names"} => form.kinds[k] = "identifier"
               /\ form.roles[k] = "ends" => form.kinds[k] = "semicolon" /\ 0 # 0
               /\ form.roles[k] = "names" => k < 0
               /\ form.roles[k] = "none" /\ form.kinds[k] = "semicolon" => 0 = 0
    BY <2>1, <2>2 DEF Owners
  <2>5. /\ form.kinds[5] \in Boundaries /\ \A k \in 1 .. 5 - 1 : form.kinds[k] \notin Boundaries
        /\ (2 = 0 /\ 4 = 0)
           \/ (0 < 2 /\ 2 < 4 /\ 4 < 5 /\ form.kinds[2] = MatchingOpen(form.kinds[4]))
    BY <1>0, <2>1, <2>2
  <2>6. WellFormed(form, 2, 4, 0)
    BY <2>1, <2>2, <2>3, <2>4, <2>5 DEF WellFormed
  <2> QED BY <2>6
<1>6. CASE form = LoopForm
  <2>1. /\ 7 \in 1 .. 8 /\ 2 \in 0 .. 7 /\ 6 \in 0 .. 7 /\ 3 \in 0 .. 7
        /\ \A k \in 1 .. 7 : k = 1 \/ k = 2 \/ k = 3 \/ k = 4 \/ k = 5 \/ k = 6 \/ k = 7
        /\ \A k \in 1 .. 7 - 1 : k = 1 \/ k = 2 \/ k = 3 \/ k = 4 \/ k = 5 \/ k = 6
    OBVIOUS
  <2>2. /\ Len(form.kinds) = 7 /\ Len(form.roles) = 7 /\ form.kinds \in Shapes
        /\ form.kinds[1] = "for" /\ form.roles[1] = "none"
        /\ form.kinds[2] = "leftParen" /\ form.roles[2] = "none"
        /\ form.kinds[3] = "identifier" /\ form.roles[3] = "declares"
        /\ form.kinds[4] = "in" /\ form.roles[4] = "none"
        /\ form.kinds[5] = "identifier" /\ form.roles[5] = "use"
        /\ form.kinds[6] = "rightParen" /\ form.roles[6] = "none"
        /\ form.kinds[7] = "leftBrace" /\ form.roles[7] = "loop"
    BY <1>0, <1>6, ShapesAre, RolesAre
  <2>3. ASSUME NEW k \in 1 .. 7
        PROVE  /\ form.kinds[k] \in Brackets <=> k = 2
               /\ form.kinds[k] \in Blockers <=> k = 6
               /\ form.roles[k] = "declares" <=> k = 3
    BY <1>0, <2>1, <2>2
  <2>4. ASSUME NEW k \in 1 .. 7
        PROVE  /\ form.roles[k] \in Owners <=> form.kinds[k] = "leftBrace"
               /\ form.roles[k] = "leaves" <=> form.kinds[k] = "rightBrace"
               /\ form.kinds[k] = "rightBrace" => k = 1
               /\ form.roles[k] \in {"use", "declares", "names"} => form.kinds[k] = "identifier"
               /\ form.roles[k] = "ends" => form.kinds[k] = "semicolon" /\ 3 # 0
               /\ form.roles[k] = "names" => k < 3
               /\ form.roles[k] = "none" /\ form.kinds[k] = "semicolon" => 3 = 0
    BY <2>1, <2>2 DEF Owners
  <2>5. /\ form.kinds[7] \in Boundaries /\ \A k \in 1 .. 7 - 1 : form.kinds[k] \notin Boundaries
        /\ (2 = 0 /\ 6 = 0)
           \/ (0 < 2 /\ 2 < 6 /\ 6 < 7 /\ form.kinds[2] = MatchingOpen(form.kinds[6]))
    BY <1>0, <2>1, <2>2
  <2>6. WellFormed(form, 2, 6, 3)
    BY <2>1, <2>2, <2>3, <2>4, <2>5 DEF WellFormed
  <2> QED BY <2>6
<1>7. CASE form \in {BlockForm, CloseForm}
  <2>1. /\ 1 \in 1 .. 8 /\ 0 \in 0 .. 1 /\ (\A k \in 1 .. 1 : k = 1) /\ 1 .. 1 - 1 = {}
    OBVIOUS
  <2>2. BlockForm.kinds \in Shapes /\ CloseForm.kinds \in Shapes
    BY <1>0, RolesAre DEF BlockForm, CloseForm
  <2>3. /\ Len(form.kinds) = 1 /\ Len(form.roles) = 1 /\ form.kinds \in Shapes
        /\ \/ form.kinds[1] = "leftBrace" /\ form.roles[1] = "block"
           \/ form.kinds[1] = "rightBrace" /\ form.roles[1] = "leaves"
    BY <1>7, <2>2, RolesAre
  <2>4. ASSUME NEW k \in 1 .. 1
        PROVE  /\ form.kinds[k] \notin Brackets /\ form.kinds[k] \notin Blockers
               /\ form.roles[k] # "declares" /\ k # 0
               /\ form.roles[k] \in Owners <=> form.kinds[k] = "leftBrace"
               /\ form.roles[k] = "leaves" <=> form.kinds[k] = "rightBrace"
               /\ form.roles[k] \notin {"use", "declares", "names", "ends", "none"}
               /\ k = 1 /\ form.kinds[k] \in Boundaries
    BY <1>0, <2>1, <2>3 DEF Owners
  <2>5. WellFormed(form, 0, 0, 0)
    BY <2>1, <2>3, <2>4 DEF WellFormed
  <2> QED BY <2>5
<1> QED BY <1>1, <1>2, <1>3, <1>4, <1>5, <1>6, <1>7 DEF Forms, InnerForms

-----------------------------------------------------------------------------
(* What is written has one of the forms, and stands where its author may    *)
(* write it.                                                                *)

Spells2(t, kind, role) == t.kind = kind /\ t.role = role

Spelled(p, form) ==
  /\ Len(p) = Len(form.kinds)
  /\ \A k \in 1 .. Len(form.kinds) : Spells2(p[k], form.kinds[k], form.roles[k])

(* owner is that of the innermost scope that is open, before the blocks whose *)
(* braces are in the text.                                                    *)
Granted(form, owner, open, before) ==
  \/ /\ form \in HeaderForms /\ owner = "program"
     /\ \A role \in before \cap BlockKinds : Rank(role) < Rank(form.roles[Len(form.roles)])
  \/ form = FunctionForm /\ owner = "functions"
  \/ form = CloseForm /\ open
  \/ form \in InnerForms /\ owner \notin {"program", "functions"}

(* What the constructors of tokens put together *)
LEMMA TokensAre ==
  /\ \A kind, role : Spells2(T(kind, role), kind, role)
  /\ \A kind : Spells2(Plain(kind), kind, "none")
  /\ \A role : Spells2(Open(role), "leftBrace", role)
  /\ \A x : /\ Spells2(Use(x), "identifier", "use")
            /\ Spells2(Declare(x), "identifier", "declares")
            /\ Spells2(Name(x), "identifier", "names")
<1>2. \A kind, role : Spells2(T(kind, role), kind, role)
  BY Zenon DEF Spells2, T
<1>3. \A kind : Spells2(Plain(kind), kind, "none")
  BY <1>2, Zenon DEF Plain
<1>4. \A role : Spells2(Open(role), "leftBrace", role)
  BY <1>2, Zenon DEF Open
<1>5. ASSUME NEW x
      PROVE  /\ Spells2(Use(x), "identifier", "use") /\ Spells2(Declare(x), "identifier", "declares")
             /\ Spells2(Name(x), "identifier", "names")
  BY Zenon DEF Spells2, Use, Declare, Name
<1> QED BY <1>2, <1>3, <1>4, <1>5

(* A block header is spelled as one of its forms. *)
LEMMA HeadersAreFormed ==
  ASSUME NEW h \in BlockHeaders
  PROVE  \E form \in HeaderForms : /\ Spelled(BlockPhrase(h), form)
                                   /\ form.roles[Len(form.roles)] = h.kind
<1> DEFINE words == [k \in DOMAIN h.words |-> Plain(h.words[k])]
           o == Open(h.kind)
           p == BlockPhrase(h)
<1>1. words \in Seq(Token) /\ o \in Token /\ p = words \o <<o>>
  <2>1. \A k \in DOMAIN h.words : Plain(h.words[k]) \in Token
    BY HeadersAreWords, PlainTokens, Vocabulary
  <2>2. Open(h.kind) \in Token
    BY HeadersAreWords, PlainTokens, Vocabulary DEF Open
  <2> QED BY <2>1, <2>2, HeadersAreWords DEF BlockPhrase
<1>2. Len(p) = Len(words) + 1 /\ p[Len(words) + 1] = o
      /\ \A k \in 1 .. Len(words) : p[k] = words[k]
  <2> HIDE DEF words, o, p
  <2>1. /\ Len(words \o <<o>>) = Len(words) + 1 /\ (words \o <<o>>)[Len(words) + 1] = o
        /\ \A k \in 1 .. Len(words) : (words \o <<o>>)[k] = words[k]
    BY <1>1, OneMore
  <2> QED BY <1>1, <2>1
<1>3. ASSUME NEW w \in {"functions", "data", "parameters", "model"}, h.kind = w, h.words = <<w>>
      PROVE  \E form \in HeaderForms : Spelled(p, form) /\ form.roles[Len(form.roles)] = h.kind
  <2>1. Len(words) = 1 /\ words[1] = Plain(w)
    <3>1. DOMAIN h.words = 1 .. 1 /\ h.words[1] = w /\ 1 \in 1 .. 1
      BY <1>3
    <3>2. DOMAIN words = 1 .. 1 /\ words[1] = Plain(w)
      BY <3>1
    <3> HIDE DEF words
    <3> QED BY <1>1, <3>2
  <2> HIDE DEF words, p
  <2>2. Len(p) = 2 /\ p[1] = Plain(w) /\ p[2] = o
    <3>1. 1 \in 1 .. 1 /\ 1 + 1 = 2
      OBVIOUS
    <3> HIDE DEF o
    <3> QED BY <1>2, <2>1, <3>1
  <2> DEFINE form == OneWordForm(w)
  <2>3. form.kinds = <<w, "leftBrace">> /\ form.roles = <<"none", w>>
    BY RolesAre DEF OneWordForm
  <2>4. form \in HeaderForms
    <3> DEFINE ws == {"functions", "data", "parameters", "model"}
    <3>1. w \in ws
      OBVIOUS
    <3>2. OneWordForms = {OneWordForm(u) : u \in ws}
      BY DEF OneWordForms
    <3> HIDE DEF ws
    <3>3. OneWordForm(w) \in OneWordForms
      BY <3>1, <3>2
    <3> QED BY <3>3 DEF HeaderForms
  <2> HIDE DEF form
  <2>5. /\ Len(form.kinds) = 2 /\ Len(form.roles) = 2 /\ form.kinds[1] = w /\ form.roles[1] = "none"
        /\ form.kinds[2] = "leftBrace" /\ form.roles[2] = w /\ \A k \in 1 .. 2 : k = 1 \/ k = 2
    BY <2>3
  <2>6. Spells2(p[1], form.kinds[1], form.roles[1]) /\ Spells2(p[2], form.kinds[2], form.roles[2])
    BY <1>3, <2>2, <2>5, TokensAre
  <2>7. Spelled(p, form) /\ form.roles[Len(form.roles)] = h.kind
    BY <1>3, <2>2, <2>5, <2>6 DEF Spelled
  <2> QED BY <2>4, <2>7
<1>4. ASSUME NEW v, NEW w, v \in BlockWords, w \in BlockWords, h.words = <<v, w>>,
             TwoWordForm(v, w, h.kind) \in TwoWordForms
      PROVE  \E form \in HeaderForms : Spelled(p, form) /\ form.roles[Len(form.roles)] = h.kind
  <2>1. Len(words) = 2 /\ words[1] = Plain(v) /\ words[2] = Plain(w)
    <3>1. /\ DOMAIN h.words = 1 .. 2 /\ h.words[1] = v /\ h.words[2] = w
          /\ 1 \in 1 .. 2 /\ 2 \in 1 .. 2
      BY <1>4
    <3>2. DOMAIN words = 1 .. 2 /\ words[1] = Plain(v) /\ words[2] = Plain(w)
      BY <3>1
    <3> HIDE DEF words
    <3> QED BY <1>1, <3>2
  <2> HIDE DEF words, p
  <2>2. Len(p) = 3 /\ p[1] = Plain(v) /\ p[2] = Plain(w) /\ p[3] = o
    <3>1. 1 \in 1 .. 2 /\ 2 \in 1 .. 2 /\ 2 + 1 = 3
      OBVIOUS
    <3> HIDE DEF o
    <3> QED BY <1>2, <2>1, <3>1
  <2> DEFINE form == TwoWordForm(v, w, h.kind)
  <2>3. form.kinds = <<v, w, "leftBrace">> /\ form.roles = <<"none", "none", h.kind>>
    BY RolesAre DEF TwoWordForm
  <2>4. form \in HeaderForms
    BY <1>4 DEF HeaderForms
  <2> HIDE DEF form
  <2>5. /\ Len(form.kinds) = 3 /\ Len(form.roles) = 3 /\ form.kinds[1] = v /\ form.roles[1] = "none"
        /\ form.kinds[2] = w /\ form.roles[2] = "none"
        /\ form.kinds[3] = "leftBrace" /\ form.roles[3] = h.kind
        /\ \A k \in 1 .. 3 : k = 1 \/ k = 2 \/ k = 3
    BY <2>3
  <2>6. /\ Spells2(p[1], form.kinds[1], form.roles[1]) /\ Spells2(p[2], form.kinds[2], form.roles[2])
        /\ Spells2(p[3], form.kinds[3], form.roles[3])
    BY <2>2, <2>5, TokensAre
  <2>7. Spelled(p, form) /\ form.roles[Len(form.roles)] = h.kind
    BY <2>2, <2>5, <2>6 DEF Spelled
  <2> QED BY <2>4, <2>7
<1>5. \/ \E w \in {"functions", "data", "parameters", "model"} : h.kind = w /\ h.words = <<w>>
      \/ h.kind = "transformedData" /\ h.words = <<"transformed", "data">>
      \/ h.kind = "transformedParameters" /\ h.words = <<"transformed", "parameters">>
      \/ h.kind = "generatedQuantities" /\ h.words = <<"generated", "quantities">>
  BY DEF BlockHeaders
<1>6. /\ TwoWordForm("transformed", "data", "transformedData") \in TwoWordForms
      /\ TwoWordForm("transformed", "parameters", "transformedParameters") \in TwoWordForms
      /\ TwoWordForm("generated", "quantities", "generatedQuantities") \in TwoWordForms
      /\ {"transformed", "generated", "data", "parameters", "quantities"} \subseteq BlockWords
  BY DEF TwoWordForms, BlockWords
<1> HIDE DEF p
<1>7. \E form \in HeaderForms : Spelled(p, form) /\ form.roles[Len(form.roles)] = h.kind
  <2> HIDE DEF words, o
  <2> QED BY <1>3, <1>4, <1>5, <1>6
<1> QED BY <1>7 DEF p

(* A statement is spelled as one of the inner forms. *)
LEMMA StatementsAreFormed ==
  ASSUME NEW f, NEW x
  PROVE  /\ Spelled(FunctionPhrase(f, x),
                    FunctionForm)
         /\ Spelled(<<Plain("type"), Declare(x), T("semicolon", "ends")>>,
                    PlainForm)
         /\ Spelled(<<Plain("type"), Plain("leftBracket"), Use(x), Plain("rightBracket"),
                      Declare(x), Plain("assign"), Use(x), T("semicolon", "ends")>>,
                    SizedForm)
         /\ Spelled(<<Use(f), Plain("leftParen"), Use(x), Plain("rightParen"), Plain("semicolon")>>,
                    CallForm)
         /\ Spelled(LoopHead(x) \o <<Plain("rightParen"), Open("loop")>>,
                    LoopForm)
         /\ Spelled(<<Open("block")>>,
                    BlockForm)
         /\ Spelled(Close,
                    CloseForm)
<1>1. Spelled(FunctionPhrase(f, x),
              FunctionForm)
  <2> DEFINE p == FunctionPhrase(f, x)
             form == FunctionForm
  <2>1. /\ Len(p) = 7 /\ p[1] = Plain("type")
        /\ p[2] = Name(f) /\ p[3] = Plain("leftParen")
        /\ p[4] = Plain("type") /\ p[5] = Declare(x)
        /\ p[6] = Plain("rightParen") /\ p[7] = Open("function")
    BY DEF FunctionPhrase
  <2>2. /\ Len(form.kinds) = 7
        /\ form.kinds[1] = "type" /\ form.roles[1] = "none"
        /\ form.kinds[2] = "identifier" /\ form.roles[2] = "names"
        /\ form.kinds[3] = "leftParen" /\ form.roles[3] = "none"
        /\ form.kinds[4] = "type" /\ form.roles[4] = "none"
        /\ form.kinds[5] = "identifier" /\ form.roles[5] = "declares"
        /\ form.kinds[6] = "rightParen" /\ form.roles[6] = "none"
        /\ form.kinds[7] = "leftBrace" /\ form.roles[7] = "function"
        /\ \A k \in 1 .. 7 : k = 1 \/ k = 2 \/ k = 3 \/ k = 4 \/ k = 5 \/ k = 6 \/ k = 7
    BY ShapesAre, RolesAre
  <2> HIDE DEF p, form
  <2>3. /\ Spells2(p[1], form.kinds[1], form.roles[1])
        /\ Spells2(p[2], form.kinds[2], form.roles[2])
        /\ Spells2(p[3], form.kinds[3], form.roles[3])
        /\ Spells2(p[4], form.kinds[4], form.roles[4])
        /\ Spells2(p[5], form.kinds[5], form.roles[5])
        /\ Spells2(p[6], form.kinds[6], form.roles[6])
        /\ Spells2(p[7], form.kinds[7], form.roles[7])
    BY <2>1, <2>2, TokensAre
  <2>4. Spelled(p, form)
    BY <2>1, <2>2, <2>3 DEF Spelled
  <2> QED BY <2>4 DEF p, form
<1>2. Spelled(<<Plain("type"), Declare(x), T("semicolon", "ends")>>,
              PlainForm)
  <2> DEFINE p == <<Plain("type"), Declare(x), T("semicolon", "ends")>>
             form == PlainForm
  <2>1. /\ Len(p) = 3 /\ p[1] = Plain("type")
        /\ p[2] = Declare(x) /\ p[3] = T("semicolon", "ends")
    OBVIOUS
  <2>2. /\ Len(form.kinds) = 3
        /\ form.kinds[1] = "type" /\ form.roles[1] = "none"
        /\ form.kinds[2] = "identifier" /\ form.roles[2] = "declares"
        /\ form.kinds[3] = "semicolon" /\ form.roles[3] = "ends"
        /\ \A k \in 1 .. 3 : k = 1 \/ k = 2 \/ k = 3
    BY ShapesAre, RolesAre
  <2> HIDE DEF p, form
  <2>3. /\ Spells2(p[1], form.kinds[1], form.roles[1])
        /\ Spells2(p[2], form.kinds[2], form.roles[2])
        /\ Spells2(p[3], form.kinds[3], form.roles[3])
    BY <2>1, <2>2, TokensAre
  <2>4. Spelled(p, form)
    BY <2>1, <2>2, <2>3 DEF Spelled
  <2> QED BY <2>4 DEF p, form
<1>3. Spelled(<<Plain("type"), Plain("leftBracket"), Use(x), Plain("rightBracket"),
                      Declare(x), Plain("assign"), Use(x), T("semicolon", "ends")>>,
              SizedForm)
  <2> DEFINE p == <<Plain("type"), Plain("leftBracket"), Use(x), Plain("rightBracket"),
                      Declare(x), Plain("assign"), Use(x), T("semicolon", "ends")>>
             form == SizedForm
  <2>1. /\ Len(p) = 8 /\ p[1] = Plain("type")
        /\ p[2] = Plain("leftBracket") /\ p[3] = Use(x)
        /\ p[4] = Plain("rightBracket") /\ p[5] = Declare(x)
        /\ p[6] = Plain("assign") /\ p[7] = Use(x)
        /\ p[8] = T("semicolon", "ends")
    OBVIOUS
  <2>2. /\ Len(form.kinds) = 8
        /\ form.kinds[1] = "type" /\ form.roles[1] = "none"
        /\ form.kinds[2] = "leftBracket" /\ form.roles[2] = "none"
        /\ form.kinds[3] = "identifier" /\ form.roles[3] = "use"
        /\ form.kinds[4] = "rightBracket" /\ form.roles[4] = "none"
        /\ form.kinds[5] = "identifier" /\ form.roles[5] = "declares"
        /\ form.kinds[6] = "assign" /\ form.roles[6] = "none"
        /\ form.kinds[7] = "identifier" /\ form.roles[7] = "use"
        /\ form.kinds[8] = "semicolon" /\ form.roles[8] = "ends"
        /\ \A k \in 1 .. 8 : k = 1 \/ k = 2 \/ k = 3 \/ k = 4 \/ k = 5 \/ k = 6 \/ k = 7 \/ k = 8
    BY ShapesAre, RolesAre
  <2> HIDE DEF p, form
  <2>3. /\ Spells2(p[1], form.kinds[1], form.roles[1])
        /\ Spells2(p[2], form.kinds[2], form.roles[2])
        /\ Spells2(p[3], form.kinds[3], form.roles[3])
        /\ Spells2(p[4], form.kinds[4], form.roles[4])
        /\ Spells2(p[5], form.kinds[5], form.roles[5])
        /\ Spells2(p[6], form.kinds[6], form.roles[6])
        /\ Spells2(p[7], form.kinds[7], form.roles[7])
        /\ Spells2(p[8], form.kinds[8], form.roles[8])
    BY <2>1, <2>2, TokensAre
  <2>4. Spelled(p, form)
    BY <2>1, <2>2, <2>3 DEF Spelled
  <2> QED BY <2>4 DEF p, form
<1>4. Spelled(<<Use(f), Plain("leftParen"), Use(x), Plain("rightParen"), Plain("semicolon")>>,
              CallForm)
  <2> DEFINE p == <<Use(f), Plain("leftParen"), Use(x), Plain("rightParen"), Plain("semicolon")>>
             form == CallForm
  <2>1. /\ Len(p) = 5 /\ p[1] = Use(f)
        /\ p[2] = Plain("leftParen") /\ p[3] = Use(x)
        /\ p[4] = Plain("rightParen") /\ p[5] = Plain("semicolon")
    OBVIOUS
  <2>2. /\ Len(form.kinds) = 5
        /\ form.kinds[1] = "identifier" /\ form.roles[1] = "use"
        /\ form.kinds[2] = "leftParen" /\ form.roles[2] = "none"
        /\ form.kinds[3] = "identifier" /\ form.roles[3] = "use"
        /\ form.kinds[4] = "rightParen" /\ form.roles[4] = "none"
        /\ form.kinds[5] = "semicolon" /\ form.roles[5] = "none"
        /\ \A k \in 1 .. 5 : k = 1 \/ k = 2 \/ k = 3 \/ k = 4 \/ k = 5
    BY ShapesAre, RolesAre
  <2> HIDE DEF p, form
  <2>3. /\ Spells2(p[1], form.kinds[1], form.roles[1])
        /\ Spells2(p[2], form.kinds[2], form.roles[2])
        /\ Spells2(p[3], form.kinds[3], form.roles[3])
        /\ Spells2(p[4], form.kinds[4], form.roles[4])
        /\ Spells2(p[5], form.kinds[5], form.roles[5])
    BY <2>1, <2>2, TokensAre
  <2>4. Spelled(p, form)
    BY <2>1, <2>2, <2>3 DEF Spelled
  <2> QED BY <2>4 DEF p, form
<1>5. Spelled(LoopHead(x) \o <<Plain("rightParen"), Open("loop")>>,
              LoopForm)
  <2> DEFINE p == LoopHead(x) \o <<Plain("rightParen"), Open("loop")>>
             form == LoopForm
  <2>1. /\ Len(p) = 7 /\ p[1] = Plain("for")
        /\ p[2] = Plain("leftParen") /\ p[3] = Declare(x)
        /\ p[4] = Plain("in") /\ p[5] = Use(x)
        /\ p[6] = Plain("rightParen") /\ p[7] = Open("loop")
    BY DEF LoopHead
  <2>2. /\ Len(form.kinds) = 7
        /\ form.kinds[1] = "for" /\ form.roles[1] = "none"
        /\ form.kinds[2] = "leftParen" /\ form.roles[2] = "none"
        /\ form.kinds[3] = "identifier" /\ form.roles[3] = "declares"
        /\ form.kinds[4] = "in" /\ form.roles[4] = "none"
        /\ form.kinds[5] = "identifier" /\ form.roles[5] = "use"
        /\ form.kinds[6] = "rightParen" /\ form.roles[6] = "none"
        /\ form.kinds[7] = "leftBrace" /\ form.roles[7] = "loop"
        /\ \A k \in 1 .. 7 : k = 1 \/ k = 2 \/ k = 3 \/ k = 4 \/ k = 5 \/ k = 6 \/ k = 7
    BY ShapesAre, RolesAre
  <2> HIDE DEF p, form
  <2>3. /\ Spells2(p[1], form.kinds[1], form.roles[1])
        /\ Spells2(p[2], form.kinds[2], form.roles[2])
        /\ Spells2(p[3], form.kinds[3], form.roles[3])
        /\ Spells2(p[4], form.kinds[4], form.roles[4])
        /\ Spells2(p[5], form.kinds[5], form.roles[5])
        /\ Spells2(p[6], form.kinds[6], form.roles[6])
        /\ Spells2(p[7], form.kinds[7], form.roles[7])
    BY <2>1, <2>2, TokensAre
  <2>4. Spelled(p, form)
    BY <2>1, <2>2, <2>3 DEF Spelled
  <2> QED BY <2>4 DEF p, form
<1>6. Spelled(<<Open("block")>>,
              BlockForm)
  <2> DEFINE p == <<Open("block")>>
             form == BlockForm
  <2>1. /\ Len(p) = 1 /\ p[1] = Open("block")
    OBVIOUS
  <2>2. /\ Len(form.kinds) = 1
        /\ form.kinds[1] = "leftBrace" /\ form.roles[1] = "block"
        /\ \A k \in 1 .. 1 : k = 1
    BY ShapesAre, RolesAre
  <2> HIDE DEF p, form
  <2>3. /\ Spells2(p[1], form.kinds[1], form.roles[1])
    BY <2>1, <2>2, TokensAre
  <2>4. Spelled(p, form)
    BY <2>1, <2>2, <2>3 DEF Spelled
  <2> QED BY <2>4 DEF p, form
<1>7. Spelled(Close,
              CloseForm)
  <2> DEFINE p == Close
             form == CloseForm
  <2>1. /\ Len(p) = 1 /\ p[1] = T("rightBrace", "leaves")
    BY DEF Close
  <2>2. /\ Len(form.kinds) = 1
        /\ form.kinds[1] = "rightBrace" /\ form.roles[1] = "leaves"
        /\ \A k \in 1 .. 1 : k = 1
    BY ShapesAre, RolesAre
  <2> HIDE DEF p, form
  <2>3. /\ Spells2(p[1], form.kinds[1], form.roles[1])
    BY <2>1, <2>2, TokensAre
  <2>4. Spelled(p, form)
    BY <2>1, <2>2, <2>3 DEF Spelled
  <2> QED BY <2>4 DEF p, form
<1> QED BY <1>1, <1>2, <1>3, <1>4, <1>5, <1>6, <1>7

(* Each phrase has a form, one that may stand where it is written. *)
LEMMA PhrasesAreFormed ==
  ASSUME NEW p \in Phrases, AuthorInv
  PROVE  \E form \in Forms :
           /\ Spelled(p, form)
           /\ Granted(form, Owner, Len(env) > 1, {text[i].role : i \in DOMAIN text})
<1> DEFINE open == Len(env) > 1
           before == {text[i].role : i \in DOMAIN text}
<1>0. /\ HeaderForms \subseteq Forms /\ InnerForms \subseteq Forms
      /\ FunctionForm \in Forms /\ CloseForm \in Forms
      /\ PlainForm \in InnerForms /\ SizedForm \in InnerForms /\ CallForm \in InnerForms
      /\ LoopForm \in InnerForms /\ BlockForm \in InnerForms
  BY DEF Forms, InnerForms
<1>1. ASSUME NEW h \in BlockHeaders, p = BlockPhrase(h), Owner = "program",
             \A i \in DOMAIN text : text[i].role \in BlockKinds => Rank(text[i].role) < Rank(h.kind)
      PROVE  \E form \in Forms : Spelled(p, form) /\ Granted(form, Owner, open, before)
  <2>1. PICK form \in HeaderForms : Spelled(p, form) /\ form.roles[Len(form.roles)] = h.kind
    BY <1>1, HeadersAreFormed
  <2>2. \A role \in before \cap BlockKinds : Rank(role) < Rank(h.kind)
    BY <1>1
  <2> HIDE DEF open, before
  <2> QED BY <1>0, <1>1, <2>1, <2>2 DEF Granted
<1> HIDE DEF open, before
<1>2. ASSUME NEW f \in FunctionNames, NEW x \in VariableNames, p = FunctionPhrase(f, x), Owner = "functions"
      PROVE  \E form \in Forms : Spelled(p, form) /\ Granted(form, Owner, open, before)
  BY <1>0, <1>2, StatementsAreFormed DEF Granted
<1>3. ASSUME p = Close, open
      PROVE  \E form \in Forms : Spelled(p, form) /\ Granted(form, Owner, open, before)
  BY <1>0, <1>3, StatementsAreFormed DEF Granted
<1>4. ASSUME NEW form \in InnerForms, Spelled(p, form), Owner \notin {"program", "functions"}
      PROVE  \E fm \in Forms : Spelled(p, fm) /\ Granted(fm, Owner, open, before)
  BY <1>0, <1>4 DEF Granted
<1>5. ASSUME NEW d \in Declarations PROVE \E form \in InnerForms : Spelled(d, form)
  <2>1. \E x \in VariableNames :
          \/ d = <<Plain("type"), Declare(x), T("semicolon", "ends")>>
          \/ d = <<Plain("type"), Plain("leftBracket"), Use(x), Plain("rightBracket"),
                   Declare(x), Plain("assign"), Use(x), T("semicolon", "ends")>>
    BY Zenon DEF Declarations
  <2> QED BY <1>0, <2>1, StatementsAreFormed, Zenon
<1>6. ASSUME NEW s \in Statements PROVE \E form \in InnerForms : Spelled(s, form)
  <2> DEFINE calls == {<<Use(f), Plain("leftParen"), Use(x), Plain("rightParen"), Plain("semicolon")>> :
                         f \in FunctionNames, x \in VariableNames}
             loops == {LoopHead(x) \o <<Plain("rightParen"), Open("loop")>> : x \in VariableNames}
  <2>1. Statements = calls \cup {<<Open("block")>>} \cup loops
    BY DEF Statements
  <2>2. CASE s = <<Open("block")>>
    BY <1>0, <2>2, StatementsAreFormed
  <2>3. CASE s \in loops
    BY <1>0, <2>3, StatementsAreFormed, Zenon
  <2>4. CASE s \in calls
    <3>1. PICK f \in FunctionNames, x \in VariableNames :
            s = <<Use(f), Plain("leftParen"), Use(x), Plain("rightParen"), Plain("semicolon")>>
      BY <2>4
    <3> QED BY <1>0, <3>1, StatementsAreFormed, Zenon
  <2> HIDE DEF calls, loops
  <2> QED BY <1>6, <2>1, <2>2, <2>3, <2>4
<1>7. p = Close => open
  <2>1. ~ StaysInside(Close)
    <3>1. Close[1] = T("rightBrace", "leaves") /\ Len(Close) = 1
      BY DEF Close
    <3>2. T("rightBrace", "leaves").role = "leaves"
      BY TokensAre DEF Spells2
    <3>3. 1 \in 1 .. 1
      OBVIOUS
    <3>4. Close \in Seq(Staying) => Close[1] \in Staying
      BY <3>1, <3>3
    <3> QED BY <3>1, <3>2, <3>4 DEF StaysInside, Staying
  <2> QED BY <2>1, PhrasesStayInside DEF open
<1>8. CASE Owner = "program"
  <2>1. PICK h \in BlockHeaders : /\ p = BlockPhrase(h)
          /\ \A i \in DOMAIN text : text[i].role \in BlockKinds => Rank(text[i].role) < Rank(h.kind)
    BY <1>8 DEF Phrases
  <2> QED BY <1>1, <1>8, <2>1 DEF open, before
<1>9. CASE Owner = "functions"
  <2>1. (\E f \in FunctionNames, x \in VariableNames : p = FunctionPhrase(f, x)) \/ p = Close
    BY <1>9 DEF Phrases
  <2> QED BY <1>2, <1>3, <1>7, <1>9, <2>1 DEF open, before
<1>10. CASE Owner \notin {"program", "functions"}
  <2>1. p = Close \/ p \in Declarations \/ p \in Statements
    BY <1>10 DEF Phrases
  <2> QED BY <1>3, <1>4, <1>5, <1>6, <1>7, <1>10, <2>1 DEF open, before
<1> QED BY <1>8, <1>9, <1>10

-----------------------------------------------------------------------------
(* A text of which no token was left out is laid with such phrases. *)

Lies(s, b, form) ==
  /\ Tile(s, b, form.kinds)
  /\ \A k \in 1 .. Len(form.kinds) : s[b + k - 1].role = form.roles[k]

Formed(s) ==
  \A i \in 1 .. Len(s) : \E form \in Forms, b \in 1 .. i : i < b + Len(form.kinds) /\ Lies(s, b, form)

FormInv == slips = 0 => Formed(text \o pending)

(* What lies in a text lies there when the text has grown. *)
LEMMA LyingStays ==
  ASSUME NEW s, NEW p, s \in Seq(Token), p \in Seq(Token), NEW b \in Nat \ {0},
         NEW form \in Forms, Lies(s, b, form)
  PROVE  Lies(s \o p, b, form)
<1> DEFINE n == Len(s)
           m == Len(form.kinds)
           q == s \o p
<1>1. /\ n \in Nat /\ Len(q) \in Nat /\ n <= Len(q) /\ \A i \in 1 .. n : q[i] = s[i]
  OBVIOUS
<1>2. m \in 1 .. 8
  BY FormsAre DEF WellFormed
<1>3. /\ b + m - 1 <= n /\ \A k \in 1 .. m : s[b + k - 1].kind = form.kinds[k]
      /\ b = 1 \/ s[b - 1].kind \in Boundaries
      /\ \A k \in 1 .. m : s[b + k - 1].role = form.roles[k]
  BY DEF Lies, Tile
<1> HIDE DEF n, m, q
<1>4. /\ \A k \in 1 .. m : b + k - 1 \in 1 .. n
      /\ b # 1 => b - 1 \in 1 .. n
  <2>1. n \in Nat /\ m \in 1 .. 8 /\ b + m - 1 <= n /\ b \in Nat \ {0}
    BY <1>1, <1>2, <1>3
  <2> QED BY <2>1
<1>6. \A k \in 1 .. m : q[b + k - 1].kind = form.kinds[k] /\ q[b + k - 1].role = form.roles[k]
  BY <1>1, <1>3, <1>4
<1>7. b + m - 1 <= Len(q)
  BY <1>1, <1>2, <1>3
<1>8. b = 1 \/ q[b - 1].kind \in Boundaries
  BY <1>1, <1>3, <1>4
<1> QED BY <1>6, <1>7, <1>8 DEF Lies, Tile, m, q

(* A text made of phrases is so with one phrase more. *)
LEMMA FormedGrows ==
  ASSUME NEW s, NEW p, s \in Seq(Token), p \in Seq(Token), Closed(s), Formed(s),
         NEW form \in Forms, Spelled(p, form)
  PROVE  Lies(s \o p, Len(s) + 1, form) /\ Formed(s \o p)
<1> DEFINE n == Len(s)
           m == Len(form.kinds)
           q == s \o p
<1>1. m \in 1 .. 8 /\ Len(p) = m
  BY FormsAre DEF WellFormed, Spelled
<1> HIDE DEF m
<1>2. /\ n \in Nat /\ Len(q) = n + m
      /\ \A i \in 1 .. n : q[i] = s[i]
      /\ \A k \in 1 .. m : q[n + k] = p[k]
  BY <1>1
<1>3. \A k \in 1 .. m : p[k].kind = form.kinds[k] /\ p[k].role = form.roles[k]
  BY DEF Spelled, Spells2, m
<1>4. Closed(s)
  OBVIOUS
<1> HIDE DEF n, q
<1>5. Lies(q, n + 1, form)
  <2>1. \A k \in 1 .. m : (n + 1) + k - 1 = n + k
    BY <1>1, <1>2
  <2>2. \A k \in 1 .. m : /\ q[(n + 1) + k - 1].kind = form.kinds[k]
                          /\ q[(n + 1) + k - 1].role = form.roles[k]
    BY <1>2, <1>3, <2>1
  <2>3. n + 1 = 1 \/ q[(n + 1) - 1].kind \in Boundaries
    <3>1. (n + 1) - 1 = n /\ (n # 0 => n \in 1 .. n)
      BY <1>2
    <3>2. n = 0 \/ s[n].kind \in Boundaries
      BY <1>4 DEF Closed, n
    <3> QED BY <1>2, <3>1, <3>2
  <2>4. (n + 1) + m - 1 <= Len(q)
    BY <1>1, <1>2
  <2> QED BY <2>2, <2>3, <2>4 DEF Lies, Tile, m
<1>6. ASSUME NEW i \in 1 .. Len(q)
      PROVE  \E fm \in Forms, b \in 1 .. i : i < b + Len(fm.kinds) /\ Lies(q, b, fm)
  <2>1. CASE i <= n
    <3>1. i \in 1 .. n
      BY <1>2, <2>1
    <3>2. PICK fm \in Forms, b \in 1 .. i : i < b + Len(fm.kinds) /\ Lies(s, b, fm)
      BY <3>1 DEF Formed, n
    <3>3. b \in Nat \ {0}
      BY <3>1
    <3>4. Lies(q, b, fm)
      BY <3>2, <3>3, LyingStays DEF q
    <3> QED BY <3>2, <3>4
  <2>2. CASE ~ (i <= n)
    <3>1. n + 1 \in 1 .. i /\ i < (n + 1) + m
      BY <1>1, <1>2, <2>2
    <3> QED BY <1>5, <3>1 DEF m
  <2> QED BY <2>1, <2>2
<1> QED BY <1>5, <1>6 DEF Formed, n, q

(* Writing the head of a phrase keeps the text, with what is left of it, formed. *)
LEMMA WritingForms ==
  ASSUME text \in Seq(Token), NEW p \in Seq(Token), p # <<>>, slips = 0 => Formed(text \o p),
         AuthorInv, Write(p)
  PROVE  FormInv'
<1>1. CASE Type(p)
  <2>1. text' = Append(text, Head(p)) /\ pending' = Tail(p) /\ slips' = slips
    BY <1>1 DEF Type, ReadToken
  <2>2. Append(text, Head(p)) \o Tail(p) = text \o p
    OBVIOUS
  <2> QED BY <2>1, <2>2 DEF FormInv
<1>2. CASE Slip(p)
  <2>1. slips \in 0 .. MaxSlips /\ MaxSlips \in Nat /\ slips' = slips + 1
    <3>1. slips' = slips + 1
      BY <1>2 DEF Slip
    <3>2. slips \in 0 .. MaxSlips
      BY DEF AuthorInv
    <3> QED BY <3>1, <3>2, AuthorAssumption
  <2>2. slips' # 0
    BY <2>1
  <2> QED BY <2>2 DEF FormInv
<1> QED BY <1>1, <1>2 DEF Write

(* A phrase that is begun keeps the text formed. *)
LEMMA BegunIsFormed ==
  ASSUME AnalysisInv, AuthorInv, LaidInv, FormInv, NEW p \in Phrases, pending = <<>>
  PROVE  /\ p \in Seq(Token) /\ p # <<>>
         /\ slips = 0 =>
              /\ Formed(text \o p)
              /\ \E form \in Forms :
                   /\ Lies(text \o p, Len(text) + 1, form) /\ Len(p) = Len(form.kinds)
                   /\ Granted(form, Owner, Len(env) > 1, {text[i].role : i \in DOMAIN text})
<1>1. text \in Seq(Token) /\ p \in Seq(Token) /\ p # <<>>
  BY PhrasesAreTokens DEF PhraseOfTokens, AnalysisInv, DelimiterInv, DelimiterTypeOK
<1>2. text \o <<>> = text
  BY <1>1
<1>3. slips = 0 => Formed(text) /\ Closed(text)
  BY <1>2 DEF FormInv, LaidInv, Laid
<1>4. PICK form \in Forms :
        Spelled(p, form) /\ Granted(form, Owner, Len(env) > 1, {text[i].role : i \in DOMAIN text})
  BY PhrasesAreFormed
<1>5. slips = 0 => Lies(text \o p, Len(text) + 1, form) /\ Formed(text \o p)
  BY <1>1, <1>3, <1>4, FormedGrows
<1>6. Len(p) = Len(form.kinds)
  BY <1>4 DEF Spelled
<1> QED BY <1>1, <1>4, <1>5, <1>6

(* A text of which no token was left out is made of phrases. *)
LEMMA TextsAreFormed == Spec => []FormInv
<1>1. Init => FormInv
  <2> SUFFICES ASSUME Init PROVE FormInv
    OBVIOUS
  <2>1. text = <<>> /\ pending = <<>>
    BY DEF Init, DelimiterInit
  <2>2. <<>> \o <<>> = <<>> /\ Len(<<>>) = 0
    OBVIOUS
  <2> QED BY <2>1, <2>2 DEF FormInv, Formed
<1>2. AnalysisInv /\ AuthorInv /\ LaidInv /\ FormInv /\ [Next]_vars => FormInv'
  <2> SUFFICES ASSUME AnalysisInv, AuthorInv, LaidInv, FormInv, [Next]_vars PROVE FormInv'
    OBVIOUS
  <2>0. text \in Seq(Token) /\ pending \in Seq(Token)
    BY DEF AnalysisInv, DelimiterInv, DelimiterTypeOK
  <2>1. CASE Continue
    BY <2>0, <2>1, WritingForms DEF Continue, FormInv
  <2>2. CASE Begin
    <3>1. PICK p \in Phrases : Write(p)
      BY <2>2 DEF Begin
    <3>2. pending = <<>>
      BY <2>2 DEF Begin
    <3>3. p \in Seq(Token) /\ p # <<>> /\ (slips = 0 => Formed(text \o p))
      BY <3>2, BegunIsFormed
    <3> QED BY <2>0, <3>1, <3>3, WritingForms
  <2>3. CASE Analyze
    BY <2>3 DEF Analyze, delimiterVars, authorVars, FormInv
  <2>4. CASE UNCHANGED vars
    BY <2>4 DEF vars, delimiterVars, authorVars, FormInv
  <2> QED BY <2>1, <2>2, <2>3, <2>4 DEF Next
<1> QED
  BY <1>1, <1>2, DelimitersHold, RecordsHold, TextsAreLaid, PTL DEF Spec

(* A token is read at the k-th place of a phrase, whose other tokens are the  *)
(* last ones of the text.                                                     *)
At == Len(text) + 1

Spot(k) == StatementStart(At) + k - 1

Reads(t, form, k) ==
  /\ t \in Token /\ ReadToken(t) /\ Means(t)
  /\ t.role = "leaves" => Len(env) > 1
  /\ form \in Forms /\ k \in 1 .. Len(form.kinds)
  /\ t.kind = form.kinds[k] /\ t.role = form.roles[k]
  /\ At = Spot(k)
  /\ \A m \in 1 .. k - 1 : /\ Spot(m) \in 1 .. Len(text)
                           /\ text[Spot(m)].kind = form.kinds[m]
                           /\ text[Spot(m)].role = form.roles[m]

recordVars == <<text, stack, pairs, env, held, bindings, clashes>>

(* The token typed next is one of the phrase that its statement is made of. *)
LEMMA TypingReads ==
  ASSUME DelimiterTypeOK, NEW p \in Seq(Token), p # <<>>, Formed(text \o p), Type(p),
         Head(p).role = "leaves" => Len(env) > 1
  PROVE  \E t \in Token, form \in Forms : \E k \in 1 .. Len(form.kinds) : Reads(t, form, k)
<1> DEFINE t == Head(p)
           s == text \o p
           n == Len(text)
<1>1. /\ text \in Seq(Token) /\ n \in Nat /\ DOMAIN text = 1 .. n
      /\ t \in Token /\ n + 1 \in 1 .. Len(s) /\ s[n + 1] = t
      /\ \A i \in 1 .. n : s[i] = text[i]
  BY DEF DelimiterTypeOK
<1>2. ReadToken(t) /\ Means(t)
  BY DEF Type
<1> HIDE DEF t, s, n
<1>3. PICK form \in Forms, b \in 1 .. n + 1 : n + 1 < b + Len(form.kinds) /\ Lies(s, b, form)
  BY <1>1 DEF Formed, s
<1> DEFINE k == n + 1 - b + 1
           m == Len(form.kinds)
<1>4. PICK o, c, d : WellFormed(form, o, c, d)
  BY FormsAre
<1>5. m \in 1 .. 8 /\ \A j \in 1 .. m - 1 : form.kinds[j] \notin Boundaries
  BY <1>4 DEF WellFormed
<1>6. /\ \A j \in 1 .. m : s[b + j - 1].kind = form.kinds[j] /\ s[b + j - 1].role = form.roles[j]
      /\ b = 1 \/ s[b - 1].kind \in Boundaries
  BY <1>3 DEF Lies, Tile
<1> HIDE DEF m
<1>7. k \in 1 .. m /\ b + k - 1 = n + 1 /\ b \in Nat \ {0}
  <2>1. n + 1 < b + m
    BY <1>3 DEF m
  <2> QED BY <1>1, <1>3, <1>5, <2>1
<1>8. ASSUME NEW j \in 1 .. k - 1
      PROVE  /\ j \in 1 .. m - 1 /\ j \in 1 .. m /\ b + j - 1 \in 1 .. n
             /\ text[b + j - 1].kind = form.kinds[j] /\ text[b + j - 1].role = form.roles[j]
  <2>1. j \in 1 .. m - 1 /\ j \in 1 .. m /\ b + j - 1 \in 1 .. n
    BY <1>1, <1>5, <1>7
  <2> QED BY <1>1, <1>6, <2>1
<1>9. StatementStart(n + 1) = b
  <2>1. ASSUME NEW c1 \in b .. (n + 1) - 1 PROVE KindAt(c1) \notin Boundaries
    <3>1. c1 - b + 1 \in 1 .. k - 1 /\ b + (c1 - b + 1) - 1 = c1
      BY <1>1, <1>7
    <3>2. c1 \in 1 .. n /\ text[c1].kind = form.kinds[c1 - b + 1] /\ c1 - b + 1 \in 1 .. m - 1
      BY <1>8, <3>1
    <3> QED BY <1>1, <1>5, <3>2 DEF KindAt
  <2>2. b = 1 \/ KindAt(b - 1) \in Boundaries
    <3>1. b # 1 => b - 1 \in 1 .. n
      BY <1>1, <1>7
    <3> QED BY <1>1, <1>6, <3>1 DEF KindAt
  <2>3. n + 1 \in Nat \ {0} /\ b \in 1 .. n + 1
    BY <1>1, <1>7
  <2> QED BY <1>1, <2>1, <2>2, <2>3, StartIs
<1>10. t.kind = form.kinds[k] /\ t.role = form.roles[k]
  BY <1>1, <1>6, <1>7
<1> HIDE DEF k
<1>11. Reads(t, form, k)
  <2>1. At = n + 1 /\ \A j : Spot(j) = b + j - 1
    BY <1>9 DEF At, Spot, n
  <2>2. t.role = "leaves" => Len(env) > 1
    BY DEF t
  <2>3. k \in 1 .. Len(form.kinds)
    BY <1>7 DEF m
  <2>4. At = Spot(k)
    BY <1>7, <2>1
  <2> QED BY <1>1, <1>2, <1>8, <1>10, <2>1, <2>2, <2>3, <2>4 DEF Reads, n
<1>12. k \in 1 .. Len(form.kinds)
  BY <1>7 DEF m
<1> QED BY <1>1, <1>11, <1>12

(* A step reads a token or leaves the record and what it is about alone. *)
LEMMA StepsRead ==
  ASSUME AnalysisInv, AuthorInv, LaidInv, FormInv, [Next]_vars, slips' = 0
  PROVE  /\ slips = 0
         /\ \/ UNCHANGED recordVars
            \/ \E t \in Token, form \in Forms : \E k \in 1 .. Len(form.kinds) : Reads(t, form, k)
<1>0. DelimiterTypeOK /\ pending \in Seq(Token) /\ slips \in Nat
  <2>1. DelimiterTypeOK /\ pending \in Seq(Token)
    BY DEF AnalysisInv, DelimiterInv
  <2>2. slips \in 0 .. MaxSlips /\ MaxSlips \in Nat
    BY AuthorAssumption DEF AuthorInv
  <2> QED BY <2>1, <2>2
<1>1. ASSUME NEW p \in Seq(Token), p # <<>>, slips = 0 => Formed(text \o p), Write(p),
             Head(p).role = "leaves" => Len(env) > 1
      PROVE  slips = 0 /\ \E t \in Token, form \in Forms : \E k \in 1 .. Len(form.kinds) : Reads(t, form, k)
  <2>1. ~ Slip(p)
    BY <1>0 DEF Slip
  <2>2. Type(p) /\ slips = 0
    BY <1>1, <2>1 DEF Write, Type
  <2> QED BY <1>0, <1>1, <2>2, TypingReads
<1>2. CASE Continue
  <2>1. pending # <<>> /\ Write(pending)
    BY <1>2 DEF Continue
  <2>2. Head(pending).role # "leaves"
    <3>1. Head(pending) \in Staying
      BY <1>0, <2>1 DEF AuthorInv, StaysInside
    <3> QED BY <3>1 DEF Staying
  <2> QED BY <1>0, <1>1, <2>1, <2>2 DEF FormInv
<1>3. CASE Begin
  <2>1. PICK p \in Phrases : Write(p)
    BY <1>3 DEF Begin
  <2>2. pending = <<>>
    BY <1>3 DEF Begin
  <2>3. p \in Seq(Token) /\ p # <<>> /\ (slips = 0 => Formed(text \o p))
    BY <2>2, BegunIsFormed
  <2>4. Head(p).role = "leaves" => Len(env) > 1
    <3>1. StaysInside(p) => Head(p) \in Staying
      BY <2>3 DEF StaysInside
    <3>2. StaysInside(p) \/ Len(env) > 1
      BY PhrasesStayInside
    <3> QED BY <3>1, <3>2 DEF Staying
  <2> QED BY <1>1, <2>1, <2>3, <2>4
<1>4. CASE Analyze
  BY <1>4 DEF Analyze, delimiterVars, authorVars, recordVars
<1>5. CASE UNCHANGED vars
  BY <1>5 DEF vars, delimiterVars, authorVars, recordVars
<1> QED BY <1>2, <1>3, <1>4, <1>5 DEF Next

RoleAt(i) == IF i \in DOMAIN text THEN text[i].role ELSE "none"

(* The tokens of the statement that is being written *)
Statement == StatementStart(At) .. Len(text)

(* An open bracket of that statement *)
Waiting(j) == /\ j \in Statement /\ KindAt(j) \in Brackets
              /\ \A c \in j + 1 .. Len(text) : KindAt(c) \notin Blockers

(* What the place of a token in its phrase says of the statement before it.   *)
LEMMA PlacesAre ==
  ASSUME text \in Seq(Token), NEW t, NEW form, NEW k, Reads(t, form, k)
  PROVE  /\ StatementStart(At) \in 1 .. At
         /\ \A j \in Statement : j \in 1 .. Len(text) /\ KindAt(j) \notin Boundaries
         /\ t.kind \in Brackets \cup Boundaries => \A j : ~ Waiting(j)
         /\ t.kind \in Blockers => \E j : Waiting(j) /\ KindAt(j) = MatchingOpen(t.kind)
         /\ t.role \in Owners <=> t.kind = "leftBrace"
         /\ t.role = "leaves" <=> t.kind = "rightBrace"
         /\ t.kind = "rightBrace" => Statement = {}
         /\ t.role \in {"use", "declares", "names"} => t.kind = "identifier"
         /\ t.role = "ends" => t.kind = "semicolon" /\ \E j \in Statement : RoleAt(j) = "declares"
         /\ t.role \in {"declares", "names"} \/ (t.role = "none" /\ t.kind = "semicolon")
              => \A j \in Statement : RoleAt(j) # "declares"
<1> DEFINE b == StatementStart(At)
           n == Len(text)
           m == Len(form.kinds)
<1>1. n \in Nat /\ DOMAIN text = 1 .. n /\ At = n + 1
  BY DEF At
<1>2. PICK o, c, d : WellFormed(form, o, c, d)
  BY FormsAre DEF Reads
<1>3. k \in 1 .. m /\ m \in 1 .. 8 /\ o \in 0 .. m /\ c \in 0 .. m /\ d \in 0 .. m
  BY <1>2 DEF WellFormed, Reads
<1>4. b + k - 1 = n + 1 /\ b \in Nat \ {0} /\ b \in 1 .. At
  <2>1. b \in 1 .. At
    <3>1. At \in Nat \ {0}
      BY <1>1
    <3> QED BY <3>1, StatementsBegin
  <2> QED BY <1>1, <2>1 DEF Reads, Spot
<1> HIDE DEF b, n, m
<1>5. ASSUME NEW i \in 1 .. k - 1
      PROVE  /\ b + i - 1 \in 1 .. n /\ KindAt(b + i - 1) = form.kinds[i] /\ RoleAt(b + i - 1) = form.roles[i]
             /\ i \in 1 .. m - 1 /\ i \in 1 .. m
  <2>1. i \in 1 .. m - 1 /\ i \in 1 .. m
    BY <1>3
  <2>2. /\ b + i - 1 \in 1 .. n /\ text[b + i - 1].kind = form.kinds[i]
        /\ text[b + i - 1].role = form.roles[i]
    BY DEF Reads, Spot, b, n
  <2> QED BY <1>1, <2>1, <2>2 DEF KindAt, RoleAt
<1>6. Statement = b .. n
  BY DEF Statement, b, n
<1>7. ASSUME NEW j \in Statement
      PROVE  /\ j - b + 1 \in 1 .. k - 1 /\ b + (j - b + 1) - 1 = j /\ j \in 1 .. n
             /\ KindAt(j) = form.kinds[j - b + 1] /\ RoleAt(j) = form.roles[j - b + 1]
             /\ j - b + 1 \in 1 .. m - 1 /\ j - b + 1 \in 1 .. m
  <2>1. j - b + 1 \in 1 .. k - 1 /\ b + (j - b + 1) - 1 = j
    BY <1>1, <1>3, <1>4, <1>6
  <2> QED BY <1>5, <2>1
<1>8. t.kind = form.kinds[k] /\ t.role = form.roles[k]
  BY DEF Reads
<1>9. /\ \A i \in 1 .. m : /\ form.kinds[i] \in Brackets <=> i = o
                           /\ form.kinds[i] \in Blockers <=> i = c
                           /\ form.roles[i] = "declares" <=> i = d
      /\ (o = 0 /\ c = 0) \/ (0 < o /\ o < c /\ c < m /\ form.kinds[o] = MatchingOpen(form.kinds[c]))
      /\ form.kinds[m] \in Boundaries
      /\ \A i \in 1 .. m - 1 : form.kinds[i] \notin Boundaries
  BY <1>2 DEF WellFormed, m
<1>10. \A j \in Statement : j \in 1 .. n /\ KindAt(j) \notin Boundaries
  BY <1>7, <1>9
<1>11. ASSUME t.kind \in Brackets \cup Boundaries, NEW j, Waiting(j) PROVE FALSE
  <2>1. /\ j \in Statement /\ KindAt(j) \in Brackets
        /\ \A e \in j + 1 .. n : KindAt(e) \notin Blockers
    BY <1>11 DEF Waiting, n
  <2>2. j - b + 1 = o
    BY <1>7, <1>9, <2>1
  <2>3. CASE t.kind \in Brackets
    <3>1. k = o
      BY <1>3, <1>8, <1>9, <2>3
    <3>2. j - b + 1 \in 1 .. k - 1
      BY <1>7, <2>1
    <3> QED BY <2>2, <3>1, <3>2
  <2>4. CASE t.kind \in Boundaries
    <3>1. k = m
      <4>1. k \in 1 .. m - 1 => form.kinds[k] \notin Boundaries
        BY <1>9
      <4> QED BY <1>3, <1>8, <2>4, <4>1
    <3>2. 0 < o /\ o < c /\ c < m
      <4>1. j - b + 1 \in 1 .. m
        BY <1>7, <2>1
      <4> QED BY <1>3, <1>9, <2>2, <4>1
    <3>3. c \in 1 .. k - 1 /\ b + c - 1 \in j + 1 .. n
      BY <1>1, <1>3, <1>4, <1>6, <2>1, <2>2, <3>1, <3>2
    <3>4. KindAt(b + c - 1) \in Blockers
      BY <1>5, <1>9, <3>3
    <3> QED BY <2>1, <3>3, <3>4
  <2> QED BY <1>11, <2>3, <2>4
<1>12. ASSUME t.kind \in Blockers
       PROVE  \E j : Waiting(j) /\ KindAt(j) = MatchingOpen(t.kind)
  <2>1. k = c
    BY <1>3, <1>8, <1>9, <1>12
  <2>2. 0 < o /\ o < k /\ form.kinds[o] = MatchingOpen(t.kind) /\ o \in 1 .. k - 1 /\ o \in 1 .. m
    BY <1>3, <1>8, <1>9, <2>1
  <2> DEFINE j == b + o - 1
  <2>3. j \in Statement
    BY <1>1, <1>3, <1>4, <1>6, <2>2
  <2>4. KindAt(j) = form.kinds[o] /\ KindAt(j) \in Brackets
    BY <1>5, <1>9, <2>2
  <2>5. ASSUME NEW e \in j + 1 .. n PROVE KindAt(e) \notin Blockers
    <3>1. e \in Statement
      BY <1>1, <1>4, <1>6, <2>3
    <3>2. e - b + 1 \in 1 .. k - 1 /\ e - b + 1 \in 1 .. m /\ KindAt(e) = form.kinds[e - b + 1]
      BY <1>7, <3>1
    <3>3. e - b + 1 # c
      BY <2>1, <3>2
    <3> QED BY <1>9, <3>2, <3>3
  <2>6. Waiting(j)
    <3> HIDE DEF j
    <3> QED BY <2>3, <2>4, <2>5 DEF Waiting, n
  <2> QED BY <2>2, <2>4, <2>6
<1>13. /\ t.role \in Owners <=> t.kind = "leftBrace"
       /\ t.role = "leaves" <=> t.kind = "rightBrace"
       /\ t.kind = "rightBrace" => k = 1
       /\ t.role \in {"use", "declares", "names"} => t.kind = "identifier"
       /\ t.role = "ends" => t.kind = "semicolon" /\ d # 0
       /\ t.role = "names" => k < d
       /\ t.role = "none" /\ t.kind = "semicolon" => d = 0
  BY <1>2, <1>3, <1>8 DEF WellFormed, m
<1>14. t.kind = "rightBrace" => Statement = {}
  BY <1>1, <1>4, <1>6, <1>13
<1>15. ASSUME t.role = "ends" PROVE \E j \in Statement : RoleAt(j) = "declares"
  <2>1. t.kind = "semicolon" /\ d # 0
    BY <1>13, <1>15
  <2>2. k = m
    <3>1. k \in 1 .. m - 1 => form.kinds[k] \notin Boundaries
      BY <1>9
    <3>2. "semicolon" \in Boundaries
      BY DEF Boundaries
    <3> QED BY <1>3, <1>8, <2>1, <3>1, <3>2
  <2>3. d \in 1 .. m /\ d # k
    <3>1. d \in 1 .. m
      BY <1>3, <2>1
    <3>2. form.roles[d] = "declares"
      BY <1>9, <3>1
    <3> QED BY <1>8, <1>15, <3>1, <3>2
  <2>4. d \in 1 .. k - 1 /\ b + d - 1 \in Statement
    BY <1>1, <1>3, <1>4, <1>6, <2>2, <2>3
  <2>5. RoleAt(b + d - 1) = "declares"
    BY <1>5, <1>9, <2>3, <2>4
  <2> QED BY <2>4, <2>5
<1>16. ASSUME t.role \in {"declares", "names"} \/ (t.role = "none" /\ t.kind = "semicolon"),
              NEW j \in Statement, RoleAt(j) = "declares"
       PROVE  FALSE
  <2>1. j - b + 1 = d /\ d \in 1 .. k - 1
    BY <1>7, <1>9, <1>16
  <2>2. t.role = "declares" => k = d
    BY <1>3, <1>8, <1>9
  <2> QED BY <1>3, <1>13, <1>16, <2>1, <2>2
<1>17. b \in 1 .. At
  BY <1>4
<1> QED
  <2>1. t.kind \in Brackets \cup Boundaries => \A j : ~ Waiting(j)
    BY <1>11, Zenon
  <2>2. t.kind \in Blockers => \E j : Waiting(j) /\ KindAt(j) = MatchingOpen(t.kind)
    BY <1>12, Zenon
  <2>3. /\ t.role = "ends" => \E j \in Statement : RoleAt(j) = "declares"
        /\ t.role \in {"declares", "names"} \/ (t.role = "none" /\ t.kind = "semicolon")
              => \A j \in Statement : RoleAt(j) # "declares"
    BY <1>15, <1>16, Zenon
  <2> QED BY <1>10, <1>13, <1>14, <1>17, <2>1, <2>2, <2>3 DEF b, n

-----------------------------------------------------------------------------
(* The braces that are open at a token, and what they are opened for. *)

Braces(i)    == {b \in 1 .. i - 1 : KindAt(b) = "leftBrace" /\ (b \in DOMAIN pairs => i <= pairs[b])}
Innermost(i) == Max({0} \cup Braces(i))
OwnerAt(i)     == IF Braces(i) = {} THEN env[1].owner ELSE RoleAt(Max(Braces(i)))
OutermostAt(i) == IF Braces(i) = {} THEN env[1].owner ELSE RoleAt(Min(Braces(i)))

(* The name that is declared in the statement of token i before it, 0 if none *)
HeldAt(i) == Max({0} \cup {j \in StatementStart(i) .. i - 1 : RoleAt(j) = "declares"})

(* Where the scope begins that the declaration at j is for: 0 is the program. *)
FrameOf(j) == IF RoleAt(j) = "names" \/ OwnerAt(j) \in ProgramKinds THEN 0 ELSE Innermost(j)

(* The braces that are open at a position stand before it. *)
LEMMA BracesAreBehind ==
  ASSUME text \in Seq(Token), NEW i
  PROVE  /\ Braces(i) \in SUBSET Nat
         /\ \A b \in Braces(i) : /\ b \in 1 .. Len(text) /\ b \in 1 .. i - 1 /\ KindAt(b) = "leftBrace"
                                 /\ b \in DOMAIN pairs => i <= pairs[b]
<1> SUFFICES ASSUME NEW b \in Braces(i)
             PROVE  /\ b \in Nat /\ b \in 1 .. Len(text) /\ b \in 1 .. i - 1 /\ KindAt(b) = "leftBrace"
                    /\ b \in DOMAIN pairs => i <= pairs[b]
  OBVIOUS
<1>1. b \in 1 .. i - 1 /\ KindAt(b) = "leftBrace" /\ (b \in DOMAIN pairs => i <= pairs[b])
  BY DEF Braces
<1>2. b \in 1 .. Len(text)
  BY <1>1, KindsAreInText
<1> QED BY <1>1, <1>2

(* The innermost open brace is the last of them, the outermost the first. *)
LEMMA InnermostIs ==
  ASSUME text \in Seq(Token), NEW i \in Nat \ {0}
  PROVE  /\ Innermost(i) \in Nat
         /\ Braces(i) = {} <=> Innermost(i) = 0
         /\ Braces(i) # {} => /\ Max(Braces(i)) = Innermost(i)
                              /\ Innermost(i) \in Braces(i) /\ Min(Braces(i)) \in Braces(i)
         /\ \A b \in Braces(i) : b <= Innermost(i) /\ Min(Braces(i)) <= b
<1>1. Braces(i) \in SUBSET Nat /\ \A b \in Braces(i) : b \in 1 .. i - 1
  BY BracesAreBehind
<1> DEFINE S == Braces(i)
<1> HIDE DEF S
<1>2. S \in SUBSET Nat /\ \A b \in S : b \in 1 .. i - 1
  BY <1>1 DEF S
<1>3. {0} \cup S \in SUBSET Nat /\ {0} \cup S # {} /\ \A b \in {0} \cup S : b <= i
  BY <1>2
<1>4. Max({0} \cup S) \in {0} \cup S /\ \A b \in {0} \cup S : Max({0} \cup S) >= b
  BY <1>3, MaxIsGreatest
<1>5. ASSUME S # {}
      PROVE  /\ Max(S) \in S /\ \A b \in S : Max(S) >= b
             /\ Min(S) \in S /\ \A b \in S : Min(S) <= b
  <2>1. \A b \in S : b <= i
    BY <1>2
  <2> QED BY <1>2, <1>5, <2>1, MaxIsGreatest, MinIsLeast
<1>6. S # {} => Max({0} \cup S) \in S /\ Max({0} \cup S) = Max(S)
  <2>1. ASSUME S # {} PROVE Max({0} \cup S) \in S /\ Max({0} \cup S) = Max(S)
    <3>1. Max({0} \cup S) >= Max(S) /\ Max(S) \in 1 .. i - 1
      BY <1>2, <1>4, <1>5, <2>1
    <3>2. Max({0} \cup S) # 0
      BY <3>1
    <3>3. Max({0} \cup S) \in S /\ Max(S) >= Max({0} \cup S)
      BY <1>4, <1>5, <2>1, <3>2
    <3>4. Max({0} \cup S) \in Nat /\ Max(S) \in Nat
      BY <1>2, <1>5, <2>1, <3>3
    <3>5. \A x, y \in Nat : x >= y /\ y >= x => x = y
      OBVIOUS
    <3> QED BY <3>1, <3>3, <3>4, <3>5
  <2> QED BY <2>1
<1>7. S = {} => Max({0} \cup S) = 0
  BY <1>4
<1>8. 0 \notin S
  BY <1>2
<1>9. /\ Max({0} \cup S) \in Nat /\ (S = {} <=> Max({0} \cup S) = 0)
      /\ \A b \in S : b <= Max({0} \cup S)
  BY <1>2, <1>3, <1>4, <1>6, <1>7, <1>8
<1> QED BY <1>5, <1>6, <1>9 DEF S, Innermost

(* What is read leaves what is said of the tokens before it. *)
LEMMA ReadingKeeps ==
  ASSUME DelimiterInv, NEW t \in Token, ReadToken(t), env'[1].owner = env[1].owner,
         NEW n, n = Len(text) + 1
  PROVE  /\ n \in Nat \ {0} /\ At = n /\ At' = n + 1 /\ Len(text') = n /\ text' \in Seq(Token)
         /\ text'[n] = t /\ KindAt(n)' = t.kind /\ RoleAt(n)' = t.role
         /\ \A i \in 1 .. n - 1 : text'[i] = text[i] /\ KindAt(i)' = KindAt(i) /\ RoleAt(i)' = RoleAt(i)
         /\ \A i \in 1 .. n :
              /\ Braces(i)' = Braces(i) /\ StatementStart(i)' = StatementStart(i)
              /\ OwnerAt(i)' = OwnerAt(i) /\ OutermostAt(i)' = OutermostAt(i)
              /\ Innermost(i)' = Innermost(i) /\ HeldAt(i)' = HeldAt(i)
         /\ \A i \in 1 .. n - 1 : FrameOf(i)' = FrameOf(i)
<1>1. /\ text \in Seq(Token) /\ stack \in Seq(1 .. Len(text)) /\ DOMAIN pairs \subseteq 1 .. Len(text)
      /\ Len(text) \in Nat
  BY DEF DelimiterInv, DelimiterTypeOK
<1>2. text' = Append(text, t)
  BY DEF ReadToken
<1>3. /\ text' \in Seq(Token) /\ Len(text') = n /\ DOMAIN text = 1 .. n - 1 /\ DOMAIN text' = 1 .. n
      /\ text'[n] = t /\ n \in Nat \ {0}
      /\ \A i \in 1 .. n - 1 : text'[i] = text[i]
  BY <1>1, <1>2, TextGrows
<1>4. \A i \in 1 .. n - 1 : KindAt(i)' = KindAt(i) /\ RoleAt(i)' = RoleAt(i)
  BY <1>3 DEF KindAt, RoleAt
<1>5. KindAt(n)' = t.kind /\ RoleAt(n)' = t.role
  BY <1>3 DEF KindAt, RoleAt
<1>6. pairs' = pairs \/ \E o : /\ DOMAIN pairs' = DOMAIN pairs \cup {o} /\ pairs'[o] = n
                               /\ \A i \in DOMAIN pairs \ {o} : pairs'[i] = pairs[i]
                               /\ o \notin DOMAIN pairs
  <2>1. CASE PairCloser(t)
    <3> DEFINE o == stack[Len(stack)]
    <3>1. pairs' = [i \in DOMAIN pairs \cup {o} |-> IF i = o THEN Len(text) + 1 ELSE pairs[i]]
      BY <2>1 DEF PairCloser
    <3>2. Len(stack) \in DOMAIN stack
      BY <1>1, <2>1 DEF PairCloser, ClosesTop
    <3>3. o \notin DOMAIN pairs
      BY <3>2 DEF DelimiterInv, OpenersWait
    <3> HIDE DEF o
    <3> QED BY <3>1, <3>3
  <2>2. CASE ~ PairCloser(t)
    BY <2>2 DEF ReadToken, PushOpener, ReportCloser, SkipToken
  <2> QED BY <2>1, <2>2
<1>7. ASSUME NEW i \in 1 .. n PROVE Braces(i)' = Braces(i)
  <2>1. ASSUME NEW b \in 1 .. i - 1
        PROVE  (b \in DOMAIN pairs' => i <= pairs'[b]) <=> (b \in DOMAIN pairs => i <= pairs[b])
    <3>1. CASE pairs' = pairs
      BY <3>1
    <3>2. CASE pairs' # pairs
      <4>1. PICK o : /\ DOMAIN pairs' = DOMAIN pairs \cup {o} /\ pairs'[o] = n
                     /\ \A e \in DOMAIN pairs \ {o} : pairs'[e] = pairs[e]
                     /\ o \notin DOMAIN pairs
        BY <1>6, <3>2
      <4>2. i <= n
        BY <1>3
      <4> QED BY <4>1, <4>2
    <3> QED BY <3>1, <3>2
  <2>2. \A b \in 1 .. i - 1 : KindAt(b)' = KindAt(b)
    <3>1. \A b \in 1 .. i - 1 : b \in 1 .. n - 1
      BY <1>3
    <3> QED BY <1>4, <3>1
  <2>3. Braces(i)' = {b \in 1 .. i - 1 : KindAt(b)' = "leftBrace" /\ (b \in DOMAIN pairs' => i <= pairs'[b])}
    BY DEF Braces
  <2> QED BY <2>1, <2>2, <2>3 DEF Braces
<1>8. ASSUME NEW i \in 1 .. n PROVE StatementStart(i)' = StatementStart(i)
  <2>1. \A b \in 1 .. i - 1 : KindAt(b)' = KindAt(b)
    <3>1. \A b \in 1 .. i - 1 : b \in 1 .. n - 1
      BY <1>3
    <3> QED BY <1>4, <3>1
  <2> DEFINE S == {b \in 1 .. i - 1 : KindAt(b) \in {"leftBrace", "rightBrace", "semicolon"}}
  <2>2. S' = S
    BY <2>1
  <2> QED BY <2>2 DEF StatementStart
<1>9. ASSUME NEW i \in 1 .. n
      PROVE  /\ Innermost(i)' = Innermost(i)
             /\ OwnerAt(i)' = OwnerAt(i) /\ OutermostAt(i)' = OutermostAt(i)
  <2>1. Innermost(i)' = Innermost(i)
    BY <1>7 DEF Innermost
  <2>2. CASE Braces(i) = {}
    BY <1>7, <2>1, <2>2 DEF OwnerAt, OutermostAt
  <2>3. CASE Braces(i) # {}
    <3>1. Max(Braces(i)) \in Braces(i) /\ Min(Braces(i)) \in Braces(i)
      <4>1. i \in Nat \ {0}
        BY <1>3
      <4> QED BY <1>1, <2>3, <4>1, InnermostIs
    <3>2. \A b \in Braces(i) : b \in 1 .. n - 1
      BY <1>1, <1>3, BracesAreBehind
    <3>3. RoleAt(Max(Braces(i)))' = RoleAt(Max(Braces(i))) /\ RoleAt(Min(Braces(i)))' = RoleAt(Min(Braces(i)))
      <4> DEFINE x == Max(Braces(i))
                 y == Min(Braces(i))
      <4>1. x' = x /\ y' = y
        BY <1>7
      <4>2. x \in DOMAIN text /\ y \in DOMAIN text /\ x \in DOMAIN text' /\ y \in DOMAIN text'
            /\ text'[x] = text[x] /\ text'[y] = text[y]
        BY <1>3, <3>1, <3>2
      <4> HIDE DEF x, y
      <4>3. RoleAt(x)' = RoleAt(x) /\ RoleAt(y)' = RoleAt(y)
        BY <4>1, <4>2 DEF RoleAt
      <4> QED BY <4>3 DEF x, y
    <3> QED BY <1>7, <2>1, <2>3, <3>3 DEF OwnerAt, OutermostAt
  <2> QED BY <2>1, <2>2, <2>3
<1>10. ASSUME NEW i \in 1 .. n PROVE HeldAt(i)' = HeldAt(i)
  <2> DEFINE S == {j \in StatementStart(i) .. i - 1 : RoleAt(j) = "declares"}
  <2>1. \A j \in StatementStart(i) .. i - 1 : RoleAt(j)' = RoleAt(j)
    <3>0. i \in Nat \ {0}
      BY <1>3
    <3>1. StatementStart(i) \in 1 .. i
      BY <1>1, <3>0, StatementsBegin
    <3>2. \A j \in StatementStart(i) .. i - 1 : j \in 1 .. n - 1
      BY <1>3, <3>1
    <3> QED BY <1>4, <3>2
  <2>2. S' = S
    BY <1>8, <2>1
  <2> QED BY <2>2 DEF HeldAt
<1>11. ASSUME NEW i \in 1 .. n - 1 PROVE FrameOf(i)' = FrameOf(i)
  <2>1. i \in 1 .. n
    BY <1>3
  <2> QED BY <1>4, <1>9, <2>1 DEF FrameOf
<1>12. At = n /\ At' = n + 1
  BY <1>3 DEF At
<1> QED BY <1>3, <1>4, <1>5, <1>7, <1>8, <1>9, <1>10, <1>11, <1>12

(* The statement that is being written grows with what is read, until it ends. *)
LEMMA StatementsGrow ==
  ASSUME DelimiterInv, NEW t \in Token, ReadToken(t), env'[1].owner = env[1].owner,
         NEW n, n = Len(text) + 1
  PROVE  /\ StatementStart(At)' = StatementStart(n + 1)'
         /\ t.kind \in Boundaries => StatementStart(At)' = n + 1 /\ Statement' = {}
         /\ t.kind \notin Boundaries => /\ StatementStart(At)' = StatementStart(At)
                                        /\ Statement' = Statement \cup {n}
<1>0. /\ n \in Nat \ {0} /\ At = n /\ At' = n + 1 /\ Len(text') = n /\ KindAt(n)' = t.kind
      /\ \A i \in 1 .. n - 1 : KindAt(i)' = KindAt(i)
      /\ text \in Seq(Token)
  BY ReadingKeeps DEF DelimiterInv, DelimiterTypeOK
<1> DEFINE S == {b \in 1 .. n - 1 : KindAt(b) \in Boundaries}
           R == {b \in 1 .. (n + 1) - 1 : KindAt(b)' \in Boundaries}
<1>1. StatementStart(At) = 1 + Max({0} \cup S)
  BY <1>0 DEF StatementStart, Boundaries
<1>2. StatementStart(At)' = 1 + Max({0} \cup R) /\ StatementStart(n + 1)' = 1 + Max({0} \cup R)
  <2>1. StatementStart(n + 1)' = 1 + Max({0} \cup R)
    BY DEF StatementStart, Boundaries
  <2> QED BY <1>0, <2>1 DEF StatementStart
<1>3. R = IF t.kind \in Boundaries THEN S \cup {n} ELSE S
  <2>1. \A b : b \in 1 .. (n + 1) - 1 <=> b \in 1 .. n - 1 \/ b = n
    BY <1>0
  <2>2. n \notin 1 .. n - 1
    BY <1>0
  <2> QED BY <1>0, <2>1, <2>2
<1>4. Statement = StatementStart(At) .. n - 1 /\ Statement' = StatementStart(At)' .. n
  <2>1. Len(text) = n - 1
    BY <1>0
  <2> QED BY <1>0, <2>1 DEF Statement
<1>5. StatementStart(At) \in 1 .. n
  BY <1>0, StatementsBegin
<1>6. CASE t.kind \in Boundaries
  <2>1. Max({0} \cup R) = n
    <3>1. {0} \cup R \in SUBSET Nat /\ n \in {0} \cup R /\ \A b \in {0} \cup R : b <= n
      <4>1. \A b \in 1 .. (n + 1) - 1 : b \in Nat /\ b <= n
        BY <1>0
      <4> QED BY <1>0, <1>3, <1>6, <4>1
    <3> DEFINE Q == {0} \cup R
    <3> HIDE DEF Q
    <3>2. Q \in SUBSET Nat /\ n \in Q /\ \A b \in Q : b <= n
      BY <3>1 DEF Q
    <3>3. Max(Q) \in Q /\ \A b \in Q : Max(Q) >= b
      BY <1>0, <3>2, MaxIsGreatest
    <3>4. Max(Q) \in Nat /\ Max(Q) >= n /\ Max(Q) <= n
      BY <3>2, <3>3
    <3>5. Max(Q) = n
      BY <1>0, <3>4
    <3> QED BY <3>5 DEF Q
  <2> HIDE DEF R, S
  <2>2. StatementStart(At)' = n + 1
    BY <1>0, <1>2, <2>1
  <2>3. (n + 1) .. n = {}
    BY <1>0
  <2> QED BY <1>2, <1>4, <1>6, <2>2, <2>3
<1>7. CASE t.kind \notin Boundaries
  <2>1. StatementStart(At)' = StatementStart(At)
    <3> HIDE DEF R, S
    <3> QED BY <1>1, <1>2, <1>3, <1>7
  <2> DEFINE b == StatementStart(At)
  <2> HIDE DEF b
  <2>2. b \in 1 .. n
    BY <1>5 DEF b
  <2>3. b .. n = (b .. n - 1) \cup {n}
    BY <1>0, <2>2
  <2>4. Statement' = b .. n /\ Statement = b .. n - 1
    BY <1>4, <2>1 DEF b
  <2> QED BY <1>2, <1>7, <2>1, <2>3, <2>4
<1> QED BY <1>6, <1>7

(* The name the statement has declared before what is read next *)
LEMMA HoldingGrows ==
  ASSUME DelimiterInv, NEW t, NEW form, NEW k, Reads(t, form, k), env'[1].owner = env[1].owner,
         NEW n, n = Len(text) + 1
  PROVE  /\ t.kind \in Boundaries => HeldAt(At)' = 0
         /\ t.role = "declares" => HeldAt(At)' = n
         /\ t.kind \notin Boundaries /\ t.role # "declares" => HeldAt(At)' = HeldAt(At)
         /\ HeldAt(At) = 0 \/ (HeldAt(At) \in Statement /\ RoleAt(HeldAt(At)) = "declares")
         /\ HeldAt(At) \in Nat
         /\ t.role = "ends" => HeldAt(At) # 0
         /\ t.role \in {"declares", "names"} \/ (t.role = "none" /\ t.kind = "semicolon")
              => HeldAt(At) = 0
<1>0. /\ n \in Nat \ {0} /\ At = n /\ At' = n + 1 /\ Len(text') = n /\ RoleAt(n)' = t.role
      /\ \A i \in 1 .. n - 1 : RoleAt(i)' = RoleAt(i)
      /\ text \in Seq(Token) /\ t \in Token /\ ReadToken(t)
  BY ReadingKeeps DEF DelimiterInv, DelimiterTypeOK, Reads
<1>1. /\ t.kind \in Boundaries => Statement' = {}
      /\ t.kind \notin Boundaries => Statement' = Statement \cup {n}
  BY <1>0, StatementsGrow
<1>2. /\ StatementStart(At) \in 1 .. At
      /\ \A j \in Statement : j \in 1 .. Len(text)
      /\ t.role \in {"use", "declares", "names"} => t.kind = "identifier"
      /\ t.role = "ends" => \E j \in Statement : RoleAt(j) = "declares"
      /\ t.role \in {"declares", "names"} \/ (t.role = "none" /\ t.kind = "semicolon")
              => \A j \in Statement : RoleAt(j) # "declares"
  BY <1>0, PlacesAre
<1> DEFINE D == {j \in Statement : RoleAt(j) = "declares"}
           E == {j \in Statement' : RoleAt(j)' = "declares"}
<1>3. HeldAt(At) = Max({0} \cup D) /\ HeldAt(At)' = Max({0} \cup E)
  <2>1. Statement = StatementStart(At) .. At - 1 /\ Statement' = StatementStart(At)' .. At' - 1
    <3>1. At - 1 = Len(text) /\ At' - 1 = Len(text')
      BY <1>0
    <3> QED BY <3>1 DEF Statement
  <2> QED BY <2>1 DEF HeldAt
<1>4. \A j \in D : j \in Nat /\ j <= n /\ j \in Statement /\ RoleAt(j) = "declares" /\ j # 0
  BY <1>0, <1>2
<1>5. E = IF t.kind \in Boundaries THEN {} ELSE IF t.role = "declares" THEN D \cup {n} ELSE D
  <2>1. \A j \in Statement : j \in 1 .. n - 1 /\ j # n
    BY <1>0, <1>2
  <2> QED BY <1>0, <1>1, <2>1
<1>6. t.role \in {"declares", "names"} \/ (t.role = "none" /\ t.kind = "semicolon") => D = {}
  BY <1>2
<1>7. t.role = "ends" => D # {}
  BY <1>2
<1>8. \A m \in Nat : Max({m}) = m /\ (m # 0 => Max({0} \cup {m}) = m)
  <2> SUFFICES ASSUME NEW m \in Nat PROVE Max({m}) = m /\ (m # 0 => Max({0} \cup {m}) = m)
    OBVIOUS
  <2>1. Max({m}) \in {m} /\ Max({0} \cup {m}) \in {0} \cup {m} /\ Max({0} \cup {m}) >= m
    <3>1. {m} \in SUBSET Nat /\ {m} # {} /\ \A s \in {m} : s <= m
      OBVIOUS
    <3>2. {0} \cup {m} \in SUBSET Nat /\ {0} \cup {m} # {} /\ \A s \in {0} \cup {m} : s <= m
      OBVIOUS
    <3>3. Max({m}) \in {m}
      BY <3>1, MaxIsGreatest
    <3>4. Max({0} \cup {m}) \in {0} \cup {m} /\ \A s \in {0} \cup {m} : Max({0} \cup {m}) >= s
      BY <3>2, MaxIsGreatest
    <3> QED BY <3>3, <3>4
  <2>2. Max({m}) = m /\ (Max({0} \cup {m}) = 0 \/ Max({0} \cup {m}) = m)
    BY <2>1
  <2>3. Max({0} \cup {m}) = 0 => m = 0
    <3>1. \A x \in {0} : x >= m => m = 0
      OBVIOUS
    <3> QED BY <2>1, <3>1
  <2> QED BY <2>2, <2>3
<1> HIDE DEF D, E
<1>9. /\ HeldAt(At) \in {0} \cup D
      /\ D # {} => HeldAt(At) # 0
  <2>1. {0} \cup D \in SUBSET Nat /\ {0} \cup D # {} /\ \A j \in {0} \cup D : j <= n
    BY <1>0, <1>4
  <2>2. Max({0} \cup D) \in {0} \cup D /\ \A j \in {0} \cup D : Max({0} \cup D) >= j
    BY <1>0, <2>1, MaxIsGreatest
  <2>3. D # {} => Max({0} \cup D) # 0
    <3> SUFFICES ASSUME NEW j \in D PROVE Max({0} \cup D) # 0
      OBVIOUS
    <3>1. Max({0} \cup D) >= j /\ j \in Nat /\ j # 0
      BY <1>4, <2>2
    <3> QED BY <3>1
  <2> QED BY <1>3, <2>2, <2>3
<1>10. t.kind \in Boundaries => HeldAt(At)' = 0
  <2>1. Max({0} \cup {}) = 0
    <3>1. {0} \cup {} = {0}
      OBVIOUS
    <3> QED BY <1>8, <3>1
  <2> QED BY <1>3, <1>5, <2>1
<1>11. t.role = "declares" => HeldAt(At)' = n
  <2>1. t.role = "declares" => t.kind \notin Boundaries
    BY <1>2 DEF Boundaries
  <2>2. t.role = "declares" => {0} \cup E = {0} \cup {n}
    BY <1>5, <1>6, <2>1
  <2> QED BY <1>0, <1>3, <1>8, <2>2
<1>12. t.kind \notin Boundaries /\ t.role # "declares" => HeldAt(At)' = HeldAt(At)
  BY <1>3, <1>5
<1>13. HeldAt(At) = 0 \/ (HeldAt(At) \in Statement /\ RoleAt(HeldAt(At)) = "declares")
  BY <1>4, <1>9
<1>14. HeldAt(At) \in Nat
  BY <1>4, <1>9
<1> QED BY <1>6, <1>7, <1>9, <1>10, <1>11, <1>12, <1>13, <1>14

(* What reading a token does to the scopes that are open, as the author sees it *)
LEMMA ScopesMove ==
  ASSUME AuthorInv, NEW t \in Token, Means(t), t.role = "leaves" => Len(env) > 1,
         NEW n, n = Len(env)
  PROVE  /\ n \in Nat \ {0} /\ Len(env') \in Nat
         /\ env'[1].owner = env[1].owner
         /\ t.role \in Owners =>
              /\ Len(env') = n + 1
              /\ env'[n + 1] = [owner |-> t.role, bound |-> held, declared |-> {}]
              /\ \A k \in 1 .. n : env'[k] = env[k]
              /\ held' = {} /\ bindings' = bindings /\ clashes' = clashes
         /\ t.role = "leaves" =>
              /\ Len(env') = n - 1 /\ n > 1
              /\ \A k \in 1 .. n - 1 : env'[k] = env[k]
              /\ held' = held /\ bindings' = bindings /\ clashes' = clashes
         /\ t.role \notin Owners \cup {"leaves"} =>
              /\ Len(env') = n
              /\ \A k \in 1 .. n : env'[k].owner = env[k].owner /\ env'[k].bound = env[k].bound
<1>1. /\ env \in Seq(Frames) /\ n \in Nat \ {0} /\ DOMAIN env = 1 .. n
  BY DEF AuthorInv
<1>2. ASSUME NEW frame \in 1 .. n, NEW new, DeclareIn(frame, new)
      PROVE  /\ Len(env') = n
             /\ \A k \in 1 .. n : env'[k].owner = env[k].owner /\ env'[k].bound = env[k].bound
  <2>1. env' = [env EXCEPT ![frame].declared = @ \cup {new}]
    BY <1>2 DEF DeclareIn
  <2> DEFINE grown == [env[frame] EXCEPT !.declared = @ \cup {new}]
  <2>2. env' = [env EXCEPT ![frame] = grown]
    BY <2>1
  <2>3. env[frame] \in Frames
    BY <1>1
  <2>4. grown.owner = env[frame].owner /\ grown.bound = env[frame].bound
    BY <2>3 DEF Frames
  <2> HIDE DEF grown
  <2>5. /\ DOMAIN env' = 1 .. n
        /\ \A k \in 1 .. n : env'[k] = IF k = frame THEN grown ELSE env[k]
    BY <1>1, <2>2
  <2>6. env' \in Seq({grown} \cup Frames) /\ Len(env') = n
    BY <1>1, <2>2
  <2> QED BY <2>4, <2>5, <2>6
<1>3. 1 \in 1 .. n /\ Len(env) \in 1 .. n
  BY <1>1
<1>4. CASE t.role \in Owners
  <2> DEFINE new == [owner |-> t.role, bound |-> held, declared |-> {}]
  <2>1. env' = Append(env, new) /\ held' = {} /\ UNCHANGED <<bindings, clashes>>
    BY <1>4 DEF Means, Owners
  <2>2. /\ Len(env') = n + 1 /\ env'[n + 1] = new /\ \A k \in 1 .. n : env'[k] = env[k]
    <3> HIDE DEF new
    <3> QED BY <1>1, <2>1
  <2>3. n + 1 \in Nat /\ t.role # "leaves"
    BY <1>1, <1>4 DEF Owners
  <2> QED BY <1>1, <1>3, <1>4, <2>1, <2>2, <2>3
<1>5. CASE t.role = "leaves"
  <2>1. env' = SubSeq(env, 1, Len(env) - 1) /\ UNCHANGED <<held, bindings, clashes>>
    BY <1>5 DEF Means, Owners
  <2>2. n > 1 /\ n - 1 \in Nat /\ 1 \in 1 .. n - 1
    BY <1>1, <1>5
  <2>3. Len(env') = n - 1 /\ \A k \in 1 .. n - 1 : env'[k] = env[k]
    BY <1>1, <2>1, <2>2
  <2>4. "leaves" \notin Owners
    BY DEF Owners
  <2> QED BY <1>1, <1>5, <2>1, <2>2, <2>3, <2>4
<1>6. CASE t.role \notin Owners \cup {"leaves"}
  <2>1. \/ UNCHANGED env
        \/ \E frame \in 1 .. n : \E new : DeclareIn(frame, new)
    BY <1>3, <1>6 DEF Means
  <2>2. /\ Len(env') = n
        /\ \A k \in 1 .. n : env'[k].owner = env[k].owner /\ env'[k].bound = env[k].bound
    <3>1. CASE UNCHANGED env
      BY <1>1, <3>1
    <3>2. CASE \E frame \in 1 .. n : \E new : DeclareIn(frame, new)
      BY <1>2, <3>2
    <3> QED BY <2>1, <3>1, <3>2
  <2> QED BY <1>1, <1>3, <1>6, <2>2
<1> QED BY <1>4, <1>5, <1>6

(* The stack holds the braces of the scopes that are open and at most one more *)
(* opener, the bracket that waits in the statement that is being written.      *)
Framed ==
  /\ Len(stack) \in {Len(env) - 1, Len(env)}
  /\ \A k \in 1 .. Len(env) - 1 :
       KindAt(stack[k]) = "leftBrace" /\ RoleAt(stack[k]) = env[k + 1].owner
  /\ Len(stack) = Len(env) => Waiting(stack[Len(env)])
  /\ \A j \in Statement : Waiting(j) => Len(stack) = Len(env) /\ stack[Len(env)] = j

(* Every closer has its opener. *)
ClosersArePaired ==
  \A j \in 1 .. Len(text) : KindAt(j) \in Closers => \E o \in DOMAIN pairs : pairs[o] = j

(* A token read leaves brackets waiting for their closer or pairs them. *)
LEMMA WaitingGrows ==
  ASSUME DelimiterInv, NEW t \in Token, ReadToken(t), env'[1].owner = env[1].owner,
         NEW n, n = Len(text) + 1, NEW j
  PROVE  Waiting(j)' <=> /\ t.kind \notin Boundaries
                         /\ (j = n /\ t.kind \in Brackets) \/ (Waiting(j) /\ t.kind \notin Blockers)
<1>1. /\ n \in Nat \ {0} /\ At = n /\ Len(text') = n /\ Len(text) = n - 1 /\ KindAt(n)' = t.kind
      /\ \A i \in 1 .. n - 1 : KindAt(i)' = KindAt(i)
      /\ text \in Seq(Token) /\ Len(text) \in Nat
  BY ReadingKeeps DEF DelimiterInv, DelimiterTypeOK
<1>2. /\ t.kind \in Boundaries => Statement' = {}
      /\ t.kind \notin Boundaries => Statement' = Statement \cup {n}
  BY StatementsGrow
<1>3. Statement = StatementStart(At) .. n - 1 /\ StatementStart(At) \in 1 .. n
  BY <1>1, StatementsBegin DEF Statement
<1>4. \A i \in Statement : i \in 1 .. n - 1
  BY <1>1, <1>3
<1>5. Waiting(j)' <=> /\ j \in Statement' /\ KindAt(j)' \in Brackets
                      /\ \A c \in j + 1 .. n : KindAt(c)' \notin Blockers
  BY <1>1 DEF Waiting
<1>6. Waiting(j) <=> /\ j \in Statement /\ KindAt(j) \in Brackets
                     /\ \A c \in j + 1 .. n - 1 : KindAt(c) \notin Blockers
  BY <1>1 DEF Waiting
<1>7. CASE t.kind \in Boundaries
  BY <1>2, <1>5, <1>7
<1>8. CASE t.kind \notin Boundaries /\ j = n
  <2>1. (n + 1) .. n = {} /\ j \notin Statement
    BY <1>1, <1>4, <1>8
  <2> QED BY <1>1, <1>2, <1>5, <1>6, <1>8, <2>1
<1>9. CASE t.kind \notin Boundaries /\ j \notin Statement \cup {n}
  BY <1>2, <1>5, <1>6, <1>9
<1>10. CASE t.kind \notin Boundaries /\ j \in Statement
  <2>1. j \in 1 .. n - 1 /\ j # n
    BY <1>1, <1>4, <1>10
  <2>2. /\ \A c : c \in j + 1 .. n <=> c \in j + 1 .. n - 1 \/ c = n
        /\ \A c \in j + 1 .. n - 1 : c \in 1 .. n - 1
    BY <1>1, <2>1
  <2>3. (\A c \in j + 1 .. n : KindAt(c)' \notin Blockers)
          <=> t.kind \notin Blockers /\ \A c \in j + 1 .. n - 1 : KindAt(c) \notin Blockers
    BY <1>1, <2>2
  <2> QED BY <1>1, <1>2, <1>5, <1>6, <1>10, <2>1, <2>3
<1> QED BY <1>7, <1>8, <1>9, <1>10

(* What a token does to the open scopes it does to the delimiter stack. *)
LEMMA FramesMove ==
  ASSUME DelimiterInv, AuthorInv, Framed, NEW t, NEW form, NEW k, Reads(t, form, k),
         NEW n, n = Len(text) + 1, NEW e, e = Len(env)
  PROVE  /\ Framed'
         /\ t.kind \in Closers => PairCloser(t)
<1>1. /\ t \in Token /\ ReadToken(t) /\ Means(t) /\ (t.role = "leaves" => Len(env) > 1)
      /\ text \in Seq(Token) /\ stack \in Seq(1 .. Len(text)) /\ Len(text) \in Nat
      /\ DOMAIN stack = 1 .. Len(stack) /\ Len(stack) \in Nat
  BY DEF Reads, DelimiterInv, DelimiterTypeOK
<1>2. /\ e \in Nat \ {0} /\ Len(env') \in Nat
      /\ env'[1].owner = env[1].owner
      /\ t.role \in Owners =>
           /\ Len(env') = e + 1 /\ env'[e + 1].owner = t.role
           /\ \A m \in 1 .. e : env'[m] = env[m]
      /\ t.role = "leaves" => /\ Len(env') = e - 1 /\ e > 1
                              /\ \A m \in 1 .. e - 1 : env'[m] = env[m]
      /\ t.role \notin Owners \cup {"leaves"} =>
           /\ Len(env') = e /\ \A m \in 1 .. e : env'[m].owner = env[m].owner
  <2>1. [owner |-> t.role, bound |-> held, declared |-> {}].owner = t.role
    OBVIOUS
  <2>2. e \in Nat \ {0} /\ Len(env') \in Nat /\ env'[1].owner = env[1].owner
    BY <1>1, ScopesMove
  <2>3. t.role \in Owners =>
          /\ Len(env') = e + 1 /\ env'[e + 1] = [owner |-> t.role, bound |-> held, declared |-> {}]
          /\ \A m \in 1 .. e : env'[m] = env[m]
    BY <1>1, ScopesMove
  <2>4. t.role = "leaves" => /\ Len(env') = e - 1 /\ e > 1
                             /\ \A m \in 1 .. e - 1 : env'[m] = env[m]
    BY <1>1, ScopesMove
  <2>5. t.role \notin Owners \cup {"leaves"} =>
          /\ Len(env') = e /\ \A m \in 1 .. e : env'[m].owner = env[m].owner
    BY <1>1, ScopesMove
  <2> QED BY <2>1, <2>2, <2>3, <2>4, <2>5
<1>3. /\ n \in Nat \ {0} /\ Len(text') = n /\ KindAt(n)' = t.kind /\ RoleAt(n)' = t.role
      /\ \A i \in 1 .. n - 1 : KindAt(i)' = KindAt(i) /\ RoleAt(i)' = RoleAt(i)
      /\ Len(text) = n - 1
  BY <1>1, <1>2, ReadingKeeps
<1>4. /\ t.kind \in Brackets \cup Boundaries => \A j : ~ Waiting(j)
      /\ t.kind \in Blockers => \E j : Waiting(j) /\ KindAt(j) = MatchingOpen(t.kind)
      /\ t.role \in Owners <=> t.kind = "leftBrace"
      /\ t.role = "leaves" <=> t.kind = "rightBrace"
  BY <1>1, PlacesAre
<1>5. \A j : Waiting(j)' <=> /\ t.kind \notin Boundaries
                             /\ (j = n /\ t.kind \in Brackets) \/ (Waiting(j) /\ t.kind \notin Blockers)
  BY <1>1, <1>2, WaitingGrows
<1>6. /\ Len(stack) \in {e - 1, e}
      /\ \A m \in 1 .. e - 1 : KindAt(stack[m]) = "leftBrace" /\ RoleAt(stack[m]) = env[m + 1].owner
      /\ Len(stack) = e => Waiting(stack[e])
      /\ \A j \in Statement : Waiting(j) => Len(stack) = e /\ stack[e] = j
  BY DEF Framed
<1>7. \A j : Waiting(j) => Len(stack) = e /\ stack[e] = j
  BY <1>6 DEF Waiting
<1> DEFINE Grown ==
             /\ Len(stack') \in {Len(env') - 1, Len(env')}
             /\ \A m \in 1 .. Len(env') - 1, x \in 1 .. n :
                  stack'[m] = x => KindAt(x)' = "leftBrace" /\ RoleAt(x)' = env'[m + 1].owner
             /\ Len(stack') = Len(env') => \E x \in 1 .. n : stack'[Len(env')] = x /\ Waiting(x)'
             /\ \A x : Waiting(x)' => Len(stack') = Len(env') /\ stack'[Len(env')] = x
<1>8. ASSUME Grown, stack' \in Seq(1 .. n)
      PROVE  Framed'
  <2>1. ASSUME NEW m \in 1 .. Len(env') - 1
        PROVE  KindAt(stack[m])' = "leftBrace" /\ RoleAt(stack[m])' = env'[m + 1].owner
    <3>1. Len(env') - 1 <= Len(stack') /\ Len(stack') \in Nat
      BY <1>2, <1>8
    <3>2. stack'[m] \in 1 .. n
      BY <1>2, <1>8, <3>1
    <3> DEFINE x == stack'[m]
    <3> HIDE DEF x
    <3>3. PICK y \in 1 .. n : y = stack'[m]
      BY <3>2
    <3>4. KindAt(y)' = "leftBrace" /\ RoleAt(y)' = env'[m + 1].owner
      BY <1>8, <3>3
    <3> QED BY <3>3, <3>4 DEF KindAt, RoleAt
  <2>2. ASSUME Len(stack') = Len(env') PROVE Waiting(stack[Len(env)])'
    <3>1. PICK x \in 1 .. n : stack'[Len(env')] = x /\ Waiting(x)'
      BY <1>8, <2>2
    <3> QED BY <3>1 DEF Waiting, KindAt
  <2>3. \A j \in Statement' : Waiting(j)' => Len(stack') = Len(env') /\ stack'[Len(env')] = j
    BY <1>8
  <2>4. Len(stack') \in {Len(env') - 1, Len(env')}
    BY <1>8
  <2> QED BY <2>1, <2>2, <2>3, <2>4 DEF Framed
<1> SUFFICES Grown /\ stack' \in Seq(1 .. n) /\ (t.kind \in Closers => PairCloser(t))
  BY <1>8
<1>9. /\ \A m \in 1 .. Len(stack) : stack[m] \in 1 .. n - 1 /\ stack[m] \in 1 .. n
      /\ n \in 1 .. n
  BY <1>1, <1>3
<1>10. CASE t.kind \in Openers
  <2>1. PushOpener(t)
    BY <1>1, <1>10, OpenersAreNoClosers DEF ReadToken, PairCloser, ReportCloser, SkipToken, ClosesTop
  <2>2. stack' = Append(stack, n)
    BY <2>1 DEF PushOpener
  <2>3. /\ stack' \in Seq(1 .. n) /\ Len(stack') = Len(stack) + 1 /\ stack'[Len(stack) + 1] = n
        /\ \A m \in 1 .. Len(stack) : stack'[m] = stack[m]
    <3>1. stack \in Seq(1 .. n)
      BY <1>1, <1>9
    <3> QED BY <1>9, <2>2, <3>1
  <2>4. t.kind \in Brackets \cup Boundaries /\ t.kind \notin Blockers
    BY <1>10 DEF Openers, Brackets, Boundaries, Blockers
  <2>5. \A j : ~ Waiting(j)
    BY <1>4, <2>4
  <2>6. Len(stack) = e - 1
    BY <1>6, <2>5
  <2>7. CASE t.kind = "leftBrace"
    <3>1. Len(env') = e + 1 /\ env'[e + 1].owner = t.role /\ \A m \in 1 .. e : env'[m] = env[m]
      BY <1>2, <1>4, <2>7
    <3>2. \A x : ~ Waiting(x)'
      BY <1>5, <2>7 DEF Boundaries
    <3>3. ASSUME NEW m \in 1 .. Len(env') - 1, NEW x \in 1 .. n, stack'[m] = x
          PROVE  KindAt(x)' = "leftBrace" /\ RoleAt(x)' = env'[m + 1].owner
      <4>1. CASE m = e
        BY <1>2, <1>3, <2>3, <2>6, <2>7, <3>1, <3>3, <4>1
      <4>2. CASE m # e
        <5>1. m \in 1 .. e - 1 /\ m \in 1 .. Len(stack) /\ m + 1 \in 1 .. e
          BY <1>2, <2>6, <3>1, <4>2
        <5>2. x = stack[m] /\ x \in 1 .. n - 1
          BY <1>9, <2>3, <3>3, <5>1
        <5> QED BY <1>3, <1>6, <3>1, <5>1, <5>2
      <4> QED BY <4>1, <4>2
    <3>4. Len(stack') = e /\ Len(env') - 1 = e /\ Len(env') # e
      BY <1>2, <2>3, <2>6, <3>1
    <3> QED BY <1>10, <2>3, <3>2, <3>3, <3>4, OpenersAreNoClosers
  <2>8. CASE t.kind # "leftBrace"
    <3>1. t.kind \in Brackets /\ t.kind \notin Boundaries /\ t.kind # "rightBrace"
      BY <1>10, <2>8 DEF Openers, Brackets, Boundaries
    <3>2. Len(env') = e /\ \A m \in 1 .. e : env'[m].owner = env[m].owner
      BY <1>2, <1>4, <2>8, <3>1
    <3>3. \A x : Waiting(x)' <=> x = n
      BY <1>5, <2>4, <2>5, <3>1
    <3>4. ASSUME NEW m \in 1 .. Len(env') - 1, NEW x \in 1 .. n, stack'[m] = x
          PROVE  KindAt(x)' = "leftBrace" /\ RoleAt(x)' = env'[m + 1].owner
      <4>1. m \in 1 .. e - 1 /\ m \in 1 .. Len(stack) /\ m + 1 \in 1 .. e
        BY <1>2, <2>6, <3>2
      <4>2. x = stack[m] /\ x \in 1 .. n - 1
        BY <1>9, <2>3, <3>4, <4>1
      <4> QED BY <1>3, <1>6, <3>2, <4>1, <4>2
    <3>5. Len(stack') = e /\ stack'[e] = n
      BY <1>2, <2>3, <2>6
    <3> QED BY <1>9, <1>10, <2>3, <3>2, <3>3, <3>4, <3>5, OpenersAreNoClosers
  <2> QED BY <2>7, <2>8
<1>11. CASE t.kind \in Closers
  <2>1. PairCloser(t) /\ (Len(stack) = e <=> t.kind # "rightBrace") /\ Len(stack) > 0
    <3>1. CASE t.kind = "rightBrace"
      <4>1. e > 1 /\ Len(stack) = e - 1
        BY <1>2, <1>4, <1>6, <3>1 DEF Boundaries
      <4>2. KindAt(stack[e - 1]) = "leftBrace" /\ e - 1 \in 1 .. Len(stack)
        BY <1>2, <1>6, <4>1
      <4>3. text[stack[Len(stack)]].kind = MatchingOpen(t.kind) /\ stack # <<>>
        BY <1>1, <3>1, <4>1, <4>2, KindsAreInText DEF MatchingOpen
      <4>4. ClosesTop(t.kind)
        BY <1>11, <4>3 DEF ClosesTop
      <4> QED BY <1>1, <1>2, <1>11, <3>1, <4>1, <4>4, OpenersAreNoClosers
              DEF ReadToken, PushOpener, ReportCloser, SkipToken
    <3>2. CASE t.kind # "rightBrace"
      <4>1. t.kind \in Blockers
        BY <1>11, <3>2 DEF Closers, Blockers
      <4>2. PICK j : Waiting(j) /\ KindAt(j) = MatchingOpen(t.kind)
        BY <1>4, <4>1
      <4>3. Len(stack) = e /\ stack[e] = j
        BY <1>7, <4>2
      <4>4. MatchingOpen(t.kind) # "none"
        BY DEF MatchingOpen
      <4>5. text[stack[Len(stack)]].kind = MatchingOpen(t.kind) /\ stack # <<>>
        BY <1>1, <1>2, <4>2, <4>3, <4>4, KindsAreInText
      <4>6. ClosesTop(t.kind)
        BY <1>11, <4>5 DEF ClosesTop
      <4> QED BY <1>1, <1>2, <1>11, <3>2, <4>3, <4>6, OpenersAreNoClosers
              DEF ReadToken, PushOpener, ReportCloser, SkipToken
    <3> QED BY <3>1, <3>2
  <2>2. stack' = SubSeq(stack, 1, Len(stack) - 1)
    BY <2>1 DEF PairCloser
  <2>3. /\ stack' \in Seq(1 .. n) /\ Len(stack') = Len(stack) - 1
        /\ \A m \in 1 .. Len(stack) - 1 : stack'[m] = stack[m]
    <3>1. stack \in Seq(1 .. n)
      BY <1>1, <1>9
    <3> QED BY <1>1, <2>1, <2>2, <3>1
  <2>4. Len(stack') = Len(env') - 1 /\ Len(env') <= e
    <3>1. CASE t.kind = "rightBrace"
      BY <1>1, <1>2, <1>4, <1>6, <2>1, <2>3, <3>1
    <3>2. CASE t.kind # "rightBrace"
      <4>1. Len(env') = e
        BY <1>2, <1>4, <1>11, <3>2 DEF Closers
      <4> QED BY <1>2, <2>1, <2>3, <3>2, <4>1
    <3> QED BY <3>1, <3>2
  <2>5. \A m \in 1 .. Len(env') : env'[m].owner = env[m].owner
    <3>1. CASE t.kind = "rightBrace"
      BY <1>2, <1>4, <3>1
    <3>2. CASE t.kind # "rightBrace"
      BY <1>2, <1>4, <1>11, <3>2 DEF Closers
    <3> QED BY <3>1, <3>2
  <2>6. \A x : ~ Waiting(x)'
    <3>1. t.kind \in Boundaries \cup Blockers /\ t.kind \notin Brackets
      BY <1>11 DEF Closers, Boundaries, Blockers, Brackets
    <3> QED BY <1>5, <3>1
  <2>7. ASSUME NEW m \in 1 .. Len(env') - 1, NEW x \in 1 .. n, stack'[m] = x
        PROVE  KindAt(x)' = "leftBrace" /\ RoleAt(x)' = env'[m + 1].owner
    <3>1. m \in 1 .. e - 1 /\ m \in 1 .. Len(stack) - 1 /\ m \in 1 .. Len(stack) /\ m + 1 \in 1 .. Len(env')
      BY <1>1, <1>2, <2>3, <2>4
    <3>2. x = stack[m] /\ x \in 1 .. n - 1
      BY <1>9, <2>3, <2>7, <3>1
    <3> QED BY <1>3, <1>6, <2>5, <3>1, <3>2
  <2>8. Len(env') # Len(stack')
    BY <1>2, <2>4
  <2> QED BY <2>1, <2>3, <2>4, <2>6, <2>7, <2>8
<1>12. CASE t.kind \notin Openers \cup Closers
  <2>1. stack' = stack
    BY <1>1, <1>12 DEF ReadToken, PushOpener, PairCloser, ReportCloser, SkipToken, ClosesTop
  <2>2. t.kind \notin Brackets \cup Blockers /\ t.kind # "leftBrace" /\ t.kind # "rightBrace"
    BY <1>12 DEF Openers, Closers, Brackets, Blockers
  <2>3. Len(env') = e /\ \A m \in 1 .. e : env'[m].owner = env[m].owner
    BY <1>2, <1>4, <2>2
  <2>4. stack' \in Seq(1 .. n)
    BY <1>1, <1>9, <2>1
  <2>5. ASSUME NEW m \in 1 .. Len(env') - 1, NEW x \in 1 .. n, stack'[m] = x
        PROVE  KindAt(x)' = "leftBrace" /\ RoleAt(x)' = env'[m + 1].owner
    <3>1. m \in 1 .. e - 1 /\ m \in 1 .. Len(stack) /\ m + 1 \in 1 .. e
      BY <1>1, <1>2, <1>6, <2>3
    <3>2. x = stack[m] /\ x \in 1 .. n - 1
      BY <1>9, <2>1, <2>5, <3>1
    <3> QED BY <1>3, <1>6, <2>3, <3>1, <3>2
  <2>6. \A x : Waiting(x)' => Len(stack') = Len(env') /\ stack'[Len(env')] = x
    BY <1>5, <1>7, <2>1, <2>2, <2>3
  <2>7. ASSUME Len(stack') = Len(env') PROVE \E x \in 1 .. n : stack'[Len(env')] = x /\ Waiting(x)'
    <3>1. Waiting(stack[e]) /\ e \in 1 .. Len(stack)
      BY <1>1, <1>2, <1>6, <2>1, <2>3, <2>7
    <3>2. t.kind \notin Boundaries
      BY <1>4, <3>1
    <3>3. PICK y \in 1 .. n : y = stack[e]
      BY <1>9, <3>1
    <3>4. Waiting(y)'
      BY <1>5, <2>2, <3>1, <3>2, <3>3
    <3> QED BY <2>1, <2>3, <3>3, <3>4
  <2>8. Len(stack') \in {Len(env') - 1, Len(env')}
    BY <1>6, <2>1, <2>3
  <2> QED BY <1>12, <2>4, <2>5, <2>6, <2>7, <2>8
<1> QED BY <1>10, <1>11, <1>12

(* A closer that is read is paired. *)
LEMMA ClosersStayPaired ==
  ASSUME DelimiterInv, AuthorInv, Framed, ClosersArePaired, NEW t, NEW form, NEW k, Reads(t, form, k),
         NEW n, n = Len(text) + 1
  PROVE  ClosersArePaired'
<1>1. /\ t \in Token /\ ReadToken(t) /\ Means(t) /\ (t.role = "leaves" => Len(env) > 1)
      /\ stack \in Seq(1 .. Len(text)) /\ Len(text) \in Nat
  BY DEF Reads, DelimiterInv, DelimiterTypeOK
<1>2. env'[1].owner = env[1].owner
  BY <1>1, ScopesMove
<1>3. /\ n \in Nat \ {0} /\ Len(text') = n /\ KindAt(n)' = t.kind
      /\ \A i \in 1 .. n - 1 : KindAt(i)' = KindAt(i)
      /\ Len(text) = n - 1
  BY <1>1, <1>2, ReadingKeeps
<1>4. t.kind \in Closers => PairCloser(t)
  BY FramesMove
<1>5. \A o \in DOMAIN pairs : o \in DOMAIN pairs' /\ pairs'[o] = pairs[o]
  <2>1. CASE PairCloser(t)
    <3>1. Len(stack) \in DOMAIN stack
      BY <1>1, <2>1 DEF PairCloser, ClosesTop
    <3>2. stack[Len(stack)] \notin DOMAIN pairs
      BY <3>1 DEF DelimiterInv, OpenersWait
    <3> QED BY <2>1, <3>2 DEF PairCloser
  <2>2. CASE ~ PairCloser(t)
    BY <1>1, <2>2 DEF ReadToken, PushOpener, ReportCloser, SkipToken
  <2> QED BY <2>1, <2>2
<1>6. ASSUME NEW j \in 1 .. n, KindAt(j)' \in Closers
      PROVE  \E o \in DOMAIN pairs' : pairs'[o] = j
  <2>1. CASE j = n
    <3>1. PairCloser(t)
      BY <1>3, <1>4, <1>6, <2>1
    <3> DEFINE o == stack[Len(stack)]
    <3>2. pairs' = [i \in DOMAIN pairs \cup {o} |-> IF i = o THEN n ELSE pairs[i]]
      BY <3>1 DEF PairCloser
    <3> HIDE DEF o
    <3>3. o \in DOMAIN pairs' /\ pairs'[o] = n
      BY <3>2
    <3> QED BY <2>1, <3>3
  <2>2. CASE j # n
    <3>1. j \in 1 .. n - 1
      BY <1>3, <2>2
    <3>2. KindAt(j) \in Closers
      BY <1>3, <1>6, <3>1
    <3>3. PICK o \in DOMAIN pairs : pairs[o] = j
      BY <1>3, <3>1, <3>2 DEF ClosersArePaired
    <3> QED BY <1>5, <3>3
  <2> QED BY <2>1, <2>2
<1> QED BY <1>3, <1>6 DEF ClosersArePaired

(* Where the author leaves the record alone, so does what is said about it. *)
LEMMA FramesStay ==
  ASSUME UNCHANGED recordVars
  PROVE  /\ Framed => Framed'
         /\ ClosersArePaired => ClosersArePaired'
<1>1. text' = text /\ stack' = stack /\ pairs' = pairs /\ env' = env
  BY DEF recordVars
<1>2. Framed => Framed'
  BY <1>1, Zenon DEF Framed, Waiting, Statement, StatementStart, At, KindAt, RoleAt
<1>3. ClosersArePaired => ClosersArePaired'
  BY <1>1, Zenon DEF ClosersArePaired, KindAt
<1> QED BY <1>2, <1>3

FrameInv == slips = 0 => Framed /\ ClosersArePaired

(* The open scopes are the open braces. *)
LEMMA FramesHold == Spec => []FrameInv
<1>1. Init => FrameInv
  <2> SUFFICES ASSUME Init PROVE Framed /\ ClosersArePaired
    BY DEF FrameInv
  <2>1. text = <<>> /\ stack = <<>>
    BY DEF Init, DelimiterInit
  <2>2. Len(env) = 1
    BY DEF Init
  <2>3. Len(text) = 0 /\ Len(stack) = 0 /\ At = 1 /\ text \in Seq(Token)
    BY <2>1 DEF At
  <2>4. StatementStart(1) \in 1 .. 1
    BY <2>3, StatementsBegin
  <2>5. Statement = {}
    BY <2>3, <2>4 DEF Statement
  <2>6. ClosersArePaired
    BY <2>3 DEF ClosersArePaired
  <2> QED BY <2>2, <2>3, <2>5, <2>6 DEF Framed
<1>2. AnalysisInv /\ AuthorInv /\ LaidInv /\ FormInv /\ FrameInv /\ [Next]_vars => FrameInv'
  <2> SUFFICES ASSUME AnalysisInv, AuthorInv, LaidInv, FormInv, FrameInv, [Next]_vars, slips' = 0
               PROVE  Framed' /\ ClosersArePaired'
    BY DEF FrameInv
  <2>1. /\ slips = 0
        /\ \/ UNCHANGED recordVars
           \/ \E t \in Token, form \in Forms : \E k \in 1 .. Len(form.kinds) : Reads(t, form, k)
    BY StepsRead
  <2>2. Framed /\ ClosersArePaired /\ DelimiterInv
    BY <2>1 DEF FrameInv, AnalysisInv
  <2>3. CASE UNCHANGED recordVars
    BY <2>2, <2>3, FramesStay
  <2>4. ASSUME NEW t, NEW form, NEW k, Reads(t, form, k) PROVE Framed' /\ ClosersArePaired'
    BY <2>2, <2>4, FramesMove, ClosersStayPaired
  <2> QED BY <2>1, <2>3, <2>4
<1> QED
  BY <1>1, <1>2, DelimitersHold, RecordsHold, TextsAreLaid, TextsAreFormed, PTL DEF Spec

(* The open braces are those of the scopes the author has open. *)
LEMMA BracesAre ==
  ASSUME DelimiterInv, AuthorInv, Framed, NEW e, e = Len(env)
  PROVE  /\ e \in Nat \ {0}
         /\ \A m \in 1 .. e - 1 : m \in 1 .. Len(stack) /\ stack[m] \in 1 .. Len(text)
         /\ Braces(At) = {stack[m] : m \in 1 .. e - 1}
         /\ \A m, l \in 1 .. e - 1 : m < l => stack[m] < stack[l]
         /\ Innermost(At) = IF e = 1 THEN 0 ELSE stack[e - 1]
         /\ OwnerAt(At) = Owner
         /\ OutermostAt(At) = Block
<1>1. /\ text \in Seq(Token) /\ stack \in Seq(1 .. Len(text)) /\ Len(text) \in Nat
      /\ DOMAIN stack = 1 .. Len(stack) /\ Len(stack) \in Nat /\ e \in Nat \ {0}
      /\ DOMAIN text = 1 .. Len(text) /\ At = Len(text) + 1
      /\ pairs \in [DOMAIN pairs -> 1 .. Len(text)]
      /\ At \in Nat \ {0}
  BY DEF DelimiterInv, DelimiterTypeOK, AuthorInv, At
<1>2. /\ Len(stack) \in {e - 1, e}
      /\ \A m \in 1 .. e - 1 : KindAt(stack[m]) = "leftBrace" /\ RoleAt(stack[m]) = env[m + 1].owner
      /\ Len(stack) = e => KindAt(stack[e]) \in Brackets
  BY DEF Framed, Waiting
<1>3. \A m \in 1 .. e - 1 : m \in 1 .. Len(stack) /\ stack[m] \in 1 .. Len(text)
  <2>1. \A m \in 1 .. e - 1 : m \in 1 .. Len(stack)
    BY <1>1, <1>2
  <2> QED BY <1>1, <2>1
<1>4. ASSUME NEW m \in 1 .. e - 1 PROVE stack[m] \in Braces(At)
  <2>1. stack[m] \notin DOMAIN pairs
    BY <1>1, <1>3 DEF DelimiterInv, OpenersWait
  <2>2. stack[m] \in 1 .. At - 1
    BY <1>1, <1>3
  <2> QED BY <1>2, <2>1, <2>2 DEF Braces
<1>5. ASSUME NEW b \in Braces(At) PROVE \E m \in 1 .. e - 1 : b = stack[m]
  <2>1. b \in 1 .. Len(text) /\ KindAt(b) = "leftBrace" /\ (b \in DOMAIN pairs => At <= pairs[b])
    BY <1>1, BracesAreBehind
  <2>2. b \notin DOMAIN pairs
    <3>1. b \in DOMAIN pairs => pairs[b] \in 1 .. Len(text)
      BY <1>1
    <3> QED BY <1>1, <2>1, <3>1
  <2>3. text[b].kind \in Openers
    BY <1>1, <2>1 DEF KindAt, Openers
  <2>4. PICK m \in DOMAIN stack : stack[m] = b
    BY <1>1, <2>1, <2>2, <2>3 DEF DelimiterInv, OpenersRemain
  <2>5. m # e \/ Len(stack) # e
    BY <1>2, <2>1, <2>4 DEF Brackets
  <2>6. m \in 1 .. e - 1
    BY <1>1, <1>2, <2>5
  <2> QED BY <2>4, <2>6
<1>6. Braces(At) = {stack[m] : m \in 1 .. e - 1}
  BY <1>4, <1>5
<1>7. \A m, l \in 1 .. e - 1 : m < l => stack[m] < stack[l]
  BY <1>1, <1>3 DEF DelimiterInv, StackRises
<1>8. CASE e = 1
  <2>1. Braces(At) = {}
    BY <1>6, <1>8
  <2>2. Innermost(At) = 0
    BY <1>1, <2>1, InnermostIs
  <2>3. Block = env[1].owner
    <3>1. {2, Len(env)} \in SUBSET Nat /\ {2, Len(env)} # {}
      BY <1>8
    <3>2. Min({2, Len(env)}) \in {2, Len(env)} /\ \A x \in {2, Len(env)} : Min({2, Len(env)}) <= x
      BY <3>1, MinIsLeast
    <3>3. Min({2, Len(env)}) = 1
      BY <1>8, <3>2
    <3> QED BY <3>3 DEF Block
  <2> QED BY <1>1, <1>3, <1>6, <1>7, <1>8, <2>1, <2>2, <2>3 DEF OwnerAt, OutermostAt, Owner
<1>9. CASE e # 1
  <2>1. e - 1 \in 1 .. e - 1 /\ 1 \in 1 .. e - 1 /\ (e - 1) + 1 = e
    BY <1>1, <1>9
  <2>2. Braces(At) # {} /\ stack[e - 1] \in Braces(At) /\ stack[1] \in Braces(At)
    BY <1>4, <2>1
  <2>3. /\ Max(Braces(At)) = Innermost(At) /\ Innermost(At) \in Braces(At) /\ Min(Braces(At)) \in Braces(At)
        /\ \A b \in Braces(At) : b <= Innermost(At) /\ Min(Braces(At)) <= b
    BY <1>1, <2>2, InnermostIs
  <2>4. Innermost(At) = stack[e - 1]
    <3>1. PICK m \in 1 .. e - 1 : Innermost(At) = stack[m]
      BY <1>5, <2>3
    <3>2. m < e - 1 => stack[m] < stack[e - 1]
      BY <1>7, <2>1
    <3>3. stack[e - 1] <= stack[m] /\ stack[m] \in Nat /\ stack[e - 1] \in Nat
      BY <1>3, <2>1, <2>2, <2>3, <3>1
    <3>4. m = e - 1
      BY <1>1, <3>2, <3>3
    <3> QED BY <3>1, <3>4
  <2>5. Min(Braces(At)) = stack[1]
    <3>1. PICK m \in 1 .. e - 1 : Min(Braces(At)) = stack[m]
      BY <1>5, <2>3
    <3>2. 1 < m => stack[1] < stack[m]
      BY <1>7, <2>1
    <3>3. stack[m] <= stack[1] /\ stack[m] \in Nat /\ stack[1] \in Nat
      BY <1>3, <2>1, <2>2, <2>3, <3>1
    <3>4. m = 1
      BY <1>1, <3>2, <3>3
    <3> QED BY <3>1, <3>4
  <2>6. RoleAt(stack[e - 1]) = env[e].owner /\ RoleAt(stack[1]) = env[2].owner
    BY <1>2, <2>1
  <2>7. Block = env[2].owner
    <3>1. {2, Len(env)} \in SUBSET Nat /\ {2, Len(env)} # {}
      BY <1>1
    <3>2. Min({2, Len(env)}) \in {2, Len(env)} /\ \A x \in {2, Len(env)} : Min({2, Len(env)}) <= x
      BY <3>1, MinIsLeast
    <3>3. Min({2, Len(env)}) = 2
      BY <1>1, <1>9, <3>2
    <3> QED BY <3>3 DEF Block
  <2>8. OwnerAt(At) = RoleAt(stack[e - 1]) /\ OutermostAt(At) = RoleAt(stack[1])
    BY <2>2, <2>3, <2>4, <2>5 DEF OwnerAt, OutermostAt
  <2> QED BY <1>1, <1>3, <1>6, <1>7, <1>9, <2>4, <2>6, <2>7, <2>8 DEF Owner
<1> QED BY <1>8, <1>9

-----------------------------------------------------------------------------
(* Each phrase stands where its author may write it. *)

Stands(form, b) == Granted(form, OwnerAt(b), Braces(b) # {}, {RoleAt(j) : j \in 1 .. b - 1})

Suited(s) ==
  \A i \in 1 .. Len(s) : \E form \in Forms, b \in 1 .. i :
    i < b + Len(form.kinds) /\ Lies(s, b, form) /\ b <= Len(text) /\ Stands(form, b)

SuitInv == slips = 0 => Suited(text \o pending)

(* A phrase that stands where it may goes on doing so. *)
LEMMA StandingKeeps ==
  ASSUME DelimiterInv, NEW t \in Token, ReadToken(t), env'[1].owner = env[1].owner,
         NEW form, NEW b \in 1 .. Len(text) + 1, Stands(form, b)
  PROVE  Stands(form, b)' /\ b <= Len(text')
<1> DEFINE before == {RoleAt(j) : j \in 1 .. b - 1}
<1>1. PICK n : n = Len(text) + 1
  OBVIOUS
<1>2. /\ n \in Nat \ {0} /\ Len(text') = n
      /\ \A i \in 1 .. n - 1 : RoleAt(i)' = RoleAt(i)
      /\ \A i \in 1 .. n : Braces(i)' = Braces(i) /\ OwnerAt(i)' = OwnerAt(i)
  BY <1>1, ReadingKeeps
<1>3. b \in 1 .. n /\ \A j \in 1 .. b - 1 : j \in 1 .. n - 1
  BY <1>1, <1>2
<1>4. {RoleAt(j) : j \in 1 .. b - 1}' = {RoleAt(j) : j \in 1 .. b - 1}
  BY <1>2, <1>3
<1> HIDE DEF before
<1>5. Stands(form, b)' <=> Granted(form, OwnerAt(b)', Braces(b)' # {}, before')
  BY DEF Stands, Granted, before
<1>6. before' = before /\ Braces(b)' = Braces(b) /\ OwnerAt(b)' = OwnerAt(b)
  BY <1>2, <1>3, <1>4 DEF before
<1>7. Granted(form, OwnerAt(b), Braces(b) # {}, before)
  BY DEF Stands, before
<1> QED BY <1>2, <1>3, <1>5, <1>6, <1>7

(* A text whose phrases stand where they may keeps them so with one token more. *)
LEMMA SuitingKeeps ==
  ASSUME DelimiterInv, NEW t \in Token, ReadToken(t), env'[1].owner = env[1].owner,
         NEW s, Suited(s)
  PROVE  Suited(s)'
<1> SUFFICES ASSUME NEW i \in 1 .. Len(s)
             PROVE  \E form \in Forms, b \in 1 .. i :
                      i < b + Len(form.kinds) /\ Lies(s, b, form) /\ b <= Len(text') /\ Stands(form, b)'
  BY DEF Suited
<1>1. PICK form \in Forms, b \in 1 .. i :
        i < b + Len(form.kinds) /\ Lies(s, b, form) /\ b <= Len(text) /\ Stands(form, b)
  BY DEF Suited
<1>2. Len(text) \in Nat
  BY DEF DelimiterInv, DelimiterTypeOK
<1>3. b \in 1 .. Len(text) + 1
  BY <1>1, <1>2
<1>4. Stands(form, b)' /\ b <= Len(text')
  BY <1>1, <1>3, StandingKeeps
<1> QED BY <1>1, <1>4

(* Where phrases may stand does not depend on anything but text and pairs. *)
LEMMA SuitsStay ==
  ASSUME UNCHANGED recordVars, pending' = pending, slips' = slips, SuitInv
  PROVE  SuitInv'
<1>1. text' = text /\ pairs' = pairs /\ env' = env
  BY DEF recordVars
<1>2. \A form, b : Stands(form, b)' <=> Stands(form, b)
  <2>1. \A i : RoleAt(i)' = RoleAt(i) /\ Braces(i)' = Braces(i)
    BY <1>1, Zenon DEF RoleAt, Braces, KindAt
  <2>2. \A i : OwnerAt(i)' = OwnerAt(i)
    BY <1>1, Zenon DEF OwnerAt, RoleAt, Braces, KindAt
  <2> SUFFICES ASSUME NEW form, NEW b PROVE Stands(form, b)' <=> Stands(form, b)
    OBVIOUS
  <2>3. {RoleAt(j) : j \in 1 .. b - 1}' = {RoleAt(j) : j \in 1 .. b - 1}
    BY <2>1
  <2> QED BY <2>1, <2>2, <2>3, Zenon DEF Stands
<1>3. \A s : Suited(s)' <=> Suited(s)
  BY <1>1, <1>2, Zenon DEF Suited
<1>4. (text \o pending)' = text \o pending
  BY <1>1
<1> QED BY <1>3, <1>4 DEF SuitInv

(* A phrase that is begun stands at the end of the text. *)
LEMMA BegunIsSuited ==
  ASSUME AnalysisInv, AuthorInv, LaidInv, FormInv, Framed, SuitInv, NEW p \in Phrases,
         pending = <<>>, slips = 0, Type(p)
  PROVE  SuitInv'
<1>1. /\ text \in Seq(Token) /\ DelimiterInv /\ Len(text) \in Nat /\ DOMAIN text = 1 .. Len(text)
  BY DEF AnalysisInv, DelimiterInv, DelimiterTypeOK
<1>2. p \in Seq(Token) /\ p # <<>>
  BY BegunIsFormed
<1>3. PICK form \in Forms :
        /\ Lies(text \o p, Len(text) + 1, form) /\ Len(p) = Len(form.kinds)
        /\ Granted(form, Owner, Len(env) > 1, {text[i].role : i \in DOMAIN text})
  BY BegunIsFormed
<1>4. text \o pending = text
  BY <1>1
<1>5. Suited(text)
  BY <1>4 DEF SuitInv
<1>6. Head(p) \in Token /\ ReadToken(Head(p)) /\ Means(Head(p)) /\ slips' = slips
      /\ text' = Append(text, Head(p)) /\ pending' = Tail(p)
  BY <1>2 DEF Type, ReadToken
<1>7. env'[1].owner = env[1].owner
  <2>1. Head(p).role = "leaves" => Len(env) > 1
    <3>1. StaysInside(p) => Head(p) \in Staying
      BY <1>2 DEF StaysInside
    <3>2. StaysInside(p) \/ Len(env) > 1
      BY PhrasesStayInside
    <3> QED BY <3>1, <3>2 DEF Staying
  <2> QED BY <1>6, <2>1, ScopesMove
<1>8. (text \o pending)' = text \o p
  <2>1. Append(text, Head(p)) \o Tail(p) = text \o p
    BY <1>1, <1>2
  <2> QED BY <1>6, <2>1
<1>9. Stands(form, Len(text) + 1)
  <2> DEFINE n == Len(text) + 1
             e == Len(env)
  <2>1. OwnerAt(At) = Owner /\ Braces(At) = {stack[m] : m \in 1 .. e - 1} /\ e \in Nat \ {0}
    BY <1>1, BracesAre
  <2>2. At = n /\ n - 1 = Len(text)
    BY <1>1 DEF At
  <2>3. Braces(n) # {} <=> Len(env) > 1
    <3>1. e = 1 => 1 .. e - 1 = {}
      OBVIOUS
    <3>2. e > 1 => 1 \in 1 .. e - 1
      BY <2>1
    <3>3. Braces(n) = {stack[m] : m \in 1 .. e - 1}
      BY <2>1, <2>2
    <3>4. e = 1 \/ e > 1
      BY <2>1
    <3>5. (1 .. e - 1 = {}) => Braces(n) = {}
      BY <3>3
    <3>6. (1 \in 1 .. e - 1) => Braces(n) # {}
      BY <3>3
    <3> QED BY <3>1, <3>2, <3>4, <3>5, <3>6
  <2>4. {RoleAt(j) : j \in 1 .. n - 1} = {text[i].role : i \in DOMAIN text}
    BY <1>1, <2>2 DEF RoleAt
  <2>5. OwnerAt(n) = Owner
    BY <2>1, <2>2
  <2> HIDE DEF n
  <2>6. Stands(form, n)
    <3>1. (Braces(n) # {}) = (Len(env) > 1)
      BY <2>3
    <3> QED BY <1>3, <2>4, <2>5, <3>1, Zenon DEF Stands
  <2> QED BY <2>6 DEF n
<1>10. \A b \in 1 .. Len(text) + 1 : Stands(form, b) => Stands(form, b)' /\ b <= Len(text')
  BY <1>1, <1>6, <1>7, StandingKeeps
<1>11. ASSUME NEW s, s = text \o p PROVE Suited(s)'
  <2>1. \A i \in 1 .. Len(s) : i \in 1 .. Len(text) \/ (Len(text) + 1 \in 1 .. i /\ i < Len(text) + 1 + Len(p))
    <3>1. Len(s) = Len(text) + Len(p) /\ Len(p) \in Nat
      BY <1>1, <1>2, <1>11
    <3> QED BY <1>1, <3>1
  <2> SUFFICES ASSUME NEW i \in 1 .. Len(s)
               PROVE  \E f \in Forms, b \in 1 .. i :
                        i < b + Len(f.kinds) /\ Lies(s, b, f) /\ b <= Len(text') /\ Stands(f, b)'
    BY DEF Suited
  <2>2. CASE i \in 1 .. Len(text)
    <3>1. PICK f \in Forms, b \in 1 .. i :
            i < b + Len(f.kinds) /\ Lies(text, b, f) /\ b <= Len(text) /\ Stands(f, b)
      BY <1>5, <2>2 DEF Suited
    <3>2. b \in Nat \ {0} /\ b \in 1 .. Len(text) + 1
      BY <1>1, <2>2
    <3>3. Lies(s, b, f)
      BY <1>1, <1>2, <1>11, <3>1, <3>2, LyingStays
    <3>4. Stands(f, b)' /\ b <= Len(text')
      BY <1>1, <1>6, <1>7, <3>1, <3>2, StandingKeeps
    <3> QED BY <3>1, <3>3, <3>4
  <2>3. CASE ~ (i \in 1 .. Len(text))
    <3> DEFINE b == Len(text) + 1
    <3>1. b \in 1 .. i /\ i < b + Len(form.kinds) /\ Lies(s, b, form) /\ Stands(form, b)
      BY <1>3, <1>9, <1>11, <2>1, <2>3
    <3>2. PICK c : c = b
      OBVIOUS
    <3> HIDE DEF b
    <3>3. b \in 1 .. Len(text) + 1
      BY <1>1 DEF b
    <3>4. Stands(form, c)' /\ c <= Len(text')
      BY <1>10, <3>1, <3>2, <3>3
    <3> QED BY <3>1, <3>2, <3>4
  <2> QED BY <2>2, <2>3
<1>12. PICK s : s = text \o p
  OBVIOUS
<1>13. Suited(s)' /\ (text \o pending)' = s
  BY <1>8, <1>11, <1>12
<1>14. Suited(text \o pending)'
  BY <1>13, Zenon DEF Suited
<1> QED BY <1>14 DEF SuitInv

(* Every phrase stands where the author may write it. *)
LEMMA SuitsHold == Spec => []SuitInv
<1>1. Init => SuitInv
  <2> SUFFICES ASSUME Init PROVE SuitInv
    OBVIOUS
  <2>1. text = <<>> /\ pending = <<>>
    BY DEF Init, DelimiterInit
  <2>2. <<>> \o <<>> = <<>> /\ Len(<<>>) = 0
    OBVIOUS
  <2> QED BY <2>1, <2>2 DEF SuitInv, Suited
<1>2. AnalysisInv /\ AuthorInv /\ LaidInv /\ FormInv /\ FrameInv /\ SuitInv /\ [Next]_vars => SuitInv'
  <2> SUFFICES ASSUME AnalysisInv, AuthorInv, LaidInv, FormInv, FrameInv, SuitInv, [Next]_vars, slips' = 0
               PROVE  SuitInv'
    BY DEF SuitInv
  <2>0. text \in Seq(Token) /\ pending \in Seq(Token) /\ DelimiterInv
        /\ slips \in 0 .. MaxSlips /\ MaxSlips \in Nat
    BY AuthorAssumption DEF AnalysisInv, DelimiterInv, DelimiterTypeOK, AuthorInv
  <2>1. \A p : Write(p) => Type(p) /\ slips = 0
    <3>1. \A p : ~ Slip(p)
      BY <2>0 DEF Slip
    <3> QED BY <3>1 DEF Write, Type
  <2>2. CASE Continue
    <3>1. pending # <<>> /\ Type(pending) /\ slips = 0
      BY <2>1, <2>2 DEF Continue
    <3> DEFINE t == Head(pending)
               s == text \o pending
    <3>2. /\ t \in Token /\ ReadToken(t) /\ Means(t) /\ text' = Append(text, t) /\ pending' = Tail(pending)
      BY <2>0, <3>1 DEF Type, ReadToken
    <3>3. t.role # "leaves"
      <4>1. t \in Staying
        BY <2>0, <3>1 DEF AuthorInv, StaysInside
      <4> QED BY <4>1 DEF Staying
    <3>4. env'[1].owner = env[1].owner
      <4> HIDE DEF t
      <4> QED BY <3>2, <3>3, ScopesMove
    <3>5. (text \o pending)' = s
      <4>1. Append(text, t) \o Tail(pending) = text \o pending
        BY <2>0, <3>1
      <4> QED BY <3>2, <4>1
    <3>6. PICK c : c = s
      OBVIOUS
    <3>7. Suited(c)
      BY <3>1, <3>6 DEF SuitInv
    <3> HIDE DEF t
    <3>8. Suited(c)'
      BY <2>0, <3>2, <3>4, <3>7, SuitingKeeps
    <3>9. (text \o pending)' = c
      BY <3>5, <3>6
    <3>10. Suited(text \o pending)'
      BY <3>8, <3>9, Zenon DEF Suited
    <3> QED BY <3>10 DEF SuitInv
  <2>3. CASE Begin
    <3>1. PICK p \in Phrases : Write(p)
      BY <2>3 DEF Begin
    <3>2. pending = <<>>
      BY <2>3 DEF Begin
    <3>3. Framed
      BY <2>1, <3>1 DEF FrameInv
    <3> QED BY <2>1, <3>1, <3>2, <3>3, BegunIsSuited
  <2>4. CASE Analyze \/ UNCHANGED vars
    <3>1. UNCHANGED recordVars /\ pending' = pending /\ slips' = slips
      BY <2>4 DEF Analyze, delimiterVars, authorVars, recordVars, vars
    <3> QED BY <3>1, SuitsStay
  <2> QED BY <2>2, <2>3, <2>4 DEF Next
<1> QED
  BY <1>1, <1>2, DelimitersHold, RecordsHold, TextsAreLaid, TextsAreFormed, FramesHold, PTL DEF Spec

-----------------------------------------------------------------------------
(* What the author has recorded, as a function of the text *)

Recorded(j) == [at |-> j, name |-> text[j].name, block |-> OutermostAt(j)]
Noted(j)    == IF j = 0 THEN {} ELSE {Recorded(j)}

(* The declarations whose scope has begun before token i *)
Declared(i) == {j \in 1 .. i - 1 : RoleAt(j) = "names"}
               \cup {HeldAt(e) : e \in {e \in 1 .. i - 1 : RoleAt(e) = "ends"}}
DeclaredFor(frame) == {j \in Declared(At) : FrameOf(j) = frame}

FramePos(k) == IF k = 1 THEN 0 ELSE stack[k - 1]

EndsDeclare ==
  \A e \in 1 .. Len(text) : RoleAt(e) = "ends" => HeldAt(e) # 0 /\ KindAt(e) = "semicolon"

Clash(j, l) == j # l /\ FrameOf(j) = FrameOf(l) /\ text[j].name = text[l].name

(* What a statement holds is the last name it declares. *)
LEMMA HeldIs ==
  ASSUME text \in Seq(Token), NEW i \in Nat \ {0}
  PROVE  /\ HeldAt(i) \in Nat
         /\ HeldAt(i) # 0 => /\ HeldAt(i) \in StatementStart(i) .. i - 1 /\ HeldAt(i) \in 1 .. i - 1
                             /\ HeldAt(i) \in 1 .. Len(text) /\ RoleAt(HeldAt(i)) = "declares"
         /\ \A j \in StatementStart(i) .. i - 1 : RoleAt(j) = "declares" => j <= HeldAt(i)
<1> DEFINE D == {j \in StatementStart(i) .. i - 1 : RoleAt(j) = "declares"}
<1>0. StatementStart(i) \in 1 .. i /\ i \in Nat
  BY StatementsBegin
<1>1. \A j \in D : j \in Nat /\ j <= i
  BY <1>0
<1>2. HeldAt(i) = Max({0} \cup D)
  BY DEF HeldAt
<1>3. \A j \in D : j \in StatementStart(i) .. i - 1 /\ RoleAt(j) = "declares"
  OBVIOUS
<1>4. \A j \in StatementStart(i) .. i - 1 : RoleAt(j) = "declares" => j \in D
  OBVIOUS
<1> HIDE DEF D
<1>5. {0} \cup D \in SUBSET Nat /\ {0} \cup D # {} /\ \A j \in {0} \cup D : j <= i
  BY <1>0, <1>1
<1>6. HeldAt(i) \in {0} \cup D /\ \A j \in {0} \cup D : HeldAt(i) >= j
  BY <1>0, <1>2, <1>5, MaxIsGreatest
<1>7. HeldAt(i) # 0 => HeldAt(i) \in StatementStart(i) .. i - 1 /\ RoleAt(HeldAt(i)) = "declares"
  BY <1>3, <1>6
<1>8. \A j : RoleAt(j) = "declares" => j \in 1 .. Len(text)
  BY DEF RoleAt
<1>9. HeldAt(i) # 0 => HeldAt(i) \in 1 .. i - 1
  BY <1>0, <1>7
<1>10. \A j \in StatementStart(i) .. i - 1 : RoleAt(j) = "declares" => j <= HeldAt(i)
  <2> SUFFICES ASSUME NEW j \in StatementStart(i) .. i - 1, RoleAt(j) = "declares" PROVE j <= HeldAt(i)
    OBVIOUS
  <2>1. j \in D /\ HeldAt(i) >= j
    BY <1>4, <1>6
  <2> QED BY <1>0, <1>1, <1>5, <1>6, <2>1
<1> QED BY <1>5, <1>6, <1>7, <1>8, <1>9, <1>10

(* A declaration is the name of a function, or was held up to the end of its statement. *)
LEMMA DeclaredAre ==
  ASSUME text \in Seq(Token), EndsDeclare, NEW i \in 1 .. Len(text) + 1, NEW j \in Declared(i)
  PROVE  /\ j \in 1 .. i - 1 /\ j \in 1 .. Len(text)
         /\ \/ RoleAt(j) = "names"
            \/ RoleAt(j) = "declares" /\ \E e \in j + 1 .. i - 1 : RoleAt(e) = "ends" /\ HeldAt(e) = j
<1>1. CASE j \in 1 .. i - 1 /\ RoleAt(j) = "names"
  <2>1. j \in 1 .. Len(text)
    BY <1>1 DEF RoleAt
  <2> QED BY <1>1, <2>1
<1>2. CASE \E e \in 1 .. i - 1 : RoleAt(e) = "ends" /\ j = HeldAt(e)
  <2>1. PICK e \in 1 .. i - 1 : RoleAt(e) = "ends" /\ j = HeldAt(e)
    BY <1>2
  <2>2. e \in 1 .. Len(text) /\ e \in Nat \ {0}
    <3>1. Len(text) \in Nat
      OBVIOUS
    <3> QED BY <3>1
  <2>3. HeldAt(e) # 0
    BY <2>1, <2>2 DEF EndsDeclare
  <2>4. j \in 1 .. e - 1 /\ j \in 1 .. Len(text) /\ RoleAt(j) = "declares"
    BY <2>1, <2>2, <2>3, HeldIs
  <2>5. j \in 1 .. i - 1 /\ e \in j + 1 .. i - 1
    BY <2>4
  <2> QED BY <2>1, <2>4, <2>5
<1> QED BY <1>1, <1>2 DEF Declared

(* Within a statement no brace opens or closes. *)
LEMMA SameBraces ==
  ASSUME DelimiterTypeOK, PairsNest, NEW i \in 1 .. Len(text) + 1, NEW j \in StatementStart(i) .. i
  PROVE  /\ j \in Nat \ {0} /\ StatementStart(j) = StatementStart(i)
         /\ Braces(j) = Braces(i) /\ Innermost(j) = Innermost(i)
         /\ OwnerAt(j) = OwnerAt(i) /\ OutermostAt(j) = OutermostAt(i)
<1>0. /\ text \in Seq(Token) /\ Len(text) \in Nat /\ DOMAIN text = 1 .. Len(text)
      /\ pairs \in [DOMAIN pairs -> 1 .. Len(text)] /\ i \in Nat \ {0}
  BY DEF DelimiterTypeOK
<1>1. /\ StatementStart(i) \in 1 .. i
      /\ \A b \in 1 .. i - 1 : KindAt(b) \in Boundaries => b < StatementStart(i)
      /\ StatementStart(i) = 1 \/ KindAt(StatementStart(i) - 1) \in Boundaries
  BY <1>0, StatementsBegin
<1>2. j \in Nat \ {0} /\ j <= i /\ StatementStart(i) \in 1 .. j
  BY <1>0, <1>1
<1>3. StatementStart(j) = StatementStart(i)
  <2>1. \A c \in StatementStart(i) .. j - 1 : KindAt(c) \notin Boundaries
    <3> SUFFICES ASSUME NEW c \in StatementStart(i) .. j - 1, KindAt(c) \in Boundaries PROVE FALSE
      OBVIOUS
    <3>1. c \in 1 .. i - 1
      BY <1>0, <1>1, <1>2
    <3> QED BY <1>1, <3>1
  <2> QED BY <1>0, <1>1, <1>2, <2>1, StartIs
<1>4. ASSUME NEW b \in Braces(j) PROVE b \in Braces(i)
  <2>1. b \in 1 .. j - 1 /\ KindAt(b) = "leftBrace" /\ (b \in DOMAIN pairs => j <= pairs[b])
        /\ b \in 1 .. Len(text)
    BY <1>0, BracesAreBehind
  <2>2. b \in 1 .. i - 1
    BY <1>0, <1>2, <2>1
  <2>3. ASSUME b \in DOMAIN pairs PROVE i <= pairs[b]
    <3>1. pairs[b] \in 1 .. Len(text) /\ text[b].kind = MatchingOpen(text[pairs[b]].kind)
          /\ text[pairs[b]].kind \in Closers
      BY <1>0, <2>3 DEF PairsNest
    <3>2. text[b].kind = "leftBrace"
      BY <1>0, <2>1 DEF KindAt
    <3>3. KindAt(pairs[b]) \in Boundaries
      BY <1>0, <3>1, <3>2 DEF MatchingOpen, Closers, KindAt, Boundaries
    <3>4. j <= pairs[b]
      BY <2>1, <2>3
    <3>5. pairs[b] \in 1 .. i - 1 => pairs[b] < StatementStart(i)
      BY <1>1, <3>3
    <3> QED BY <1>0, <1>1, <1>2, <3>1, <3>4, <3>5
  <2> QED BY <2>1, <2>2, <2>3 DEF Braces
<1>5. ASSUME NEW b \in Braces(i) PROVE b \in Braces(j)
  <2>1. b \in 1 .. i - 1 /\ KindAt(b) = "leftBrace" /\ (b \in DOMAIN pairs => i <= pairs[b])
        /\ b \in 1 .. Len(text)
    BY <1>0, BracesAreBehind
  <2>2. b \in 1 .. j - 1
    <3>1. b < StatementStart(i)
      BY <1>1, <2>1 DEF Boundaries
    <3> QED BY <1>0, <1>1, <1>2, <2>1, <3>1
  <2>3. b \in DOMAIN pairs => j <= pairs[b]
    <3>1. b \in DOMAIN pairs => pairs[b] \in 1 .. Len(text)
      BY <1>0
    <3> QED BY <1>0, <1>2, <2>1, <3>1
  <2> QED BY <2>1, <2>2, <2>3 DEF Braces
<1>6. Braces(j) = Braces(i)
  BY <1>4, <1>5
<1> QED BY <1>2, <1>3, <1>6 DEF Innermost, OwnerAt, OutermostAt

(* The name that is held is declared for the scope that is open, and is not *)
(* among the declarations yet.                                              *)
LEMMA HeldIsNew ==
  ASSUME DelimiterInv, AuthorInv, Framed, EndsDeclare, HeldAt(At) # 0
  PROVE  /\ HeldAt(At) \notin Declared(At)
         /\ FrameOf(HeldAt(At)) = IF Owner \in ProgramKinds THEN 0 ELSE FramePos(Len(env))
         /\ OutermostAt(HeldAt(At)) = Block
<1> DEFINE h == HeldAt(At)
<1>0. /\ DelimiterTypeOK /\ PairsNest /\ text \in Seq(Token) /\ Len(text) \in Nat
      /\ At = Len(text) + 1 /\ At \in 1 .. Len(text) + 1 /\ At \in Nat \ {0}
  BY DEF DelimiterInv, DelimiterTypeOK, At
<1>1. h \in StatementStart(At) .. At - 1 /\ h \in 1 .. At - 1 /\ RoleAt(h) = "declares"
  BY <1>0, HeldIs
<1>2. h \in StatementStart(At) .. At
  BY <1>0, <1>1, StatementsBegin
<1>3. Innermost(h) = Innermost(At) /\ OwnerAt(h) = OwnerAt(At) /\ OutermostAt(h) = OutermostAt(At)
  BY <1>0, <1>2, SameBraces
<1>4. OwnerAt(At) = Owner /\ OutermostAt(At) = Block /\ Innermost(At) = FramePos(Len(env))
  BY BracesAre DEF FramePos
<1>5. h \notin Declared(At)
  <2> SUFFICES ASSUME h \in Declared(At) PROVE FALSE
    OBVIOUS
  <2>1. PICK e \in h + 1 .. At - 1 : RoleAt(e) = "ends" /\ HeldAt(e) = h
    <3> HIDE DEF h
    <3> QED BY <1>0, <1>1, DeclaredAre
  <2>2. e \in 1 .. Len(text)
    BY <1>0, <1>1
  <2>3. KindAt(e) \in Boundaries
    BY <2>1, <2>2 DEF EndsDeclare, Boundaries
  <2>4. \A b \in 1 .. At - 1 : KindAt(b) \in Boundaries => b < StatementStart(At)
    BY <1>0, StatementsBegin
  <2>5. e < StatementStart(At) /\ StatementStart(At) \in Nat
    BY <1>0, <2>2, <2>3, <2>4, StatementsBegin
  <2> QED BY <1>0, <1>1, <2>1, <2>5
<1> HIDE DEF h
<1>6. FrameOf(h) = IF Owner \in ProgramKinds THEN 0 ELSE FramePos(Len(env))
  BY <1>1, <1>3, <1>4 DEF FrameOf
<1> QED BY <1>3, <1>4, <1>5, <1>6 DEF h

(* The scopes that stay open begin where they began. *)
LEMMA PlacesStay ==
  ASSUME DelimiterInv, AuthorInv, Framed, NEW t, NEW form, NEW k, Reads(t, form, k),
         NEW n, n = Len(text) + 1, NEW e, e = Len(env)
  PROVE  /\ \A m \in 1 .. e : FramePos(m) \in 0 .. n - 1
         /\ \A m, l \in 1 .. e : FramePos(m) = FramePos(l) => m = l
         /\ \A m \in 1 .. Len(env') : m <= e => FramePos(m)' = FramePos(m)
         /\ t.role \in Owners => FramePos(e + 1)' = n
<1>1. /\ t \in Token /\ ReadToken(t) /\ Means(t) /\ (t.role = "leaves" => Len(env) > 1)
      /\ text \in Seq(Token) /\ stack \in Seq(1 .. Len(text)) /\ Len(text) \in Nat
      /\ DOMAIN stack = 1 .. Len(stack) /\ Len(stack) \in Nat /\ DelimiterInv'
  BY ReadKeepsDelimiters DEF Reads, DelimiterInv, DelimiterTypeOK
<1>2. e \in Nat \ {0} /\ Len(env') \in Nat /\ (t.role \in Owners => Len(env') = e + 1)
  BY <1>1, ScopesMove
<1>3. Framed'
  BY FramesMove
<1>4. /\ Len(stack) \in {e - 1, e} /\ Len(stack') \in {Len(env') - 1, Len(env')}
      /\ t.role \in Owners <=> t.kind = "leftBrace"
  BY <1>1, <1>3, PlacesAre DEF Framed
<1>5. /\ \A m \in 1 .. e - 1 : m \in 1 .. Len(stack) /\ stack[m] \in 1 .. Len(text)
      /\ \A m, l \in 1 .. e - 1 : m < l => stack[m] < stack[l]
  BY BracesAre
<1>6. ASSUME NEW m \in 1 .. Len(stack'), m <= Len(stack) PROVE stack'[m] = stack[m]
  <2>0. m \in 1 .. Len(stack)
    BY <1>1, <1>6
  <2>1. CASE PushOpener(t)
    BY <1>1, <2>0, <2>1 DEF PushOpener
  <2>2. CASE PairCloser(t)
    <3>1. stack' = SubSeq(stack, 1, Len(stack) - 1) /\ Len(stack) > 0
      BY <1>1, <2>2 DEF PairCloser, ClosesTop
    <3>2. Len(stack') = Len(stack) - 1
      BY <1>1, <3>1
    <3> QED BY <1>1, <1>6, <3>1, <3>2
  <2>3. CASE ReportCloser(t) \/ SkipToken(t)
    BY <2>3 DEF ReportCloser, SkipToken
  <2> QED BY <1>1, <2>1, <2>2, <2>3 DEF ReadToken
<1>7. ASSUME NEW m \in 1 .. Len(env'), m <= e PROVE FramePos(m)' = FramePos(m)
  <2>1. CASE m = 1
    BY <2>1 DEF FramePos
  <2>2. CASE m # 1
    <3>1. m - 1 \in 1 .. Len(stack') /\ m - 1 <= Len(stack)
      <4>1. m - 1 \in 1 .. Len(env') - 1 /\ m - 1 <= e - 1
        BY <1>2, <1>7, <2>2
      <4>2. Len(stack') >= Len(env') - 1 /\ Len(stack') \in Int
        BY <1>2, <1>4
      <4>3. Len(stack) >= e - 1
        BY <1>2, <1>4
      <4> QED BY <1>1, <1>2, <4>1, <4>2, <4>3
    <3>2. stack'[m - 1] = stack[m - 1]
      BY <1>6, <3>1
    <3> QED BY <2>2, <3>2 DEF FramePos
  <2> QED BY <2>1, <2>2
<1>8. ASSUME t.role \in Owners PROVE FramePos(e + 1)' = n
  <2>1. t.kind = "leftBrace" /\ t.kind \in Openers
    BY <1>4, <1>8 DEF Openers
  <2>2. stack' = Append(stack, n)
    BY <1>1, <2>1, OpenersAreNoClosers DEF ReadToken, PushOpener, PairCloser, ReportCloser, SkipToken, ClosesTop
  <2>3. Len(stack') = Len(stack) + 1 /\ stack'[Len(stack) + 1] = n
    BY <1>1, <2>2
  <2>4. Len(stack) = e - 1
    <3>1. \A j : ~ Waiting(j)
      <4>1. t.kind \in Brackets \cup Boundaries
        BY <2>1 DEF Boundaries
      <4> QED BY <1>1, <4>1, PlacesAre
    <3>2. Len(stack) # e
      BY <3>1 DEF Framed
    <3> QED BY <1>4, <3>2
  <2>5. e + 1 # 1 /\ (e + 1) - 1 = Len(stack) + 1
    BY <1>2, <2>4
  <2> QED BY <2>3, <2>5 DEF FramePos
<1>9. \A m \in 1 .. e : FramePos(m) \in 0 .. n - 1 /\ (m # 1 => FramePos(m) = stack[m - 1] /\ m - 1 \in 1 .. e - 1)
  <2> SUFFICES ASSUME NEW m \in 1 .. e
               PROVE  FramePos(m) \in 0 .. n - 1 /\ (m # 1 => FramePos(m) = stack[m - 1] /\ m - 1 \in 1 .. e - 1)
    OBVIOUS
  <2>1. CASE m = 1
    BY <1>1, <2>1 DEF FramePos
  <2>2. CASE m # 1
    <3>1. m - 1 \in 1 .. e - 1
      BY <1>2, <2>2
    <3>2. stack[m - 1] \in 1 .. Len(text)
      BY <1>5, <3>1
    <3> QED BY <1>1, <2>2, <3>1, <3>2 DEF FramePos
  <2> QED BY <2>1, <2>2
<1>10. ASSUME NEW m \in 1 .. e, NEW l \in 1 .. e, m < l PROVE FramePos(m) < FramePos(l)
  <2>1. l # 1 /\ FramePos(l) = stack[l - 1] /\ l - 1 \in 1 .. e - 1 /\ stack[l - 1] \in 1 .. Len(text)
    BY <1>2, <1>5, <1>9, <1>10
  <2>2. CASE m = 1
    BY <2>1, <2>2 DEF FramePos
  <2>3. CASE m # 1
    <3>1. FramePos(m) = stack[m - 1] /\ m - 1 \in 1 .. e - 1 /\ m - 1 < l - 1
      BY <1>2, <1>9, <1>10, <2>3
    <3> QED BY <1>5, <2>1, <3>1
  <2> QED BY <2>2, <2>3
<1>11. \A m, l \in 1 .. e : FramePos(m) = FramePos(l) => m = l
  <2> SUFFICES ASSUME NEW m \in 1 .. e, NEW l \in 1 .. e, FramePos(m) = FramePos(l), m # l PROVE FALSE
    OBVIOUS
  <2>1. m < l \/ l < m
    BY <1>2
  <2>2. FramePos(m) < FramePos(l) \/ FramePos(l) < FramePos(m)
    BY <1>10, <2>1
  <2>3. FramePos(m) \in 0 .. n - 1 /\ FramePos(l) \in 0 .. n - 1
    BY <1>9
  <2> QED BY <1>1, <2>2, <2>3
<1> QED BY <1>7, <1>8, <1>9, <1>11

(* The declarations whose scope begins with token n, which is being read *)
Added(t, n) == IF t.role = "names" THEN {n} ELSE IF t.role = "ends" THEN {HeldAt(n)} ELSE {}

(* A token adds at most one declaration. *)
LEMMA DeclarationsGrow ==
  ASSUME DelimiterInv, EndsDeclare, NEW t \in Token, ReadToken(t), env'[1].owner = env[1].owner,
         NEW n, n = Len(text) + 1
  PROVE  /\ Declared(At)' = Declared(At) \cup Added(t, n)
         /\ \A j \in Declared(At) : j \in 1 .. n - 1 /\ FrameOf(j)' = FrameOf(j)
         /\ \A j \in 1 .. n - 1 : Recorded(j)' = Recorded(j) /\ Noted(j)' = Noted(j)
         /\ \A j, l \in 1 .. n - 1 : Clash(j, l)' <=> Clash(j, l)
         /\ \A f : DeclaredFor(f)' = DeclaredFor(f) \cup {a \in Added(t, n) : FrameOf(a)' = f}
<1>1. /\ n \in Nat \ {0} /\ At = n /\ At' = n + 1 /\ Len(text') = n /\ RoleAt(n)' = t.role
      /\ \A i \in 1 .. n - 1 : text'[i] = text[i] /\ RoleAt(i)' = RoleAt(i) /\ FrameOf(i)' = FrameOf(i)
      /\ \A i \in 1 .. n : HeldAt(i)' = HeldAt(i) /\ OutermostAt(i)' = OutermostAt(i)
      /\ text \in Seq(Token) /\ Len(text) = n - 1
  BY ReadingKeeps DEF DelimiterInv, DelimiterTypeOK
<1>2. \A i : i \in 1 .. (n + 1) - 1 <=> i \in 1 .. n - 1 \/ i = n
  BY <1>1
<1>3. \A i \in 1 .. n - 1 : i \in 1 .. n /\ i # n
  BY <1>1
<1>4. Declared(At)' = {j \in 1 .. (n + 1) - 1 : RoleAt(j)' = "names"}
                      \cup {HeldAt(x)' : x \in {x \in 1 .. (n + 1) - 1 : RoleAt(x)' = "ends"}}
  BY <1>1 DEF Declared
<1>5. Declared(At) = {j \in 1 .. n - 1 : RoleAt(j) = "names"}
                     \cup {HeldAt(x) : x \in {x \in 1 .. n - 1 : RoleAt(x) = "ends"}}
  BY <1>1 DEF Declared
<1>6. Declared(At)' = Declared(At) \cup Added(t, n)
  <2>1. {j \in 1 .. (n + 1) - 1 : RoleAt(j)' = "names"}
          = {j \in 1 .. n - 1 : RoleAt(j) = "names"} \cup (IF t.role = "names" THEN {n} ELSE {})
    BY <1>1, <1>2, <1>3
  <2>2. {HeldAt(x)' : x \in {x \in 1 .. (n + 1) - 1 : RoleAt(x)' = "ends"}}
          = {HeldAt(x) : x \in {x \in 1 .. n - 1 : RoleAt(x) = "ends"}}
            \cup (IF t.role = "ends" THEN {HeldAt(n)} ELSE {})
    <3>1. {x \in 1 .. (n + 1) - 1 : RoleAt(x)' = "ends"}
            = {x \in 1 .. n - 1 : RoleAt(x) = "ends"} \cup (IF t.role = "ends" THEN {n} ELSE {})
      BY <1>1, <1>2, <1>3
    <3>2. \A x \in 1 .. n : HeldAt(x)' = HeldAt(x)
      BY <1>1
    <3>3. n \in 1 .. n
      BY <1>1
    <3> QED BY <1>3, <3>1, <3>2, <3>3
  <2> QED BY <1>4, <1>5, <2>1, <2>2 DEF Added
<1>7. \A j \in Declared(At) : j \in 1 .. n - 1
  <2>1. At \in 1 .. Len(text) + 1
    BY <1>1
  <2> QED BY <1>1, <2>1, DeclaredAre
<1>8. \A j \in 1 .. n - 1 : Recorded(j)' = Recorded(j) /\ Noted(j)' = Noted(j)
  BY <1>1, <1>3 DEF Recorded, Noted
<1>9. \A j, l \in 1 .. n - 1 : Clash(j, l)' <=> Clash(j, l)
  BY <1>1 DEF Clash
<1>10. ASSUME NEW f PROVE DeclaredFor(f)' = DeclaredFor(f) \cup {a \in Added(t, n) : FrameOf(a)' = f}
  <2>1. DeclaredFor(f)' = {j \in Declared(At)' : FrameOf(j)' = f}
    BY DEF DeclaredFor
  <2> QED BY <1>1, <1>6, <1>7, <2>1 DEF DeclaredFor
<1> QED BY <1>1, <1>6, <1>7, <1>8, <1>9, <1>10

(* What the author has recorded is in the text. *)
Recording ==
  /\ EndsDeclare
  /\ held = Noted(HeldAt(At))
  /\ \A k \in 1 .. Len(env) : env[k].declared = {Recorded(j) : j \in DeclaredFor(FramePos(k))}
  /\ env[1].bound = {}
  /\ \A k \in 2 .. Len(env) : env[k].bound = Noted(HeldAt(FramePos(k)))
  /\ \A c \in clashes : \E j, l \in Declared(At) : Clash(j, l) /\ c = {j, l}
  /\ \A j, l \in Declared(At) : Clash(j, l) => {j, l} \in clashes

(* Declaring a name adds it to one frame, with what it clashes with there. *)
LEMMA DeclaringAdds ==
  ASSUME AuthorInv, NEW frame \in 1 .. Len(env), NEW new, DeclareIn(frame, new)
  PROVE  /\ Len(env') = Len(env)
         /\ \A k \in 1 .. Len(env) :
              /\ env'[k].bound = env[k].bound
              /\ env'[k].declared = env[k].declared \cup (IF k = frame THEN {new} ELSE {})
         /\ \A c : c \in clashes' <=> \/ c \in clashes
                                      \/ \E d \in env[frame].declared : d.name = new.name /\ c = {d.at, new.at}
<1>1. /\ env \in Seq(Frames) /\ DOMAIN env = 1 .. Len(env) /\ Len(env) \in Nat
  BY DEF AuthorInv
<1>2. env' = [env EXCEPT ![frame].declared = @ \cup {new}]
  BY DEF DeclareIn
<1> DEFINE grown == [env[frame] EXCEPT !.declared = @ \cup {new}]
<1>3. env' = [env EXCEPT ![frame] = grown]
  BY <1>2
<1>4. env[frame] \in Frames
  BY <1>1
<1>5. grown.bound = env[frame].bound /\ grown.declared = env[frame].declared \cup {new}
  BY <1>4 DEF Frames
<1> HIDE DEF grown
<1>6. /\ DOMAIN env' = 1 .. Len(env)
      /\ \A k \in 1 .. Len(env) : env'[k] = IF k = frame THEN grown ELSE env[k]
  BY <1>1, <1>3
<1>7. env' \in Seq({grown} \cup Frames) /\ Len(env') = Len(env)
  BY <1>1, <1>3
<1>8. \A k \in 1 .. Len(env) :
        /\ env'[k].bound = env[k].bound
        /\ env'[k].declared = env[k].declared \cup (IF k = frame THEN {new} ELSE {})
  BY <1>5, <1>6
<1>9. clashes' = clashes \cup Clashing(env[frame].declared, new)
  BY DEF DeclareIn
<1>10. \A c : c \in Clashing(env[frame].declared, new)
                <=> \E d \in env[frame].declared : d.name = new.name /\ c = {d.at, new.at}
  BY DEF Clashing, Named
<1> QED BY <1>7, <1>8, <1>9, <1>10

(* What the record says of a declaration that is new in the scope that begins *)
(* at FramePos(frame).                                                        *)
LEMMA NewDeclarations ==
  ASSUME DelimiterInv, AuthorInv, Framed, Recording, NEW t, NEW form, NEW k, Reads(t, form, k),
         NEW n, n = Len(text) + 1, NEW e, e = Len(env),
         NEW frame \in 1 .. e, NEW a \in 1 .. n, Added(t, n) = {a}, a \notin Declared(At),
         FrameOf(a)' = FramePos(frame),
         DeclareIn(frame, Recorded(a)')
  PROVE  /\ \A m \in 1 .. Len(env') : env'[m].declared = {Recorded(j)' : j \in DeclaredFor(FramePos(m))'}
         /\ \A c \in clashes' : \E j, l \in Declared(At)' : Clash(j, l)' /\ c = {j, l}
         /\ \A j, l \in Declared(At)' : Clash(j, l)' => {j, l} \in clashes'
<1>1. /\ t \in Token /\ ReadToken(t) /\ Means(t) /\ (t.role = "leaves" => Len(env) > 1)
  BY DEF Reads
<1>2. e \in Nat \ {0} /\ env'[1].owner = env[1].owner
  BY <1>1, ScopesMove
<1>3. /\ Len(env') = e
      /\ \A m \in 1 .. e :
           /\ env'[m].bound = env[m].bound
           /\ env'[m].declared = env[m].declared \cup (IF m = frame THEN {Recorded(a)'} ELSE {})
      /\ \A c : c \in clashes' <=>
           c \in clashes \/ \E d \in env[frame].declared : d.name = (Recorded(a)').name /\ c = {d.at, (Recorded(a)').at}
  BY DeclaringAdds
<1>4. EndsDeclare
  BY DEF Recording
<1>5. /\ Declared(At)' = Declared(At) \cup {a}
      /\ \A j \in Declared(At) : j \in 1 .. n - 1 /\ FrameOf(j)' = FrameOf(j)
      /\ \A j \in 1 .. n - 1 : Recorded(j)' = Recorded(j)
      /\ \A j, l \in 1 .. n - 1 : Clash(j, l)' <=> Clash(j, l)
      /\ \A f : DeclaredFor(f)' = DeclaredFor(f) \cup {x \in {a} : FrameOf(x)' = f}
  BY <1>1, <1>2, <1>4, DeclarationsGrow
<1>6. /\ \A m, l \in 1 .. e : FramePos(m) = FramePos(l) => m = l
      /\ \A m \in 1 .. Len(env') : m <= e => FramePos(m)' = FramePos(m)
  BY PlacesStay
<1>7. /\ \A m \in 1 .. e : env[m].declared = {Recorded(j) : j \in DeclaredFor(FramePos(m))}
      /\ \A c \in clashes : \E j, l \in Declared(At) : Clash(j, l) /\ c = {j, l}
      /\ \A j, l \in Declared(At) : Clash(j, l) => {j, l} \in clashes
  BY DEF Recording
<1>8. \A f : \A j \in DeclaredFor(f) : j \in Declared(At) /\ FrameOf(j) = f
  BY DEF DeclaredFor
<1>9. ASSUME NEW m \in 1 .. Len(env')
      PROVE  env'[m].declared = {Recorded(j)' : j \in DeclaredFor(FramePos(m))'}
  <2>1. m \in 1 .. e /\ m <= e
    BY <1>2, <1>3
  <2>2. PICK f : f = FramePos(m)
    OBVIOUS
  <2>3. DeclaredFor(FramePos(m))' = DeclaredFor(f) \cup {x \in {a} : FrameOf(x)' = f}
    BY <1>5, <1>6, <2>1, <2>2
  <2>4. {x \in {a} : FrameOf(x)' = f} = IF m = frame THEN {a} ELSE {}
    <3>1. FrameOf(a)' = f <=> m = frame
      BY <1>6, <2>1, <2>2
    <3> QED BY <3>1
  <2>5. {Recorded(j)' : j \in DeclaredFor(f)} = {Recorded(j) : j \in DeclaredFor(f)}
    BY <1>5, <1>8
  <2>6. env'[m].declared = {Recorded(j) : j \in DeclaredFor(f)} \cup (IF m = frame THEN {Recorded(a)'} ELSE {})
    BY <1>3, <1>7, <2>1, <2>2
  <2>7. DeclaredFor(FramePos(m))' = DeclaredFor(f) \cup (IF m = frame THEN {a} ELSE {})
    BY <2>3, <2>4
  <2> DEFINE R(j) == Recorded(j)'
  <2>8. {R(j) : j \in DeclaredFor(FramePos(m))'} = {R(j) : j \in DeclaredFor(f)} \cup (IF m = frame THEN {R(a)} ELSE {})
    <3> HIDE DEF R
    <3>1. CASE m = frame
      BY <2>7, <3>1
    <3>2. CASE m # frame
      BY <2>7, <3>2
    <3> QED BY <3>1, <3>2
  <2> QED BY <2>5, <2>6, <2>8
<1>10. /\ (Recorded(a)').name = text'[a].name /\ (Recorded(a)').at = a
       /\ \A j \in 1 .. n - 1 : Recorded(j).at = j /\ Recorded(j).name = text'[j].name
  <2>1. \A j \in 1 .. n - 1 : Recorded(j).at = j /\ Recorded(j).name = text[j].name
    BY DEF Recorded
  <2>2. \A j \in 1 .. n - 1 : text'[j] = text[j]
    BY <1>1, <1>2, ReadingKeeps
  <2> QED BY <2>1, <2>2 DEF Recorded
<1>11. ASSUME NEW j \in Declared(At)
       PROVE  /\ Clash(j, a)' <=> FrameOf(j) = FramePos(frame) /\ text'[j].name = text'[a].name
              /\ Clash(a, j)' <=> Clash(j, a)'
  <2>1. j # a /\ FrameOf(j)' = FrameOf(j)
    BY <1>5
  <2> QED BY <2>1 DEF Clash
<1>12. ASSUME NEW c \in clashes'
       PROVE  \E j, l \in Declared(At)' : Clash(j, l)' /\ c = {j, l}
  <2>1. CASE c \in clashes
    BY <1>5, <1>7, <2>1
  <2>2. CASE \E d \in env[frame].declared : d.name = (Recorded(a)').name /\ c = {d.at, (Recorded(a)').at}
    <3>1. PICK d \in env[frame].declared : d.name = (Recorded(a)').name /\ c = {d.at, (Recorded(a)').at}
      BY <2>2
    <3>2. PICK j \in DeclaredFor(FramePos(frame)) : d = Recorded(j)
      BY <1>7, <3>1
    <3>3. j \in Declared(At) /\ FrameOf(j) = FramePos(frame) /\ j \in 1 .. n - 1
      BY <1>5, <1>8, <3>2
    <3>4. Clash(j, a)' /\ c = {j, a}
      BY <1>10, <1>11, <3>1, <3>2, <3>3
    <3> QED BY <1>5, <3>3, <3>4
  <2> QED BY <1>3, <2>1, <2>2
<1>13. ASSUME NEW j \in Declared(At), Clash(j, a)'
       PROVE  {j, a} \in clashes'
  <2>1. FrameOf(j) = FramePos(frame) /\ text'[j].name = text'[a].name /\ j \in 1 .. n - 1
    BY <1>5, <1>11, <1>13
  <2>2. Recorded(j) \in env[frame].declared
    BY <1>7, <1>13, <2>1 DEF DeclaredFor
  <2>3. Recorded(j).name = (Recorded(a)').name /\ {j, a} = {Recorded(j).at, (Recorded(a)').at}
    BY <1>10, <2>1
  <2> QED BY <1>3, <2>2, <2>3
<1>14. ASSUME NEW j \in Declared(At)', NEW l \in Declared(At)', Clash(j, l)'
       PROVE  {j, l} \in clashes'
  <2>1. CASE j \in Declared(At) /\ l \in Declared(At)
    BY <1>3, <1>5, <1>7, <1>14, <2>1
  <2>2. CASE j = a /\ l = a
    BY <1>14, <2>2 DEF Clash
  <2>3. CASE j \in Declared(At) /\ l = a
    BY <1>13, <1>14, <2>3
  <2>4. CASE j = a /\ l \in Declared(At)
    <3>1. {l, a} \in clashes'
      BY <1>11, <1>13, <1>14, <2>4
    <3>2. {l, a} = {j, l}
      BY <2>4
    <3> QED BY <3>1, <3>2
  <2> QED BY <1>5, <2>1, <2>2, <2>3, <2>4
<1> QED BY <1>9, <1>12, <1>14

(* The name that is held is the one the statement has declared. *)
LEMMA HoldingIsRecorded ==
  ASSUME DelimiterInv, AuthorInv, Framed, Recording, NEW t, NEW form, NEW k, Reads(t, form, k),
         NEW n, n = Len(text) + 1
  PROVE  held' = Noted(HeldAt(At))' /\ EndsDeclare'
<1>1. /\ t \in Token /\ ReadToken(t) /\ Means(t) /\ (t.role = "leaves" => Len(env) > 1)
      /\ text \in Seq(Token) /\ EndsDeclare /\ held = Noted(HeldAt(At))
  BY DEF Reads, DelimiterInv, DelimiterTypeOK, Recording
<1>2. env'[1].owner = env[1].owner
  BY <1>1, ScopesMove
<1>3. /\ n \in Nat \ {0} /\ At = n /\ Len(text') = n /\ Len(text) = n - 1
      /\ text'[n] = t /\ RoleAt(n)' = t.role /\ KindAt(n)' = t.kind
      /\ \A i \in 1 .. n - 1 : KindAt(i)' = KindAt(i) /\ RoleAt(i)' = RoleAt(i)
      /\ \A i \in 1 .. n : HeldAt(i)' = HeldAt(i) /\ OutermostAt(i)' = OutermostAt(i)
  BY <1>1, <1>2, ReadingKeeps
<1>4. /\ t.role \in Owners <=> t.kind = "leftBrace"
      /\ t.role = "leaves" <=> t.kind = "rightBrace"
      /\ t.kind = "rightBrace" => Statement = {}
      /\ t.role \in {"use", "declares", "names"} => t.kind = "identifier"
      /\ t.role = "ends" => t.kind = "semicolon"
  BY <1>1, PlacesAre
<1>5. /\ t.kind \in Boundaries => HeldAt(At)' = 0
      /\ t.role = "declares" => HeldAt(At)' = n
      /\ t.kind \notin Boundaries /\ t.role # "declares" => HeldAt(At)' = HeldAt(At)
      /\ HeldAt(At) = 0 \/ HeldAt(At) \in Statement
      /\ HeldAt(At) \in Nat
      /\ t.role = "ends" => HeldAt(At) # 0
      /\ t.role = "none" /\ t.kind = "semicolon" => HeldAt(At) = 0
  BY <1>2, HoldingGrows
<1>6. \A j \in 1 .. n - 1 : Noted(j)' = Noted(j)
  BY <1>1, <1>2, DeclarationsGrow
<1>7. Boundaries = {"leftBrace", "rightBrace", "semicolon"}
  BY DEF Boundaries
<1>8. \A i : i = 0 => Noted(i) = {} /\ Noted(i)' = {}
  BY DEF Noted
<1>9. held' = Noted(HeldAt(At))'
  <2>1. CASE t.role = "declares"
    <3>1. held' = {Declaration(n, t.name)}
      BY <1>1, <1>3, <2>1 DEF Means, Owners, At
    <3>2. OutermostAt(n)' = Block
      <4>1. OutermostAt(At) = Block
        BY BracesAre
      <4>2. n \in 1 .. n
        BY <1>3
      <4> QED BY <1>3, <4>1, <4>2
    <3>3. Recorded(n)' = Declaration(n, t.name)
      BY <1>3, <3>2 DEF Recorded, Declaration
    <3>4. Noted(n)' = {Recorded(n)'}
      BY <1>3 DEF Noted
    <3>5. Noted(HeldAt(At))' = Noted(n)'
      BY <1>5, <2>1 DEF Noted
    <3> QED BY <3>1, <3>3, <3>4, <3>5
  <2>2. CASE t.role = "ends" \/ t.role \in Owners
    <3>1. held' = {}
      BY <1>1, <2>2 DEF Means, Owners
    <3>2. HeldAt(At)' = 0
      BY <1>4, <1>5, <1>7, <2>2
    <3> QED BY <3>1, <3>2 DEF Noted
  <2>3. CASE t.role \notin {"declares", "ends"} \cup Owners
    <3>1. held' = held
      BY <1>1, <2>3 DEF Means, DeclareIn
    <3>2. CASE t.kind \in Boundaries
      <4>1. t.kind = "rightBrace" \/ (t.kind = "semicolon" /\ t.role = "none")
        <5>1. t.role \in {"none", "use", "names", "leaves"}
          BY <1>1, <2>3 DEF Means
        <5> QED BY <1>4, <1>7, <2>3, <3>2, <5>1
      <4>2. HeldAt(At) = 0
        BY <1>4, <1>5, <4>1
      <4>3. held = {} /\ HeldAt(At)' = 0
        BY <1>1, <1>5, <3>2, <4>2 DEF Noted
      <4> QED BY <3>1, <4>3 DEF Noted
    <3>3. CASE t.kind \notin Boundaries
      <4>1. HeldAt(At)' = HeldAt(At)
        BY <1>5, <2>3, <3>3
      <4>2. PICK h : h = HeldAt(At)
        OBVIOUS
      <4>3. h = 0 \/ h \in 1 .. n - 1
        <5>0. At \in Nat \ {0}
          BY <1>3
        <5>1. HeldAt(At) # 0 => HeldAt(At) \in 1 .. At - 1
          BY <1>1, <5>0, HeldIs
        <5> QED BY <1>3, <4>2, <5>1
      <4>4. Noted(h)' = Noted(h)
        BY <1>6, <1>8, <4>3
      <4>5. Noted(HeldAt(At))' = Noted(h)'
        BY <4>1, <4>2 DEF Noted
      <4> QED BY <1>1, <3>1, <4>2, <4>4, <4>5
    <3> QED BY <3>2, <3>3
  <2> QED BY <2>1, <2>2, <2>3
<1>10. EndsDeclare'
  <2> SUFFICES ASSUME NEW i \in 1 .. Len(text'), RoleAt(i)' = "ends"
               PROVE  HeldAt(i)' # 0 /\ KindAt(i)' = "semicolon"
    BY DEF EndsDeclare
  <2>1. CASE i \in 1 .. n - 1
    <3>1. i \in 1 .. Len(text) /\ i \in 1 .. n
      BY <1>3, <2>1
    <3> QED BY <1>1, <1>3, <2>1, <3>1 DEF EndsDeclare
  <2>2. CASE i = n
    <3>1. n \in 1 .. n
      BY <1>3
    <3> QED BY <1>3, <1>4, <1>5, <2>2, <3>1
  <2> QED BY <1>3, <2>1, <2>2
<1> QED BY <1>9, <1>10

(* The scopes that stay open keep what their heads bound, and what is declared *)
(* for them when nothing is added.                                             *)
LEMMA OpenScopesKeep ==
  ASSUME DelimiterInv, AuthorInv, Framed, Recording, NEW t, NEW form, NEW k, Reads(t, form, k),
         NEW n, n = Len(text) + 1, NEW e, e = Len(env)
  PROVE  /\ \A m \in 2 .. Len(env') : m <= e => Noted(HeldAt(FramePos(m)))' = env[m].bound
         /\ Added(t, n) = {} =>
              /\ \A m \in 1 .. Len(env') : m <= e =>
                   {Recorded(j)' : j \in DeclaredFor(FramePos(m))'} = env[m].declared
              /\ \A j \in Declared(At)' : FrameOf(j)' \in 0 .. n - 1
              /\ \A c \in clashes : \E j, l \in Declared(At)' : Clash(j, l)' /\ c = {j, l}
              /\ \A j, l \in Declared(At)' : Clash(j, l)' => {j, l} \in clashes
<1>1. /\ t \in Token /\ ReadToken(t) /\ Means(t) /\ (t.role = "leaves" => Len(env) > 1)
      /\ text \in Seq(Token) /\ Len(text) \in Nat /\ n \in Nat \ {0} /\ At = n /\ EndsDeclare
  BY DEF Reads, DelimiterInv, DelimiterTypeOK, Recording, At
<1>2. e \in Nat \ {0} /\ env'[1].owner = env[1].owner /\ Len(env') \in Nat
  BY <1>1, ScopesMove
<1>3. /\ \A m \in 1 .. e : FramePos(m) \in 0 .. n - 1
      /\ \A m, l \in 1 .. e : FramePos(m) = FramePos(l) => m = l
      /\ \A m \in 1 .. Len(env') : m <= e => FramePos(m)' = FramePos(m)
  BY PlacesStay
<1>4. /\ Declared(At)' = Declared(At) \cup Added(t, n)
      /\ \A j \in Declared(At) : j \in 1 .. n - 1 /\ FrameOf(j)' = FrameOf(j)
      /\ \A j \in 1 .. n - 1 : Recorded(j)' = Recorded(j) /\ Noted(j)' = Noted(j)
      /\ \A j, l \in 1 .. n - 1 : Clash(j, l)' <=> Clash(j, l)
      /\ \A f : DeclaredFor(f)' = DeclaredFor(f) \cup {a \in Added(t, n) : FrameOf(a)' = f}
  BY <1>1, <1>2, DeclarationsGrow
<1>5. \A i \in 1 .. n : HeldAt(i)' = HeldAt(i)
  BY <1>1, <1>2, ReadingKeeps
<1>6. ASSUME NEW m \in 2 .. Len(env'), m <= e PROVE Noted(HeldAt(FramePos(m)))' = env[m].bound
  <2>1. m \in 1 .. e /\ 1 \in 1 .. e /\ m \in 1 .. Len(env') /\ m # 1 /\ m \in 2 .. e
    BY <1>2, <1>6
  <2>2. PICK b : b = FramePos(m)
    OBVIOUS
  <2>3. FramePos(m)' = b /\ b \in 1 .. n - 1 /\ b \in 1 .. n
    <3>1. FramePos(1) = 0
      BY DEF FramePos
    <3>2. b # 0
      BY <1>3, <2>1, <2>2, <3>1
    <3> QED BY <1>1, <1>3, <1>6, <2>1, <2>2, <3>2
  <2>4. PICK h : h = HeldAt(b)
    OBVIOUS
  <2>5. h = 0 \/ h \in 1 .. n - 1
    <3>1. b \in Nat \ {0}
      BY <2>3
    <3>2. HeldAt(b) # 0 => HeldAt(b) \in 1 .. b - 1
      BY <1>1, <3>1, HeldIs
    <3> QED BY <1>1, <2>3, <2>4, <3>2
  <2>6. HeldAt(b)' = h
    BY <1>5, <2>3, <2>4
  <2>7. Noted(h)' = Noted(h)
    <3>1. h = 0 => Noted(h)' = Noted(h)
      BY DEF Noted
    <3> QED BY <1>4, <2>5, <3>1
  <2>8. Noted(HeldAt(FramePos(m)))' = Noted(h)'
    <3>1. HeldAt(FramePos(m))' = HeldAt(b)'
      BY <2>3 DEF HeldAt
    <3> QED BY <2>6, <3>1 DEF Noted
  <2>9. env[m].bound = Noted(HeldAt(FramePos(m)))
    BY <2>1 DEF Recording
  <2> QED BY <2>2, <2>4, <2>7, <2>8, <2>9
<1>7. ASSUME Added(t, n) = {}, NEW m \in 1 .. Len(env'), m <= e
      PROVE  {Recorded(j)' : j \in DeclaredFor(FramePos(m))'} = env[m].declared
  <2>1. m \in 1 .. e
    BY <1>2, <1>7
  <2>2. PICK f : f = FramePos(m)
    OBVIOUS
  <2>3. FramePos(m)' = f
    BY <1>3, <1>7, <2>2
  <2>4. DeclaredFor(FramePos(m))' = DeclaredFor(f)'
    BY <2>3 DEF DeclaredFor
  <2>5. DeclaredFor(f)' = DeclaredFor(f)
    BY <1>4, <1>7
  <2>6. \A j \in DeclaredFor(f) : Recorded(j)' = Recorded(j)
    BY <1>4 DEF DeclaredFor
  <2>7. env[m].declared = {Recorded(j) : j \in DeclaredFor(f)}
    BY <2>1, <2>2 DEF Recording
  <2> QED BY <2>4, <2>5, <2>6, <2>7
<1>8. ASSUME Added(t, n) = {}, NEW j \in Declared(At)' PROVE FrameOf(j)' \in 0 .. n - 1
  <2>1. j \in Declared(At)
    BY <1>4, <1>8
  <2>2. FrameOf(j)' = FrameOf(j) /\ j \in 1 .. n - 1 /\ j \in Nat \ {0}
    BY <1>4, <2>1
  <2>3. Innermost(j) = 0 \/ Innermost(j) \in 1 .. j - 1
    <3>1. Innermost(j) = 0 \/ Innermost(j) \in Braces(j)
      BY <1>1, <2>2, InnermostIs
    <3> QED BY <1>1, <3>1, BracesAreBehind
  <2> QED BY <1>1, <2>2, <2>3 DEF FrameOf
<1>9. ASSUME Added(t, n) = {}, NEW c \in clashes
      PROVE  \E j, l \in Declared(At)' : Clash(j, l)' /\ c = {j, l}
  <2>1. PICK j \in Declared(At), l \in Declared(At) : Clash(j, l) /\ c = {j, l}
    BY DEF Recording
  <2> QED BY <1>4, <2>1
<1>10. ASSUME Added(t, n) = {}, NEW j \in Declared(At)', NEW l \in Declared(At)', Clash(j, l)'
       PROVE  {j, l} \in clashes
  <2>1. j \in Declared(At) /\ l \in Declared(At)
    BY <1>4, <1>10
  <2>2. Clash(j, l)
    BY <1>4, <1>10, <2>1
  <2> QED BY <2>1, <2>2 DEF Recording
<1> QED BY <1>6, <1>7, <1>8, <1>9, <1>10

(* Reading a token keeps the record in step with the text. *)
LEMMA RecordingKeeps ==
  ASSUME DelimiterInv, AuthorInv, Framed, Recording, NEW t, NEW form, NEW k, Reads(t, form, k)
  PROVE  Recording'
<1>0. PICK n, e : n = Len(text) + 1 /\ e = Len(env)
  OBVIOUS
<1>1. /\ t \in Token /\ ReadToken(t) /\ Means(t) /\ (t.role = "leaves" => Len(env) > 1)
      /\ text \in Seq(Token) /\ Len(text) \in Nat /\ n \in Nat \ {0} /\ At = n /\ EndsDeclare
      /\ held = Noted(HeldAt(At)) /\ env[1].bound = {}
      /\ \A m \in 2 .. e : env[m].bound = Noted(HeldAt(FramePos(m)))
  BY <1>0 DEF Reads, DelimiterInv, DelimiterTypeOK, Recording, At
<1>2. /\ e \in Nat \ {0} /\ env'[1].owner = env[1].owner /\ Len(env') \in Nat
      /\ t.role \in Owners =>
           /\ Len(env') = e + 1
           /\ env'[e + 1] = [owner |-> t.role, bound |-> held, declared |-> {}]
           /\ \A m \in 1 .. e : env'[m] = env[m]
           /\ clashes' = clashes
      /\ t.role = "leaves" =>
           /\ Len(env') = e - 1 /\ e > 1
           /\ \A m \in 1 .. e - 1 : env'[m] = env[m]
           /\ clashes' = clashes
      /\ t.role \notin Owners \cup {"leaves"} =>
           Len(env') = e /\ \A m \in 1 .. e : env'[m].bound = env[m].bound
  BY <1>0, <1>1, ScopesMove
<1>3. held' = Noted(HeldAt(At))' /\ EndsDeclare'
  BY <1>0, HoldingIsRecorded
<1>4. \A m \in 2 .. Len(env') : m <= e => Noted(HeldAt(FramePos(m)))' = env[m].bound
  BY <1>0, OpenScopesKeep
<1>5. Added(t, n) = {} =>
        /\ \A m \in 1 .. Len(env') : m <= e => {Recorded(j)' : j \in DeclaredFor(FramePos(m))'} = env[m].declared
        /\ \A j \in Declared(At)' : FrameOf(j)' \in 0 .. n - 1
        /\ \A c \in clashes : \E j, l \in Declared(At)' : Clash(j, l)' /\ c = {j, l}
        /\ \A j, l \in Declared(At)' : Clash(j, l)' => {j, l} \in clashes
  BY <1>0, OpenScopesKeep
<1>6. /\ Len(text') = n /\ text'[n] = t /\ RoleAt(n)' = t.role
      /\ \A i \in 1 .. n : HeldAt(i)' = HeldAt(i) /\ OutermostAt(i)' = OutermostAt(i)
  BY <1>0, <1>1, <1>2, ReadingKeeps
<1>7. /\ \A m \in 1 .. e : FramePos(m) \in 0 .. n - 1
      /\ \A m \in 1 .. Len(env') : m <= e => FramePos(m)' = FramePos(m)
      /\ t.role \in Owners => FramePos(e + 1)' = n
  BY <1>0, PlacesStay
<1>8. /\ \A j \in Declared(At) : j \in 1 .. n - 1
      /\ \A j \in 1 .. n - 1 : Recorded(j)' = Recorded(j) /\ Noted(j)' = Noted(j) /\ FrameOf(j)' = FrameOf(j)
  <2>1. \A j \in Declared(At) : j \in 1 .. n - 1
    BY <1>0, <1>1, <1>2, DeclarationsGrow
  <2>2. \A j \in 1 .. n - 1 : Recorded(j)' = Recorded(j) /\ Noted(j)' = Noted(j)
    BY <1>0, <1>1, <1>2, DeclarationsGrow
  <2>3. \A j \in 1 .. n - 1 : FrameOf(j)' = FrameOf(j)
    BY <1>0, <1>1, <1>2, ReadingKeeps
  <2> QED BY <2>1, <2>2, <2>3
<1> DEFINE Bounds == env'[1].bound = {} /\ \A m \in 2 .. Len(env') : env'[m].bound = Noted(HeldAt(FramePos(m)))'
           Declares == \A m \in 1 .. Len(env') : env'[m].declared = {Recorded(j)' : j \in DeclaredFor(FramePos(m))'}
           ClashesLie == \A c \in clashes' : \E j, l \in Declared(At)' : Clash(j, l)' /\ c = {j, l}
           ClashesTell == \A j, l \in Declared(At)' : Clash(j, l)' => {j, l} \in clashes'
<1>9. Bounds
  <2>1. CASE t.role \in Owners
    <3>1. env'[1] = env[1]
      BY <1>2, <2>1
    <3>2. ASSUME NEW m \in 2 .. Len(env') PROVE env'[m].bound = Noted(HeldAt(FramePos(m)))'
      <4>1. CASE m <= e
        <5>1. env'[m] = env[m]
          BY <1>2, <2>1, <3>2, <4>1
        <5> QED BY <1>4, <3>2, <4>1, <5>1
      <4>2. CASE m = e + 1
        <5>1. env'[m].bound = held
          BY <1>2, <2>1, <4>2
        <5>2. PICK h : h = HeldAt(n)
          OBVIOUS
        <5>3. h = 0 \/ h \in 1 .. n - 1
          BY <1>1, <5>2, HeldIs
        <5>4. HeldAt(FramePos(m))' = HeldAt(n)'
          BY <1>7, <2>1, <4>2 DEF HeldAt
        <5>5. HeldAt(n)' = h
          <6>1. n \in 1 .. n
            BY <1>1
          <6> QED BY <1>6, <5>2, <6>1
        <5>6. Noted(HeldAt(FramePos(m)))' = Noted(h)'
          BY <5>4, <5>5 DEF Noted
        <5>7. Noted(h)' = Noted(h)
          <6>1. h = 0 => Noted(h)' = Noted(h)
            BY DEF Noted
          <6> QED BY <1>8, <5>3, <6>1
        <5>8. held = Noted(h)
          BY <1>1, <5>2
        <5> QED BY <5>1, <5>6, <5>7, <5>8
      <4>3. m <= e \/ m = e + 1
        BY <1>2, <2>1, <3>2
      <4> QED BY <4>1, <4>2, <4>3
    <3> QED BY <1>1, <3>1, <3>2
  <2>2. CASE t.role = "leaves"
    <3>1. env'[1] = env[1]
      BY <1>2, <2>2
    <3>2. ASSUME NEW m \in 2 .. Len(env') PROVE env'[m].bound = Noted(HeldAt(FramePos(m)))'
      <4>1. m <= e /\ m \in 1 .. e - 1
        BY <1>2, <2>2, <3>2
      <4>2. env'[m] = env[m]
        BY <1>2, <2>2, <4>1
      <4> QED BY <1>4, <3>2, <4>1, <4>2
    <3> QED BY <1>1, <3>1, <3>2
  <2>3. CASE t.role \notin Owners \cup {"leaves"}
    <3>1. Len(env') = e /\ \A m \in 1 .. e : env'[m].bound = env[m].bound
      BY <1>2, <2>3
    <3>2. 1 \in 1 .. e
      BY <1>2
    <3>3. ASSUME NEW m \in 2 .. Len(env') PROVE env'[m].bound = Noted(HeldAt(FramePos(m)))'
      <4>1. m <= e /\ m \in 1 .. e
        BY <1>2, <3>1, <3>3
      <4> QED BY <1>4, <3>1, <3>3, <4>1
    <3> QED BY <1>1, <3>1, <3>2, <3>3
  <2> QED BY <2>1, <2>2, <2>3
<1>10. Declares /\ ClashesLie /\ ClashesTell
  <2>1. CASE t.role \in Owners
    <3>1. Added(t, n) = {} /\ clashes' = clashes
      BY <1>2, <2>1 DEF Added, Owners
    <3>2. ASSUME NEW m \in 1 .. Len(env') PROVE env'[m].declared = {Recorded(j)' : j \in DeclaredFor(FramePos(m))'}
      <4>1. CASE m <= e
        <5>1. env'[m] = env[m]
          BY <1>2, <2>1, <3>2, <4>1
        <5> QED BY <1>5, <3>1, <3>2, <4>1, <5>1
      <4>2. CASE m = e + 1
        <5>1. env'[m].declared = {}
          BY <1>2, <2>1, <4>2
        <5>2. DeclaredFor(FramePos(m))' = {}
          <6>1. FramePos(m)' = n
            BY <1>7, <2>1, <4>2
          <6>2. \A j \in Declared(At)' : FrameOf(j)' # n
            BY <1>1, <1>5, <3>1
          <6> QED BY <6>1, <6>2 DEF DeclaredFor
        <5> QED BY <5>1, <5>2
      <4>3. m <= e \/ m = e + 1
        BY <1>2, <2>1, <3>2
      <4> QED BY <4>1, <4>2, <4>3
    <3> QED BY <1>5, <3>1, <3>2
  <2>2. CASE t.role = "leaves"
    <3>1. Added(t, n) = {} /\ clashes' = clashes
      BY <1>2, <2>2 DEF Added
    <3>2. ASSUME NEW m \in 1 .. Len(env') PROVE env'[m].declared = {Recorded(j)' : j \in DeclaredFor(FramePos(m))'}
      <4>1. m <= e /\ m \in 1 .. e - 1
        BY <1>2, <2>2, <3>2
      <4>2. env'[m] = env[m]
        BY <1>2, <2>2, <4>1
      <4> QED BY <1>5, <3>1, <3>2, <4>1, <4>2
    <3> QED BY <1>5, <3>1, <3>2
  <2>3. CASE t.role \in {"none", "use", "declares"}
    <3>1. Added(t, n) = {}
      BY <2>3 DEF Added
    <3>2. env' = env /\ clashes' = clashes
      BY <1>1, <2>3 DEF Means, Owners
    <3>3. Len(env') = e
      BY <1>0, <3>2
    <3>4. ASSUME NEW m \in 1 .. Len(env') PROVE env'[m].declared = {Recorded(j)' : j \in DeclaredFor(FramePos(m))'}
      <4>1. m <= e
        BY <1>2, <3>3, <3>4
      <4> QED BY <1>5, <3>1, <3>2, <3>4, <4>1
    <3> QED BY <1>5, <3>1, <3>2, <3>4
  <2>4. CASE t.role = "names"
    <3>1. Added(t, n) = {n} /\ 1 \in 1 .. e /\ n \in 1 .. n /\ n \notin Declared(At)
      <4>1. n \notin 1 .. n - 1
        BY <1>1
      <4> QED BY <1>1, <1>2, <1>8, <2>4, <4>1 DEF Added
    <3>2. FrameOf(n)' = FramePos(1)
      BY <1>6, <2>4 DEF FrameOf, FramePos
    <3>3. DeclareIn(1, Declaration(n, t.name))
      BY <1>1, <2>4 DEF Means, Owners, At
    <3>4. Recorded(n)' = Declaration(n, t.name)
      <4>1. OutermostAt(At) = Block
        BY BracesAre
      <4>2. OutermostAt(n)' = Block
        BY <1>1, <1>6, <3>1, <4>1
      <4> QED BY <1>6, <4>2 DEF Recorded, Declaration
    <3>5. DeclareIn(1, Recorded(n)')
      BY <3>3, <3>4
    <3> QED BY <1>0, <3>1, <3>2, <3>5, NewDeclarations
  <2>5. CASE t.role = "ends"
    <3> DEFINE frame == IF Owner \in ProgramKinds THEN 1 ELSE Len(env)
    <3>1. PICK a : a = HeldAt(At)
      OBVIOUS
    <3>2. a # 0
      BY <1>0, <1>2, <2>5, <3>1, HoldingGrows
    <3>3. a \in 1 .. n - 1 /\ a \in 1 .. n
      <4>1. At \in Nat \ {0}
        BY <1>1
      <4>2. a \in 1 .. At - 1
        BY <1>1, <3>1, <3>2, <4>1, HeldIs
      <4> QED BY <1>1, <4>2
    <3>4. a \notin Declared(At) /\ FrameOf(a) = FramePos(frame)
      <4>1. FramePos(1) = 0
        BY DEF FramePos
      <4>2. a \notin Declared(At) /\ FrameOf(a) = IF Owner \in ProgramKinds THEN 0 ELSE FramePos(Len(env))
        BY <1>1, <3>1, <3>2, HeldIsNew
      <4> QED BY <4>1, <4>2
    <3>5. held = {Recorded(a)} /\ Recorded(a)' = Recorded(a) /\ FrameOf(a)' = FrameOf(a)
      BY <1>1, <1>8, <3>1, <3>2, <3>3 DEF Noted
    <3>6. \E new \in held : DeclareIn(frame, new)
      BY <1>1, <2>5 DEF Means, Owners
    <3>7. PICK f \in 1 .. e : f = frame
      BY <1>0, <1>2
    <3>8. DeclareIn(f, Recorded(a)')
      BY <3>5, <3>6, <3>7
    <3>9. Added(t, n) = {a} /\ FrameOf(a)' = FramePos(f)
      BY <1>1, <2>5, <3>1, <3>4, <3>5, <3>7 DEF Added
    <3> HIDE DEF frame
    <3> QED BY <1>0, <3>3, <3>4, <3>8, <3>9, NewDeclarations
  <2> QED
    <3>1. t.role \in {"none", "use", "declares", "names", "ends", "leaves"} \cup Owners
      BY <1>1 DEF Means
    <3> QED BY <2>1, <2>2, <2>3, <2>4, <2>5, <3>1
<1>11. EndsDeclare' /\ held' = Noted(HeldAt(At))' /\ Declares /\ Bounds /\ ClashesLie /\ ClashesTell
  BY <1>3, <1>9, <1>10
<1> QED BY <1>11 DEF Recording

(* Where the author leaves the record alone, so does what is said about it. *)
LEMMA RecordingStays ==
  ASSUME UNCHANGED recordVars, Recording
  PROVE  Recording'
<1>1. /\ text' = text /\ stack' = stack /\ pairs' = pairs /\ env' = env /\ held' = held /\ clashes' = clashes
  BY DEF recordVars
<1>2. At' = At /\ (\A i : RoleAt(i)' = RoleAt(i) /\ KindAt(i)' = KindAt(i))
  BY <1>1, Zenon DEF At, RoleAt, KindAt
<1>3. \A i : Braces(i)' = Braces(i) /\ StatementStart(i)' = StatementStart(i)
  BY <1>1, <1>2, Zenon DEF Braces, StatementStart
<1>4. \A i : /\ HeldAt(i)' = HeldAt(i) /\ OutermostAt(i)' = OutermostAt(i)
             /\ OwnerAt(i)' = OwnerAt(i) /\ Innermost(i)' = Innermost(i) /\ FrameOf(i)' = FrameOf(i)
  BY <1>1, <1>2, <1>3, Zenon DEF HeldAt, OutermostAt, OwnerAt, Innermost, FrameOf
<1>5. \A i : Recorded(i)' = Recorded(i) /\ Noted(i)' = Noted(i) /\ Declared(i)' = Declared(i)
             /\ FramePos(i)' = FramePos(i)
  BY <1>1, <1>2, <1>4, Zenon DEF Recorded, Noted, Declared, FramePos
<1>6. \A i, j : Clash(i, j)' <=> Clash(i, j)
  BY <1>1, <1>4 DEF Clash
<1>7. Declared(At)' = Declared(At) /\ HeldAt(At)' = HeldAt(At) /\ Noted(HeldAt(At))' = Noted(HeldAt(At))
  BY <1>1, <1>2, <1>3, <1>4, <1>5, Zenon DEF Declared, HeldAt, Noted, Recorded
<1>8. \A m : DeclaredFor(FramePos(m))' = DeclaredFor(FramePos(m))
  BY <1>4, <1>5, <1>7, Zenon DEF DeclaredFor
<1>9. ASSUME NEW m PROVE Noted(HeldAt(FramePos(m)))' = Noted(HeldAt(FramePos(m)))
  <2>1. PICK f, h : f = FramePos(m) /\ h = HeldAt(f)
    OBVIOUS
  <2>2. FramePos(m)' = f
    BY <1>5, <2>1
  <2>3. HeldAt(FramePos(m))' = HeldAt(f)'
    BY <2>2 DEF HeldAt
  <2>4. HeldAt(FramePos(m))' = h
    BY <1>4, <2>1, <2>3
  <2>5. Noted(HeldAt(FramePos(m)))' = Noted(h)'
    BY <2>4 DEF Noted
  <2>6. Noted(h)' = Noted(h)
    BY <1>5
  <2> QED BY <2>1, <2>5, <2>6
<1>10. EndsDeclare'
  BY <1>1, <1>2, <1>4 DEF Recording, EndsDeclare
<1>11. /\ \A m \in 1 .. Len(env') : env'[m].declared = {Recorded(j)' : j \in DeclaredFor(FramePos(m))'}
       /\ env'[1].bound = {}
       /\ \A m \in 2 .. Len(env') : env'[m].bound = Noted(HeldAt(FramePos(m)))'
  <2>1. \A m : {Recorded(j)' : j \in DeclaredFor(FramePos(m))'} = {Recorded(j) : j \in DeclaredFor(FramePos(m))}
    BY <1>5, <1>8
  <2> QED BY <1>1, <1>9, <2>1 DEF Recording
<1>12. /\ \A c \in clashes' : \E j, l \in Declared(At)' : Clash(j, l)' /\ c = {j, l}
       /\ \A j, l \in Declared(At)' : Clash(j, l)' => {j, l} \in clashes'
  BY <1>1, <1>6, <1>7 DEF Recording
<1>13. held' = Noted(HeldAt(At))'
  BY <1>1, <1>7 DEF Recording
<1> QED BY <1>10, <1>11, <1>12, <1>13 DEF Recording

RecordInv == slips = 0 => Recording

(* As long as no token is left out, the author's record is what the text and  *)
(* its delimiter pairs say: which scope each declaration is for, what the     *)
(* heads of the open scopes bind, and which declarations clash.               *)
LEMMA RecordsAreInText == Spec => []RecordInv
<1>1. Init => RecordInv
  <2> SUFFICES ASSUME Init PROVE Recording
    BY DEF RecordInv
  <2>1. text = <<>> /\ held = {} /\ clashes = {}
    BY DEF Init, DelimiterInit
  <2>2. PICK file : env = <<[owner |-> file, bound |-> {}, declared |-> {}]>>
    BY DEF Init
  <2>3. Len(env) = 1 /\ env[1].bound = {} /\ env[1].declared = {}
    BY <2>2
  <2>4. Len(text) = 0 /\ DOMAIN text = {} /\ At = 1
    BY <2>1 DEF At
  <2>5. Declared(At) = {}
    <3>1. 1 .. At - 1 = {}
      BY <2>4
    <3> QED BY <3>1 DEF Declared
  <2>6. HeldAt(At) = 0
    <3>1. text \in Seq(Token) /\ At \in Nat \ {0}
      BY <2>1, <2>4
    <3>2. HeldAt(At) # 0 => HeldAt(At) \in 1 .. Len(text)
      BY <3>1, HeldIs
    <3> QED BY <2>4, <3>2
  <2>7. EndsDeclare
    BY <2>4 DEF EndsDeclare
  <2>8. held = Noted(HeldAt(At))
    BY <2>1, <2>6 DEF Noted
  <2>9. \A m \in 1 .. Len(env) : env[m].declared = {Recorded(j) : j \in DeclaredFor(FramePos(m))}
    <3>1. \A f : DeclaredFor(f) = {}
      BY <2>5 DEF DeclaredFor
    <3>2. \A m \in 1 .. Len(env) : m = 1
      BY <2>3
    <3> QED BY <2>3, <3>1, <3>2
  <2>10. \A m \in 2 .. Len(env) : env[m].bound = Noted(HeldAt(FramePos(m)))
    BY <2>3
  <2> QED BY <2>1, <2>3, <2>5, <2>7, <2>8, <2>9, <2>10 DEF Recording
<1>2. AnalysisInv /\ AuthorInv /\ LaidInv /\ FormInv /\ FrameInv /\ RecordInv /\ [Next]_vars => RecordInv'
  <2> SUFFICES ASSUME AnalysisInv, AuthorInv, LaidInv, FormInv, FrameInv, RecordInv, [Next]_vars, slips' = 0
               PROVE  Recording'
    BY DEF RecordInv
  <2>1. /\ slips = 0
        /\ \/ UNCHANGED recordVars
           \/ \E t \in Token, form \in Forms : \E k \in 1 .. Len(form.kinds) : Reads(t, form, k)
    BY StepsRead
  <2>2. DelimiterInv /\ Framed /\ Recording
    BY <2>1 DEF AnalysisInv, FrameInv, RecordInv
  <2>3. CASE UNCHANGED recordVars
    BY <2>2, <2>3, RecordingStays
  <2>4. CASE \E t \in Token, form \in Forms : \E k \in 1 .. Len(form.kinds) : Reads(t, form, k)
    BY <2>2, <2>4, RecordingKeeps
  <2> QED BY <2>1, <2>3, <2>4
<1> QED
  BY <1>1, <1>2, DelimitersHold, RecordsHold, TextsAreLaid, TextsAreFormed, FramesHold, PTL DEF Spec

-----------------------------------------------------------------------------
(* A finished text: its phrases, and the nodes that are found in it *)

(* Which form a token of a phrase tells. *)
LEMMA TellingTokens ==
  ASSUME NEW form \in Forms, NEW k \in 1 .. Len(form.kinds), NEW m \in 1 .. Len(form.kinds)
  PROVE  /\ form.roles[k] = "names" => form = FunctionForm /\ k = 2
         /\ form.roles[k] = "ends" => form \in {PlainForm, SizedForm} /\ k = Len(form.kinds)
         /\ form.roles[k] \in BlockKinds => form \in HeaderForms /\ k = Len(form.kinds)
         /\ form.kinds[k] \in BlockWords => form \in HeaderForms /\ k < Len(form.kinds)
         /\ form.kinds[k] = "semicolon" /\ form.kinds[m] = "type" =>
              form \in {PlainForm, SizedForm} /\ k = Len(form.kinds)
         /\ form.kinds[k] = "type" /\ form.kinds[m] = "leftParen" => form = FunctionForm
         /\ form.kinds[k] = "for" => form = LoopForm /\ k = 1
<1>0. /\ BlockKinds = {"functions", "data", "parameters", "model", "transformedData",
                       "transformedParameters", "generatedQuantities"}
      /\ BlockWords = {"functions", "data", "transformed", "parameters", "model", "generated", "quantities"}
  BY BlockKindsAre DEF BlockWords
<1>1. CASE form \in HeaderForms
  <2>1. /\ Len(form.kinds) \in {2, 3} /\ Len(form.roles) = Len(form.kinds)
        /\ form.kinds[Len(form.kinds)] = "leftBrace" /\ form.roles[Len(form.kinds)] \in BlockKinds
        /\ \A i \in 1 .. Len(form.kinds) - 1 : form.kinds[i] \in BlockWords /\ form.roles[i] = "none"
    BY <1>1, HeaderFormsAre
  <2>2. /\ k = Len(form.kinds) \/ k \in 1 .. Len(form.kinds) - 1
        /\ m = Len(form.kinds) \/ m \in 1 .. Len(form.kinds) - 1
        /\ k \in 1 .. Len(form.kinds) - 1 => k < Len(form.kinds)
    BY <2>1
  <2> HIDE <1>1
  <2> QED BY <1>0, <1>1, <2>1, <2>2
<1>2. CASE form = FunctionForm
  <2>1. /\ Len(form.kinds) = 7
        /\ form.kinds[1] = "type" /\ form.kinds[2] = "identifier" /\ form.kinds[3] = "leftParen"
        /\ form.kinds[4] = "type" /\ form.kinds[5] = "identifier" /\ form.kinds[6] = "rightParen"
        /\ form.kinds[7] = "leftBrace"
        /\ form.roles[1] = "none" /\ form.roles[2] = "names" /\ form.roles[3] = "none"
        /\ form.roles[4] = "none" /\ form.roles[5] = "declares" /\ form.roles[6] = "none"
        /\ form.roles[7] = "function"
    BY <1>2, RolesAre, ShapesAre
  <2>2. k \in 1 .. 7 /\ (k = 1 \/ k = 2 \/ k = 3 \/ k = 4 \/ k = 5 \/ k = 6 \/ k = 7)
    BY <2>1
  <2> QED BY <1>0, <1>2, <2>1, <2>2
<1>3. CASE form = PlainForm
  <2>1. /\ Len(form.kinds) = 3
        /\ form.kinds[1] = "type" /\ form.kinds[2] = "identifier" /\ form.kinds[3] = "semicolon"
        /\ form.roles[1] = "none" /\ form.roles[2] = "declares" /\ form.roles[3] = "ends"
    BY <1>3, RolesAre, ShapesAre
  <2>2. /\ k \in 1 .. 3 /\ (k = 1 \/ k = 2 \/ k = 3)
        /\ m \in 1 .. 3 /\ (m = 1 \/ m = 2 \/ m = 3)
    BY <2>1
  <2> QED BY <1>0, <1>3, <2>1, <2>2
<1>4. CASE form = SizedForm
  <2>1. /\ Len(form.kinds) = 8
        /\ form.kinds[1] = "type" /\ form.kinds[2] = "leftBracket" /\ form.kinds[3] = "identifier"
        /\ form.kinds[4] = "rightBracket" /\ form.kinds[5] = "identifier" /\ form.kinds[6] = "assign"
        /\ form.kinds[7] = "identifier" /\ form.kinds[8] = "semicolon"
        /\ form.roles[1] = "none" /\ form.roles[2] = "none" /\ form.roles[3] = "use"
        /\ form.roles[4] = "none" /\ form.roles[5] = "declares" /\ form.roles[6] = "none"
        /\ form.roles[7] = "use" /\ form.roles[8] = "ends"
    BY <1>4, RolesAre, ShapesAre
  <2>2. /\ k \in 1 .. 8 /\ (k = 1 \/ k = 2 \/ k = 3 \/ k = 4 \/ k = 5 \/ k = 6 \/ k = 7 \/ k = 8)
        /\ m \in 1 .. 8 /\ (m = 1 \/ m = 2 \/ m = 3 \/ m = 4 \/ m = 5 \/ m = 6 \/ m = 7 \/ m = 8)
    BY <2>1
  <2> QED BY <1>0, <1>4, <2>1, <2>2
<1>5. CASE form = CallForm
  <2>1. /\ Len(form.kinds) = 5
        /\ form.kinds[1] = "identifier" /\ form.kinds[2] = "leftParen" /\ form.kinds[3] = "identifier"
        /\ form.kinds[4] = "rightParen" /\ form.kinds[5] = "semicolon"
        /\ form.roles[1] = "use" /\ form.roles[2] = "none" /\ form.roles[3] = "use"
        /\ form.roles[4] = "none" /\ form.roles[5] = "none"
    BY <1>5, RolesAre, ShapesAre
  <2>2. /\ k \in 1 .. 5 /\ (k = 1 \/ k = 2 \/ k = 3 \/ k = 4 \/ k = 5)
        /\ m \in 1 .. 5 /\ (m = 1 \/ m = 2 \/ m = 3 \/ m = 4 \/ m = 5)
    BY <2>1
  <2> QED BY <1>0, <1>5, <2>1, <2>2
<1>6. CASE form = LoopForm
  <2>1. /\ Len(form.kinds) = 7
        /\ form.kinds[1] = "for" /\ form.kinds[2] = "leftParen" /\ form.kinds[3] = "identifier"
        /\ form.kinds[4] = "in" /\ form.kinds[5] = "identifier" /\ form.kinds[6] = "rightParen"
        /\ form.kinds[7] = "leftBrace"
        /\ form.roles[1] = "none" /\ form.roles[2] = "none" /\ form.roles[3] = "declares"
        /\ form.roles[4] = "none" /\ form.roles[5] = "use" /\ form.roles[6] = "none"
        /\ form.roles[7] = "loop"
    BY <1>6, RolesAre, ShapesAre
  <2>2. /\ k \in 1 .. 7 /\ (k = 1 \/ k = 2 \/ k = 3 \/ k = 4 \/ k = 5 \/ k = 6 \/ k = 7)
        /\ m \in 1 .. 7 /\ (m = 1 \/ m = 2 \/ m = 3 \/ m = 4 \/ m = 5 \/ m = 6 \/ m = 7)
    BY <2>1
  <2> QED BY <1>0, <1>6, <2>1, <2>2
<1>7. CASE form \in {BlockForm, CloseForm}
  <2>1. /\ Len(form.kinds) = 1
        /\ \/ form.kinds[1] = "leftBrace" /\ form.roles[1] = "block"
           \/ form.kinds[1] = "rightBrace" /\ form.roles[1] = "leaves"
    BY <1>7, RolesAre
  <2>2. k \in 1 .. 1 /\ k = 1
    BY <2>1
  <2> QED BY <1>0, <2>1, <2>2
<1> QED BY <1>1, <1>2, <1>3, <1>4, <1>5, <1>6, <1>7 DEF Forms, InnerForms

(* A phrase of this form begins at s. *)
FormedAt(form, s) ==
  /\ form \in Forms /\ s \in 1 .. Len(text) /\ Stands(form, s)
  /\ \A k \in 1 .. Len(form.kinds) :
       /\ s + k - 1 \in 1 .. Len(text) /\ StatementStart(s + k - 1) = s
       /\ KindAt(s + k - 1) = form.kinds[k] /\ RoleAt(s + k - 1) = form.roles[k]

(* Every token is one of a phrase, with which its statement begins. *)
LEMMA StatementsAreForms ==
  ASSUME text \in Seq(Token), Suited(text), NEW i \in 1 .. Len(text)
  PROVE  \E form \in Forms : \E k \in 1 .. Len(form.kinds) :
           i = StatementStart(i) + k - 1 /\ FormedAt(form, StatementStart(i))
<1>1. PICK form \in Forms, b \in 1 .. i :
        i < b + Len(form.kinds) /\ Lies(text, b, form) /\ b <= Len(text) /\ Stands(form, b)
  BY DEF Suited
<1>2. form.kinds \in Shapes /\ Len(form.kinds) \in 1 .. 8 /\ Tile(text, b, form.kinds)
  <2>1. PICK o, c, d : WellFormed(form, o, c, d)
    BY FormsAre
  <2> QED BY <1>1, <2>1 DEF WellFormed, Lies
<1>3. b \in Nat \ {0} /\ b \in 1 .. Len(text) /\ i \in Nat /\ DOMAIN text = 1 .. Len(text)
  OBVIOUS
<1>4. ASSUME NEW k \in 1 .. Len(form.kinds)
      PROVE  /\ b + k - 1 \in 1 .. Len(text) /\ StatementStart(b + k - 1) = b
             /\ KindAt(b + k - 1) = form.kinds[k] /\ RoleAt(b + k - 1) = form.roles[k]
  <2>1. /\ b + k - 1 \in 1 .. Len(text) /\ KindAt(b + k - 1) = form.kinds[k]
        /\ StatementStart(b + k - 1) = b
    BY <1>2, <1>3, TilesStart
  <2>2. text[b + k - 1].role = form.roles[k]
    BY <1>1 DEF Lies
  <2> QED BY <1>3, <2>1, <2>2 DEF RoleAt
<1>5. FormedAt(form, b)
  BY <1>1, <1>3, <1>4 DEF FormedAt
<1>6. PICK k \in 1 .. Len(form.kinds) : i = b + k - 1
  <2>1. i - b + 1 \in 1 .. Len(form.kinds) /\ i = b + (i - b + 1) - 1
    BY <1>1, <1>2, <1>3
  <2> QED BY <2>1
<1>7. StatementStart(i) = b
  BY <1>4, <1>6
<1> QED BY <1>5, <1>6, <1>7

(* The words of the headers, and what their blocks are for *)
TwoWords == {<<"transformed", "data", "transformedData">>,
             <<"transformed", "parameters", "transformedParameters">>,
             <<"generated", "quantities", "generatedQuantities">>}

(* Block headers, by the number of their words *)
LEMMA HeadersTell ==
  /\ \A h \in BlockHeaders :
       \/ Len(h.words) = 1 /\ h.words[1] = h.kind /\ h.kind \in {"functions", "data", "parameters", "model"}
       \/ Len(h.words) = 2 /\ <<h.words[1], h.words[2], h.kind>> \in TwoWords
  /\ \A h \in BlockHeaders : DOMAIN h.words = 1 .. Len(h.words)
  /\ \A w \in {"functions", "data", "parameters", "model"} :
       \E h \in BlockHeaders : Len(h.words) = 1 /\ h.words[1] = w /\ h.kind = w
  /\ \A p \in TwoWords :
       \E h \in BlockHeaders : Len(h.words) = 2 /\ <<h.words[1], h.words[2], h.kind>> = p
<1> DEFINE One(w)       == [kind |-> w, words |-> <<w>>]
           Two(v, w, r) == [kind |-> r, words |-> <<v, w>>]
           ones         == {"functions", "data", "parameters", "model"}
<1>1. \A w : /\ One(w).kind = w /\ Len(One(w).words) = 1 /\ One(w).words[1] = w
             /\ DOMAIN One(w).words = 1 .. Len(One(w).words)
  OBVIOUS
<1>2. \A v, w, r : /\ Two(v, w, r).kind = r /\ Len(Two(v, w, r).words) = 2
                   /\ Two(v, w, r).words[1] = v /\ Two(v, w, r).words[2] = w
                   /\ DOMAIN Two(v, w, r).words = 1 .. Len(Two(v, w, r).words)
  OBVIOUS
<1>3. BlockHeaders = {One(w) : w \in ones}
                     \cup {Two("transformed", "data", "transformedData"),
                           Two("transformed", "parameters", "transformedParameters"),
                           Two("generated", "quantities", "generatedQuantities")}
  BY DEF BlockHeaders
<1> HIDE DEF One, Two
<1>4. ASSUME NEW h \in BlockHeaders
      PROVE  \/ \E w \in ones : h = One(w)
             \/ h = Two("transformed", "data", "transformedData")
             \/ h = Two("transformed", "parameters", "transformedParameters")
             \/ h = Two("generated", "quantities", "generatedQuantities")
  BY <1>3
<1>5. ASSUME NEW h \in BlockHeaders
      PROVE  /\ \/ Len(h.words) = 1 /\ h.words[1] = h.kind /\ h.kind \in ones
                \/ Len(h.words) = 2 /\ <<h.words[1], h.words[2], h.kind>> \in TwoWords
             /\ DOMAIN h.words = 1 .. Len(h.words)
  <2>1. CASE \E w \in ones : h = One(w)
    BY <1>1, <2>1
  <2>2. CASE h = Two("transformed", "data", "transformedData")
    BY <1>2, <2>2 DEF TwoWords
  <2>3. CASE h = Two("transformed", "parameters", "transformedParameters")
    BY <1>2, <2>3 DEF TwoWords
  <2>4. CASE h = Two("generated", "quantities", "generatedQuantities")
    BY <1>2, <2>4 DEF TwoWords
  <2> QED BY <1>4, <2>1, <2>2, <2>3, <2>4
<1>6. ASSUME NEW w \in ones
      PROVE  \E h \in BlockHeaders : Len(h.words) = 1 /\ h.words[1] = w /\ h.kind = w
  <2>1. One(w) \in BlockHeaders
    BY <1>3
  <2> QED BY <1>1, <2>1
<1>7. ASSUME NEW p \in TwoWords
      PROVE  \E h \in BlockHeaders : Len(h.words) = 2 /\ <<h.words[1], h.words[2], h.kind>> = p
  <2>1. /\ Two("transformed", "data", "transformedData") \in BlockHeaders
        /\ Two("transformed", "parameters", "transformedParameters") \in BlockHeaders
        /\ Two("generated", "quantities", "generatedQuantities") \in BlockHeaders
    BY <1>3
  <2>2. CASE p = <<"transformed", "data", "transformedData">>
    BY <1>2, <2>1, <2>2
  <2>3. CASE p = <<"transformed", "parameters", "transformedParameters">>
    BY <1>2, <2>1, <2>3
  <2>4. CASE p = <<"generated", "quantities", "generatedQuantities">>
    BY <1>2, <2>1, <2>4
  <2> QED BY <2>2, <2>3, <2>4 DEF TwoWords
<1> QED BY <1>5, <1>6, <1>7

(* What the form of a block header tells of its block *)
LEMMA HeaderFormsTell ==
  ASSUME NEW form \in HeaderForms
  PROVE  \/ Len(form.kinds) = 2 /\ form.kinds[1] = form.roles[2]
            /\ form.roles[2] \in {"functions", "data", "parameters", "model"}
         \/ Len(form.kinds) = 3 /\ <<form.kinds[1], form.kinds[2], form.roles[3]>> \in TwoWords
<1>1. CASE form \in OneWordForms
  <2>1. PICK w \in {"functions", "data", "parameters", "model"} : form = OneWordForm(w)
    BY <1>1 DEF OneWordForms
  <2>2. form.kinds = <<w, "leftBrace">> /\ form.roles = <<"none", w>>
    BY <2>1, RolesAre DEF OneWordForm
  <2> QED BY <2>2
<1>2. CASE form \in TwoWordForms
  <2>1. \A v, w, r : /\ Len(TwoWordForm(v, w, r).kinds) = 3
                     /\ TwoWordForm(v, w, r).kinds[1] = v /\ TwoWordForm(v, w, r).kinds[2] = w
                     /\ TwoWordForm(v, w, r).roles[3] = r
    <3> SUFFICES ASSUME NEW v, NEW w, NEW r
                 PROVE  /\ Len(TwoWordForm(v, w, r).kinds) = 3
                        /\ TwoWordForm(v, w, r).kinds[1] = v /\ TwoWordForm(v, w, r).kinds[2] = w
                        /\ TwoWordForm(v, w, r).roles[3] = r
      OBVIOUS
    <3>1. /\ TwoWordForm(v, w, r).kinds = <<v, w, "leftBrace">>
          /\ TwoWordForm(v, w, r).roles = <<"none", "none", r>>
      BY RolesAre DEF TwoWordForm
    <3> QED BY <3>1
  <2>2. CASE form = TwoWordForm("transformed", "data", "transformedData")
    BY <2>1, <2>2 DEF TwoWords
  <2>3. CASE form = TwoWordForm("transformed", "parameters", "transformedParameters")
    BY <2>1, <2>3 DEF TwoWords
  <2>4. CASE form = TwoWordForm("generated", "quantities", "generatedQuantities")
    BY <2>1, <2>4 DEF TwoWords
  <2> QED BY <1>2, <2>2, <2>3, <2>4 DEF TwoWordForms
<1> QED BY <1>1, <1>2 DEF HeaderForms

(* The text of a finished program *)
Whole ==
  /\ DelimiterInv /\ AuthorInv /\ Laid(text) /\ Suited(text) /\ ClosersArePaired /\ EndsDeclare
  /\ Braces(At) = {} /\ Margin # 0

(* Every brace is closed. *)
LEMMA BracesAreClosed ==
  ASSUME Whole, NEW b, KindAt(b) = "leftBrace"
  PROVE  /\ b \in 1 .. Len(text) /\ b \in DOMAIN pairs /\ b < pairs[b] /\ pairs[b] \in 1 .. Len(text)
         /\ KindAt(pairs[b]) = "rightBrace" /\ EndOf(b) = pairs[b]
<1>1. /\ text \in Seq(Token) /\ Len(text) \in Nat /\ DOMAIN text = 1 .. Len(text)
      /\ pairs \in [DOMAIN pairs -> 1 .. Len(text)] /\ PairsNest /\ At = Len(text) + 1
  BY DEF Whole, DelimiterInv, DelimiterTypeOK, At
<1>2. b \in 1 .. Len(text) /\ b \in 1 .. At - 1
  BY <1>1 DEF KindAt
<1>3. b \in DOMAIN pairs
  BY <1>2 DEF Whole, Braces
<1>4. /\ b < pairs[b] /\ pairs[b] \in 1 .. Len(text) /\ text[pairs[b]].kind \in Closers
      /\ text[b].kind = MatchingOpen(text[pairs[b]].kind)
  BY <1>1, <1>3 DEF PairsNest
<1>5. text[b].kind = "leftBrace"
  BY <1>1, <1>2 DEF KindAt
<1>6. text[pairs[b]].kind = "rightBrace"
  BY <1>4, <1>5 DEF MatchingOpen, Closers
<1>7. KindAt(pairs[b]) = "rightBrace"
  BY <1>1, <1>4, <1>6 DEF KindAt
<1> QED BY <1>2, <1>3, <1>4, <1>7 DEF EndOf

(* The braces that are open at a token are those of the compound statements  *)
(* that hold it.                                                             *)
LEMMA BracesHold ==
  ASSUME Whole, NEW i \in 1 .. Len(text), KindAt(i) # "leftBrace", NEW b
  PROVE  b \in Braces(i) <=> KindAt(b) = "leftBrace" /\ Holds(Span(b, EndOf(b)), i)
<1>1. text \in Seq(Token) /\ Len(text) \in Nat /\ i \in Nat
  BY DEF Whole, DelimiterInv, DelimiterTypeOK
<1>2. Span(b, EndOf(b)).start = b /\ Span(b, EndOf(b)).end = EndOf(b) + 1
  BY DEF Span
<1>3. ASSUME b \in Braces(i) PROVE KindAt(b) = "leftBrace" /\ Holds(Span(b, EndOf(b)), i)
  <2>1. b \in 1 .. i - 1 /\ KindAt(b) = "leftBrace" /\ (b \in DOMAIN pairs => i <= pairs[b])
    BY <1>1, <1>3, BracesAreBehind
  <2>2. b \in DOMAIN pairs /\ EndOf(b) = pairs[b] /\ pairs[b] \in 1 .. Len(text)
    BY <2>1, BracesAreClosed
  <2> QED BY <1>1, <1>2, <2>1, <2>2 DEF Holds
<1>4. ASSUME KindAt(b) = "leftBrace", Holds(Span(b, EndOf(b)), i) PROVE b \in Braces(i)
  <2>1. b \in 1 .. Len(text) /\ EndOf(b) = pairs[b] /\ pairs[b] \in 1 .. Len(text) /\ b # i
    BY <1>4, BracesAreClosed
  <2>2. b <= i /\ i < EndOf(b) + 1
    BY <1>2, <1>4 DEF Holds
  <2>3. b \in 1 .. i - 1 /\ i <= pairs[b]
    BY <1>1, <2>1, <2>2
  <2> QED BY <1>4, <2>3 DEF Braces
<1> QED BY <1>3, <1>4

(* The program blocks are those the author wrote, of the kinds they were      *)
(* written with.                                                              *)
LEMMA BlocksAreRoles ==
  ASSUME Whole, NEW b \in ProgramBlocks
  PROVE  \E o \in 1 .. Len(text) :
           /\ KindAt(o) = "leftBrace" /\ RoleAt(o) = b.kind /\ b.kind \in BlockKinds
           /\ b.range = Span(b.range.start, EndOf(o)) /\ b.range.start \in 1 .. o - 1
           /\ \A j \in b.range.start .. o - 1 : KindAt(j) \in BlockWords
<1>0. /\ text \in Seq(Token) /\ Len(text) \in Nat /\ DOMAIN text = 1 .. Len(text) /\ Suited(text)
  BY DEF Whole, DelimiterInv, DelimiterTypeOK
<1>1. PICK h \in BlockHeaders, i \in DOMAIN text :
        /\ IsHeaderAt(h, i)
        /\ \A g \in BlockHeaders : Len(g.words) > Len(h.words) => ~ IsHeaderAt(g, i - 1)
        /\ b = [kind |-> h.kind, range |-> Span(i, EndOf(i + Len(h.words)))]
  <2> DEFINE starts == {i \in DOMAIN text : KindAt(i) \in {h.words[1] : h \in BlockHeaders}}
             found == {hi \in BlockHeaders \X starts :
                         /\ IsHeaderAt(hi[1], hi[2])
                         /\ \A h \in BlockHeaders :
                              Len(h.words) > Len(hi[1].words) => ~ IsHeaderAt(h, hi[2] - 1)}
  <2>1. ProgramBlocks = {[kind |-> hi[1].kind, range |-> Span(hi[2], EndOf(hi[2] + Len(hi[1].words)))] : hi \in found}
    BY DEF ProgramBlocks
  <2>2. PICK hi \in found : b = [kind |-> hi[1].kind, range |-> Span(hi[2], EndOf(hi[2] + Len(hi[1].words)))]
    BY <2>1
  <2>3. hi[1] \in BlockHeaders /\ hi[2] \in DOMAIN text
    BY <2>2
  <2> QED BY <2>2, <2>3
<1>2. i \in 1 .. Len(text) /\ i \in Nat \ {0}
  BY <1>0
<1>3. \/ Len(h.words) = 1 /\ h.words[1] = h.kind /\ h.kind \in {"functions", "data", "parameters", "model"}
      \/ Len(h.words) = 2 /\ <<h.words[1], h.words[2], h.kind>> \in TwoWords
  BY HeadersTell
<1>4. DOMAIN h.words = 1 .. Len(h.words)
  BY HeadersTell
<1> DEFINE n == Len(h.words)
           o == i + n
<1>5. /\ n \in {1, 2} /\ KindAt(i) = h.words[1] /\ (n = 2 => KindAt(i + 1) = h.words[2])
      /\ KindAt(o) = "leftBrace" /\ KindAt(i) \in BlockWords /\ (n = 2 => KindAt(i + 1) \in BlockWords)
  <2>1. n \in {1, 2}
    BY <1>3
  <2>2. /\ \A k \in 1 .. n : KindAt(i + k - 1) = h.words[k]
        /\ KindAt(i + n) = "leftBrace"
    BY <1>1, <1>4 DEF IsHeaderAt
  <2>3. 1 \in 1 .. n /\ i + 1 - 1 = i /\ (n = 2 => 2 \in 1 .. n) /\ i + 2 - 1 = i + 1
    <3>1. CASE n = 1
      BY <1>2, <3>1
    <3>2. CASE n = 2
      BY <1>2, <3>2
    <3> QED BY <2>1, <3>1, <3>2
  <2>4. KindAt(i) = h.words[1] /\ (n = 2 => KindAt(i + 1) = h.words[2])
    BY <2>2, <2>3
  <2>5. h.words[1] \in BlockWords /\ (n = 2 => h.words[2] \in BlockWords)
    BY <1>3 DEF BlockWords, TwoWords
  <2> QED BY <2>1, <2>2, <2>4, <2>5
<1>6. o \in 1 .. Len(text) /\ o \in Nat
  <2>1. KindAt(o) # "none"
    BY <1>5
  <2> HIDE DEF o
  <2> QED BY <1>0, <2>1, KindsAreInText
<1>7. PICK s : s = StatementStart(i)
  OBVIOUS
<1>19. PICK form \in Forms : \E k \in 1 .. Len(form.kinds) : i = s + k - 1 /\ FormedAt(form, s)
  BY <1>0, <1>2, <1>7, StatementsAreForms
<1>8. PICK k \in 1 .. Len(form.kinds) : i = s + k - 1 /\ s = StatementStart(i) /\ FormedAt(form, s)
  BY <1>7, <1>19
<1>9. form.kinds[k] = KindAt(i)
  BY <1>8 DEF FormedAt
<1>10. form \in HeaderForms /\ k < Len(form.kinds)
  BY <1>5, <1>9, TellingTokens
<1>11. /\ Len(form.kinds) \in {2, 3} /\ form.kinds[Len(form.kinds)] = "leftBrace"
       /\ \A m \in 1 .. Len(form.kinds) - 1 : form.kinds[m] \in BlockWords
  BY <1>10, HeaderFormsAre
<1>12. s \in 1 .. Len(text) /\ s \in Nat \ {0}
       /\ \A m \in 1 .. Len(form.kinds) :
            /\ KindAt(s + m - 1) = form.kinds[m] /\ RoleAt(s + m - 1) = form.roles[m]
  BY <1>8 DEF FormedAt
<1>13. \/ Len(form.kinds) = 2 /\ form.kinds[1] = form.roles[2]
          /\ form.roles[2] \in {"functions", "data", "parameters", "model"}
       \/ Len(form.kinds) = 3 /\ <<form.kinds[1], form.kinds[2], form.roles[3]>> \in TwoWords
  BY <1>10, HeaderFormsTell
<1>14. "leftBrace" \notin BlockWords
  BY DEF BlockWords
<1>15. RoleAt(o) = h.kind
  <2>1. CASE Len(form.kinds) = 2
    <3>1. k = 1 /\ i = s /\ 2 \in 1 .. Len(form.kinds) /\ s + 2 - 1 = i + 1
      BY <1>8, <1>10, <1>12, <2>1
    <3>2. KindAt(i + 1) = "leftBrace" /\ RoleAt(i + 1) = form.roles[2]
      BY <1>11, <1>12, <2>1, <3>1
    <3>3. n = 1
      BY <1>5, <1>14, <3>2
    <3> QED BY <1>3, <1>5, <1>9, <1>13, <2>1, <3>1, <3>2, <3>3
  <2>2. CASE Len(form.kinds) = 3
    <3>1. k \in {1, 2} /\ 2 \in 1 .. Len(form.kinds) /\ 3 \in 1 .. Len(form.kinds) /\ 2 \in 1 .. Len(form.kinds) - 1
      BY <1>10, <2>2
    <3>2. /\ KindAt(s + 2 - 1) = form.kinds[2] /\ KindAt(s + 3 - 1) = "leftBrace"
          /\ RoleAt(s + 3 - 1) = form.roles[3] /\ form.kinds[2] \in BlockWords
      BY <1>11, <1>12, <2>2, <3>1
    <3>3. CASE k = 1
      <4>1. s = i /\ s + 2 - 1 = i + 1 /\ s + 3 - 1 = i + 2
        BY <1>8, <1>12, <3>3
      <4>2. n = 2
        BY <1>5, <1>14, <3>2, <4>1
      <4>3. h.words[1] = form.kinds[1] /\ h.words[2] = form.kinds[2]
        BY <1>5, <1>9, <3>2, <3>3, <4>1, <4>2
      <4>4. h.kind = form.roles[3]
        BY <1>3, <1>13, <2>2, <4>2, <4>3 DEF TwoWords
      <4> QED BY <3>2, <4>1, <4>2, <4>4
    <3>4. CASE k = 2
      <4>1. i = s + 1 /\ s + 2 - 1 = i /\ s + 3 - 1 = i + 1 /\ i - 1 = s
        BY <1>8, <1>12, <3>4
      <4>2. n = 1
        BY <1>5, <1>14, <3>2, <4>1
      <4>3. PICK g \in BlockHeaders : Len(g.words) = 2 /\ <<g.words[1], g.words[2], g.kind>> = <<form.kinds[1], form.kinds[2], form.roles[3]>>
        BY <1>13, <2>2, HeadersTell
      <4>4. DOMAIN g.words = 1 .. 2 /\ g.words[1] = form.kinds[1] /\ g.words[2] = form.kinds[2]
        BY <4>3, HeadersTell
      <4>5. ASSUME NEW m \in 1 .. 2 PROVE KindAt(s + m - 1) = g.words[m]
        <5>1. m = 1 \/ m = 2
          OBVIOUS
        <5>2. m \in 1 .. Len(form.kinds)
          BY <2>2
        <5> QED BY <1>12, <4>4, <5>1, <5>2
      <4>6. KindAt(s + 2) = "leftBrace"
        BY <1>12, <3>2
      <4>7. IsHeaderAt(g, s)
        BY <4>3, <4>4, <4>5, <4>6 DEF IsHeaderAt
      <4> QED BY <1>1, <4>1, <4>2, <4>3, <4>7
    <3> QED BY <3>1, <3>3, <3>4
  <2> QED BY <1>11, <2>1, <2>2
<1>16. h.kind \in BlockKinds
  BY DEF BlockKinds
<1>17. b.kind = h.kind /\ b.range = Span(i, EndOf(o)) /\ b.range.start = i
  BY <1>1 DEF Span
<1>18. i \in 1 .. o - 1 /\ \A j \in i .. o - 1 : KindAt(j) \in BlockWords
  <2>0. (n = 1 /\ o = i + 1) \/ (n = 2 /\ o = i + 2)
    <3>1. n = 1 \/ n = 2
      BY <1>5
    <3> QED BY <3>1
  <2>1. \A j \in i .. o - 1 : j = i \/ (n = 2 /\ j = i + 1)
    <3> HIDE DEF o, n
    <3> QED BY <1>2, <2>0
  <2>2. i \in 1 .. o - 1
    <3> HIDE DEF o, n
    <3> QED BY <1>2, <2>0
  <2> HIDE DEF o, n
  <2> QED BY <1>5, <2>1, <2>2
<1> HIDE DEF o
<1> QED BY <1>5, <1>6, <1>15, <1>16, <1>17, <1>18

(* The block whose brace has the role of one is a program block. *)
LEMMA RolesAreBlocks ==
  ASSUME Whole, NEW o \in 1 .. Len(text), RoleAt(o) \in BlockKinds
  PROVE  /\ KindAt(o) = "leftBrace" /\ Braces(o) = {} /\ OwnerAt(o) = "program"
         /\ \E b \in ProgramBlocks : /\ b.kind = RoleAt(o) /\ b.range = Span(b.range.start, EndOf(o))
                                     /\ b.range.start \in 1 .. o - 1
<1>0. /\ text \in Seq(Token) /\ Len(text) \in Nat /\ DOMAIN text = 1 .. Len(text) /\ Suited(text)
      /\ DelimiterTypeOK /\ PairsNest
  BY DEF Whole, DelimiterInv, DelimiterTypeOK
<1>1. PICK s : s = StatementStart(o)
  OBVIOUS
<1>19. PICK form \in Forms : \E k \in 1 .. Len(form.kinds) : o = s + k - 1 /\ FormedAt(form, s)
  BY <1>0, <1>1, StatementsAreForms
<1>2. PICK k \in 1 .. Len(form.kinds) : o = s + k - 1 /\ s = StatementStart(o) /\ FormedAt(form, s)
  BY <1>1, <1>19
<1>3. form.roles[k] = RoleAt(o)
  BY <1>2 DEF FormedAt
<1>4. form \in HeaderForms /\ k = Len(form.kinds)
  BY <1>3, TellingTokens
<1>5. /\ Len(form.kinds) \in {2, 3} /\ form.kinds[Len(form.kinds)] = "leftBrace"
      /\ \A m \in 1 .. Len(form.kinds) - 1 : form.kinds[m] \in BlockWords
  BY <1>4, HeaderFormsAre
<1>6. /\ s \in 1 .. Len(text) /\ s \in Nat \ {0} /\ Stands(form, s)
      /\ \A m \in 1 .. Len(form.kinds) :
           /\ KindAt(s + m - 1) = form.kinds[m] /\ RoleAt(s + m - 1) = form.roles[m]
  BY <1>2 DEF FormedAt
<1>7. KindAt(o) = "leftBrace" /\ s \in 1 .. o - 1
  <2>1. KindAt(o) = form.kinds[k]
    BY <1>2, <1>6
  <2>2. s < o
    <3>1. PICK n : n = Len(form.kinds)
      OBVIOUS
    <3>2. o = s + n - 1 /\ (n = 2 \/ n = 3)
      BY <1>2, <1>4, <1>5, <3>1
    <3> QED BY <1>6, <3>2
  <2> QED BY <1>4, <1>5, <1>6, <2>1, <2>2
<1>8. OwnerAt(s) = "program"
  <2>1. form \notin InnerForms /\ form # FunctionForm /\ form # CloseForm
    <3>1. form.kinds[1] \in BlockWords
      <4>1. 1 \in 1 .. Len(form.kinds) - 1
        <5>1. Len(form.kinds) = 2 \/ Len(form.kinds) = 3
          BY <1>5
        <5>2. PICK n : n = Len(form.kinds)
          OBVIOUS
        <5>3. n = 2 \/ n = 3
          BY <5>1, <5>2
        <5>4. 1 \in 1 .. n - 1
          BY <5>3
        <5> QED BY <5>2, <5>4
      <4> QED BY <1>5, <4>1
    <3> QED BY <3>1, RolesAre, ShapesAre DEF InnerForms, BlockWords
  <2> QED BY <1>6, <2>1 DEF Stands, Granted
<1>9. OwnerAt(o) = OwnerAt(s) /\ Braces(o) = Braces(s)
  <2>1. o \in 1 .. Len(text) + 1 /\ s \in StatementStart(o) .. o
    BY <1>0, <1>2, <1>6, <1>7
  <2> QED BY <1>0, <2>1, SameBraces
<1>10. Braces(s) = {}
  <2> SUFFICES ASSUME Braces(s) # {} PROVE FALSE
    OBVIOUS
  <2>1. Innermost(s) \in Braces(s) /\ Max(Braces(s)) = Innermost(s)
    BY <1>0, <1>6, InnermostIs
  <2>2. RoleAt(Innermost(s)) = "program"
    BY <1>8, <2>1 DEF OwnerAt
  <2>3. Innermost(s) \in 1 .. Len(text)
    BY <1>0, <2>1, BracesAreBehind
  <2>4. RoleAt(Innermost(s)) \in Roles
    <3>1. text[Innermost(s)] \in Token
      BY <1>0, <2>3
    <3> QED BY <1>0, <2>3, <3>1 DEF RoleAt, Token
  <2> QED BY <2>2, <2>4 DEF Roles, Owners
<1>11. \/ Len(form.kinds) = 2 /\ form.kinds[1] = form.roles[2]
          /\ form.roles[2] \in {"functions", "data", "parameters", "model"}
       \/ Len(form.kinds) = 3 /\ <<form.kinds[1], form.kinds[2], form.roles[3]>> \in TwoWords
  BY <1>4, HeaderFormsTell
<1>12. PICK h \in BlockHeaders :
         /\ Len(h.words) = Len(form.kinds) - 1 /\ DOMAIN h.words = 1 .. Len(h.words)
         /\ h.kind = form.roles[Len(form.kinds)]
         /\ \A m \in 1 .. Len(h.words) : h.words[m] = form.kinds[m]
  <2>1. CASE Len(form.kinds) = 2
    <3>1. PICK h \in BlockHeaders : Len(h.words) = 1 /\ h.words[1] = form.roles[2] /\ h.kind = form.roles[2]
      BY <1>11, <2>1, HeadersTell
    <3>2. DOMAIN h.words = 1 .. Len(h.words)
      BY HeadersTell
    <3>3. \A m \in 1 .. 1 : m = 1
      OBVIOUS
    <3> QED BY <1>11, <2>1, <3>1, <3>2, <3>3
  <2>2. CASE Len(form.kinds) = 3
    <3>1. PICK h \in BlockHeaders : Len(h.words) = 2 /\ <<h.words[1], h.words[2], h.kind>> = <<form.kinds[1], form.kinds[2], form.roles[3]>>
      BY <1>11, <2>2, HeadersTell
    <3>2. DOMAIN h.words = 1 .. Len(h.words)
      BY HeadersTell
    <3>3. \A m \in 1 .. 2 : m = 1 \/ m = 2
      OBVIOUS
    <3>4. h.words[1] = form.kinds[1] /\ h.words[2] = form.kinds[2] /\ h.kind = form.roles[3]
      BY <3>1
    <3> QED BY <2>2, <3>1, <3>2, <3>3, <3>4
  <2> QED BY <1>5, <2>1, <2>2
<1>13. s + Len(h.words) = o /\ h.kind = RoleAt(o)
  <2>1. o = s + Len(form.kinds) - 1
    BY <1>2, <1>4
  <2> QED BY <1>3, <1>4, <1>5, <1>6, <1>12, <2>1
<1>14. IsHeaderAt(h, s)
  <2>1. ASSUME NEW m \in DOMAIN h.words PROVE KindAt(s + m - 1) = h.words[m]
    <3>1. m \in 1 .. Len(form.kinds) /\ m \in 1 .. Len(h.words)
      BY <1>5, <1>12, <2>1
    <3> QED BY <1>6, <1>12, <3>1
  <2> QED BY <1>7, <1>13, <2>1 DEF IsHeaderAt
<1>15. ASSUME NEW g \in BlockHeaders PROVE ~ IsHeaderAt(g, s - 1)
  <2> SUFFICES ASSUME IsHeaderAt(g, s - 1) PROVE FALSE
    OBVIOUS
  <2>1. /\ DOMAIN g.words = 1 .. Len(g.words) /\ Len(g.words) \in {1, 2} /\ g.words[1] \in BlockWords
    BY HeadersTell DEF BlockWords, TwoWords
  <2>2. KindAt(s - 1 + 1 - 1) = g.words[1]
    <3>1. 1 \in DOMAIN g.words
      BY <2>1
    <3> QED BY <3>1 DEF IsHeaderAt
  <2>3. KindAt(s - 1) \in BlockWords
    <3>1. s - 1 + 1 - 1 = s - 1
      BY <1>6
    <3> QED BY <2>1, <2>2, <3>1
  <2>4. StatementStart(o) = 1 \/ KindAt(StatementStart(o) - 1) \in Boundaries
    BY <1>0, StatementsBegin
  <2>5. s # 1
    <3>1. s = 1 => s - 1 \notin DOMAIN text
      BY <1>0
    <3>2. s = 1 => KindAt(s - 1) = "none"
      BY <3>1 DEF KindAt
    <3> QED BY <2>3, <3>2 DEF BlockWords
  <2> QED BY <1>2, <2>3, <2>4, <2>5 DEF BlockWords, Boundaries
<1>16. PICK b : b = [kind |-> h.kind, range |-> Span(s, EndOf(s + Len(h.words)))]
  OBVIOUS
<1>17. b \in ProgramBlocks
  <2> DEFINE starts == {i \in DOMAIN text : KindAt(i) \in {g.words[1] : g \in BlockHeaders}}
             found == {hi \in BlockHeaders \X starts :
                         /\ IsHeaderAt(hi[1], hi[2])
                         /\ \A g \in BlockHeaders :
                              Len(g.words) > Len(hi[1].words) => ~ IsHeaderAt(g, hi[2] - 1)}
  <2>1. ProgramBlocks = {[kind |-> hi[1].kind, range |-> Span(hi[2], EndOf(hi[2] + Len(hi[1].words)))] : hi \in found}
    BY DEF ProgramBlocks
  <2>2. s \in starts
    <3>1. 1 \in DOMAIN h.words /\ s + 1 - 1 = s
      <4>1. PICK n : n = Len(form.kinds)
        OBVIOUS
      <4>2. (n = 2 \/ n = 3) /\ DOMAIN h.words = 1 .. n - 1
        BY <1>5, <1>12, <4>1
      <4>3. 1 \in 1 .. n - 1
        BY <4>2
      <4> QED BY <1>6, <4>2, <4>3
    <3>2. KindAt(s) = h.words[1]
      BY <1>14, <3>1 DEF IsHeaderAt
    <3> QED BY <1>0, <1>6, <3>2
  <2>3. <<h, s>> \in found
    BY <1>14, <1>15, <2>2
  <2> HIDE DEF found
  <2> QED BY <1>16, <2>1, <2>3
<1>18. b.kind = RoleAt(o) /\ b.range = Span(s, EndOf(o)) /\ b.range.start = s
  BY <1>13, <1>16 DEF Span
<1> QED BY <1>7, <1>8, <1>9, <1>10, <1>17, <1>18

-----------------------------------------------------------------------------
(* Scopes of a finished text *)

(* What every lemma about such a text needs of it *)
LEMMA WholeTexts ==
  Whole => /\ text \in Seq(Token) /\ Len(text) \in Nat /\ DOMAIN text = 1 .. Len(text)
           /\ DelimiterTypeOK /\ PairsNest /\ Suited(text) /\ Laid(text) /\ DelimiterInv
  BY DEF Whole, DelimiterInv, DelimiterTypeOK

(* Round brackets with no other bracket between them are a pair. *)
LEMMA BracketsPair ==
  ASSUME DelimiterInv, ClosersArePaired, NEW o \in 1 .. Len(text), NEW c \in o + 1 .. Len(text),
         KindAt(o) = "leftParen", KindAt(c) = "rightParen",
         \A j \in o + 1 .. c - 1 : KindAt(j) \notin Openers \cup Closers
  PROVE  o \in DOMAIN pairs /\ pairs[o] = c
<1>1. /\ text \in Seq(Token) /\ Len(text) \in Nat /\ DOMAIN text = 1 .. Len(text)
      /\ pairs \in [DOMAIN pairs -> 1 .. Len(text)] /\ PairsNest /\ DOMAIN pairs \subseteq 1 .. Len(text)
  BY DEF DelimiterInv, DelimiterTypeOK
<1>2. c \in 1 .. Len(text) /\ c \in Nat /\ o \in Nat /\ o < c
  BY <1>1
<1>3. PICK j \in DOMAIN pairs : pairs[j] = c
  BY <1>2 DEF ClosersArePaired, Closers
<1>4. ASSUME NEW p \in DOMAIN pairs
      PROVE  /\ p \in 1 .. Len(text) /\ p \in Nat /\ pairs[p] \in 1 .. Len(text) /\ pairs[p] \in Nat /\ p < pairs[p]
             /\ KindAt(p) = MatchingOpen(KindAt(pairs[p])) /\ KindAt(pairs[p]) \in Closers
             /\ \A i \in p + 1 .. pairs[p] - 1 : KindAt(i) \in Openers => i \in DOMAIN pairs /\ pairs[i] < pairs[p]
  <2>1. p \in 1 .. Len(text) /\ pairs[p] \in 1 .. Len(text) /\ p < pairs[p]
    BY <1>1 DEF PairsNest
  <2>2. ASSUME NEW i \in p + 1 .. pairs[p] - 1, KindAt(i) \in Openers PROVE i \in DOMAIN pairs /\ pairs[i] < pairs[p]
    <3>1. i \in 1 .. Len(text)
      BY <1>1, <2>1
    <3>2. text[i].kind \in Openers
      BY <1>1, <2>2, <3>1 DEF KindAt
    <3> QED BY <1>1, <3>2 DEF PairsNest
  <2> QED BY <1>1, <2>1, <2>2 DEF KindAt, PairsNest
<1>5. j \in 1 .. Len(text) /\ j \in Nat /\ j < c /\ KindAt(j) \in Openers
  BY <1>3, <1>4 DEF MatchingOpen, Openers
<1>6. ~ (o < j)
  <2>1. o < j => j \in o + 1 .. c - 1
    BY <1>2, <1>5
  <2> QED BY <1>5, <2>1
<1>7. ~ (j < o)
  <2> SUFFICES ASSUME j < o PROVE FALSE
    OBVIOUS
  <2>1. o \in j + 1 .. pairs[j] - 1 /\ KindAt(o) \in Openers
    BY <1>2, <1>3, <1>5 DEF Openers
  <2>2. o \in DOMAIN pairs /\ pairs[o] < c
    BY <1>3, <1>4, <2>1
  <2>3. pairs[o] \in o + 1 .. c - 1 /\ KindAt(pairs[o]) \in Closers
    BY <1>2, <1>4, <2>2
  <2> QED BY <2>3
<1> QED BY <1>2, <1>3, <1>5, <1>6, <1>7

(* What a function's and a loop's phrase are found as *)
LEMMA FunctionFormsAreDeclared ==
  ASSUME Whole, NEW s, FormedAt(FunctionForm, s)
  PROVE  /\ s \in Nat \ {0} /\ s + 6 \in 1 .. Len(text) /\ KindAt(s + 6) = "leftBrace"
         /\ RoleAt(s + 6) = "function" /\ StatementStart(s + 6) = s /\ KindAt(s) = "type"
         /\ RoleAt(s + 1) = "names" /\ KindAt(s + 1) = "identifier"
         /\ BraceAfter(s + 1) = s + 6 /\ Span(s, EndOf(s + 6)) \in FunctionDeclarations
<1>0. /\ text \in Seq(Token) /\ Len(text) \in Nat /\ DOMAIN text = 1 .. Len(text) /\ DelimiterInv /\ ClosersArePaired
  BY WholeTexts DEF Whole
<1>1. /\ Len(FunctionForm.kinds) = 7 /\ FunctionForm.kinds[1] = "type" /\ FunctionForm.kinds[2] = "identifier"
      /\ FunctionForm.kinds[3] = "leftParen" /\ FunctionForm.kinds[4] = "type" /\ FunctionForm.kinds[5] = "identifier"
      /\ FunctionForm.kinds[6] = "rightParen" /\ FunctionForm.kinds[7] = "leftBrace"
      /\ FunctionForm.roles[2] = "names" /\ FunctionForm.roles[7] = "function"
  BY RolesAre, ShapesAre
<1>2. s \in 1 .. Len(text) /\ s \in Nat \ {0}
  BY <1>0 DEF FormedAt
<1>3. ASSUME NEW k \in 0 .. 6
      PROVE  /\ s + k \in 1 .. Len(text) /\ StatementStart(s + k) = s
             /\ KindAt(s + k) = FunctionForm.kinds[k + 1] /\ RoleAt(s + k) = FunctionForm.roles[k + 1]
  <2>1. PICK m : m = k + 1
    OBVIOUS
  <2>2. m \in 1 .. 7 /\ s + m - 1 = s + k
    BY <1>2, <2>1
  <2>3. /\ s + m - 1 \in 1 .. Len(text) /\ StatementStart(s + m - 1) = s
        /\ KindAt(s + m - 1) = FunctionForm.kinds[m] /\ RoleAt(s + m - 1) = FunctionForm.roles[m]
    BY <1>1, <2>2 DEF FormedAt
  <2> QED BY <2>1, <2>2, <2>3
<1>4. /\ 0 \in 0 .. 6 /\ 1 \in 0 .. 6 /\ 2 \in 0 .. 6 /\ 3 \in 0 .. 6 /\ 4 \in 0 .. 6
      /\ 5 \in 0 .. 6 /\ 6 \in 0 .. 6 /\ 0 + 1 = 1 /\ 1 + 1 = 2 /\ 2 + 1 = 3 /\ 3 + 1 = 4
      /\ 4 + 1 = 5 /\ 5 + 1 = 6 /\ 6 + 1 = 7 /\ s + 0 = s
  BY <1>2
<1>5. KindAt(s) = "type" /\ StatementStart(s) = s
  BY <1>1, <1>3, <1>4
<1>6. KindAt(s + 1) = "identifier" /\ RoleAt(s + 1) = "names" /\ s + 1 \in 1 .. Len(text) /\ StatementStart(s + 1) = s
  BY <1>1, <1>3, <1>4
<1>7. KindAt(s + 2) = "leftParen" /\ s + 2 \in 1 .. Len(text)
  BY <1>1, <1>3, <1>4
<1>8. KindAt(s + 3) = "type" /\ KindAt(s + 4) = "identifier"
  BY <1>1, <1>3, <1>4
<1>9. KindAt(s + 5) = "rightParen" /\ s + 5 \in 1 .. Len(text)
  BY <1>1, <1>3, <1>4
<1>10. KindAt(s + 6) = "leftBrace" /\ RoleAt(s + 6) = "function" /\ s + 6 \in 1 .. Len(text) /\ StatementStart(s + 6) = s
  BY <1>1, <1>3, <1>4
<1>11. s + 2 \in DOMAIN pairs /\ pairs[s + 2] = s + 5
  <2>0. PICK o, c : o = s + 2 /\ c = s + 5
    OBVIOUS
  <2>1. ASSUME NEW j \in o + 1 .. c - 1 PROVE KindAt(j) \notin Openers \cup Closers
    <3>1. j = s + 3 \/ j = s + 4
      BY <1>2, <2>0
    <3> QED BY <1>8, <3>1 DEF Openers, Closers
  <2>2. c \in o + 1 .. Len(text) /\ o \in 1 .. Len(text)
    BY <1>2, <1>7, <1>9, <2>0
  <2>3. KindAt(o) = "leftParen" /\ KindAt(c) = "rightParen"
    BY <1>7, <1>9, <2>0
  <2>4. o \in DOMAIN pairs /\ pairs[o] = c
    BY <1>0, <2>1, <2>2, <2>3, BracketsPair
  <2> QED BY <2>0, <2>4
<1>12. s + 1 + 1 = s + 2 /\ s + 5 + 1 = s + 6 /\ s + 6 # 0 /\ s \in s .. s + 1 - 1
  BY <1>2
<1>13. BraceAfter(s + 1) = s + 6
  BY <1>7, <1>10, <1>11, <1>12 DEF BraceAfter
<1>14. Of("type", s .. s + 1 - 1) # {} /\ s + 1 \in Of("identifier", DOMAIN text)
  BY <1>0, <1>5, <1>6, <1>12 DEF Of
<1>15. Span(s, EndOf(s + 6)) \in FunctionDeclarations
  BY <1>6, <1>12, <1>13, <1>14 DEF FunctionDeclarations
<1> QED BY <1>2, <1>5, <1>6, <1>10, <1>13, <1>15

(* A loop's phrase is found as a for statement. *)
LEMMA LoopFormsAreLoops ==
  ASSUME Whole, NEW s, FormedAt(LoopForm, s)
  PROVE  /\ s \in Nat \ {0} /\ s + 6 \in 1 .. Len(text) /\ KindAt(s + 6) = "leftBrace"
         /\ RoleAt(s + 6) = "loop" /\ StatementStart(s + 6) = s /\ KindAt(s) = "for"
         /\ BraceAfter(s) = s + 6 /\ Span(s, EndOf(s + 6)) \in ForStatements
<1>0. /\ text \in Seq(Token) /\ Len(text) \in Nat /\ DOMAIN text = 1 .. Len(text) /\ DelimiterInv /\ ClosersArePaired
  BY WholeTexts DEF Whole
<1>1. /\ Len(LoopForm.kinds) = 7 /\ LoopForm.kinds[1] = "for" /\ LoopForm.kinds[2] = "leftParen"
      /\ LoopForm.kinds[3] = "identifier" /\ LoopForm.kinds[4] = "in" /\ LoopForm.kinds[5] = "identifier"
      /\ LoopForm.kinds[6] = "rightParen" /\ LoopForm.kinds[7] = "leftBrace"
      /\ LoopForm.roles[7] = "loop"
  BY RolesAre, ShapesAre
<1>2. s \in 1 .. Len(text) /\ s \in Nat \ {0}
  BY <1>0 DEF FormedAt
<1>3. ASSUME NEW k \in 0 .. 6
      PROVE  /\ s + k \in 1 .. Len(text) /\ StatementStart(s + k) = s
             /\ KindAt(s + k) = LoopForm.kinds[k + 1] /\ RoleAt(s + k) = LoopForm.roles[k + 1]
  <2>1. PICK m : m = k + 1
    OBVIOUS
  <2>2. m \in 1 .. 7 /\ s + m - 1 = s + k
    BY <1>2, <2>1
  <2>3. /\ s + m - 1 \in 1 .. Len(text) /\ StatementStart(s + m - 1) = s
        /\ KindAt(s + m - 1) = LoopForm.kinds[m] /\ RoleAt(s + m - 1) = LoopForm.roles[m]
    BY <1>1, <2>2 DEF FormedAt
  <2> QED BY <2>1, <2>2, <2>3
<1>4. /\ 0 \in 0 .. 6 /\ 1 \in 0 .. 6 /\ 2 \in 0 .. 6 /\ 3 \in 0 .. 6 /\ 4 \in 0 .. 6
      /\ 5 \in 0 .. 6 /\ 6 \in 0 .. 6 /\ 0 + 1 = 1 /\ 1 + 1 = 2 /\ 2 + 1 = 3 /\ 3 + 1 = 4
      /\ 4 + 1 = 5 /\ 5 + 1 = 6 /\ 6 + 1 = 7 /\ s + 0 = s
  BY <1>2
<1>5. KindAt(s) = "for" /\ StatementStart(s) = s
  BY <1>1, <1>3, <1>4
<1>7. KindAt(s + 1) = "leftParen" /\ s + 1 \in 1 .. Len(text)
  BY <1>1, <1>3, <1>4
<1>8. KindAt(s + 2) = "identifier" /\ KindAt(s + 3) = "in" /\ KindAt(s + 4) = "identifier"
  BY <1>1, <1>3, <1>4
<1>9. KindAt(s + 5) = "rightParen" /\ s + 5 \in 1 .. Len(text)
  BY <1>1, <1>3, <1>4
<1>10. KindAt(s + 6) = "leftBrace" /\ RoleAt(s + 6) = "loop" /\ s + 6 \in 1 .. Len(text) /\ StatementStart(s + 6) = s
  BY <1>1, <1>3, <1>4
<1>11. s + 1 \in DOMAIN pairs /\ pairs[s + 1] = s + 5
  <2>0. PICK o, c : o = s + 1 /\ c = s + 5
    OBVIOUS
  <2>1. ASSUME NEW j \in o + 1 .. c - 1 PROVE KindAt(j) \notin Openers \cup Closers
    <3>1. j = s + 2 \/ j = s + 3 \/ j = s + 4
      BY <1>2, <2>0
    <3> QED BY <1>8, <3>1 DEF Openers, Closers
  <2>2. c \in o + 1 .. Len(text) /\ o \in 1 .. Len(text)
    BY <1>2, <1>7, <1>9, <2>0
  <2>3. KindAt(o) = "leftParen" /\ KindAt(c) = "rightParen"
    BY <1>7, <1>9, <2>0
  <2>4. o \in DOMAIN pairs /\ pairs[o] = c
    BY <1>0, <2>1, <2>2, <2>3, BracketsPair
  <2> QED BY <2>0, <2>4
<1>12. s + 5 + 1 = s + 6 /\ s + 6 # 0
  BY <1>2
<1>13. BraceAfter(s) = s + 6
  BY <1>7, <1>10, <1>11, <1>12 DEF BraceAfter
<1>14. s \in Of("for", DOMAIN text)
  BY <1>0, <1>2, <1>5 DEF Of
<1>15. Span(s, EndOf(s + 6)) \in ForStatements
  BY <1>12, <1>13, <1>14 DEF ForStatements
<1> QED BY <1>2, <1>5, <1>10, <1>13, <1>15

(* And nothing else is. *)
LEMMA DeclaredFunctionsAreForms ==
  ASSUME Whole, NEW f \in FunctionDeclarations
  PROVE  FormedAt(FunctionForm, f.start) /\ f = Span(f.start, EndOf(f.start + 6))
<1>0. /\ text \in Seq(Token) /\ Len(text) \in Nat /\ Suited(text) /\ Laid(text) /\ DelimiterTypeOK /\ PairsNest
  BY WholeTexts
<1>1. PICK s : s = f.start
  OBVIOUS
<1>2. /\ s \in Nat \ {0} /\ f = Span(s, EndOf(BraceAfter(s + 1)))
  BY <1>0, <1>1, FunctionsAreLaid
<1>3. /\ KindAt(s) = "type" /\ KindAt(s + 1) = "identifier" /\ KindAt(s + 2) = "leftParen"
      /\ \A k \in 0 .. 6 : s + k \in 1 .. Len(text) /\ StatementStart(s + k) = s
  BY <1>0, <1>1, FunctionTokens
<1>4. s + 0 = s /\ 0 \in 0 .. 6 /\ 2 \in 0 .. 6
  BY <1>2
<1>5. s \in 1 .. Len(text) /\ StatementStart(s) = s /\ StatementStart(s + 2) = s /\ s + 2 \in 1 .. Len(text)
  BY <1>3, <1>4
<1>6. PICK form \in Forms : \E k \in 1 .. Len(form.kinds) : s + 2 = s + k - 1 /\ FormedAt(form, s)
  <2>1. \E form \in Forms : \E k \in 1 .. Len(form.kinds) :
          s + 2 = StatementStart(s + 2) + k - 1 /\ FormedAt(form, StatementStart(s + 2))
    BY <1>0, <1>5, StatementsAreForms
  <2> QED BY <1>5, <2>1
<1>7. PICK k \in 1 .. Len(form.kinds) : s + 2 = s + k - 1 /\ FormedAt(form, s)
  BY <1>6
<1>8. form.kinds[k] = "leftParen" /\ k = 3
  <2>1. k = 3
    BY <1>2, <1>7
  <2>2. s + k - 1 = s + 2
    BY <1>7
  <2> QED BY <1>3, <1>7, <2>1, <2>2 DEF FormedAt
<1>9. 1 \in 1 .. Len(form.kinds) /\ form.kinds[1] = "type"
  <2>1. 1 \in 1 .. Len(form.kinds)
    <3>1. PICK n : n = Len(form.kinds)
      OBVIOUS
    <3>2. 3 \in 1 .. n
      BY <1>7, <1>8, <3>1
    <3>3. n \in Nat
      <4>1. \E o, c, d : WellFormed(form, o, c, d)
        BY FormsAre
      <4> QED BY <3>1, <4>1 DEF WellFormed
    <3>4. 1 \in 1 .. n
      BY <3>2, <3>3
    <3> QED BY <3>1, <3>4
  <2>2. s + 1 - 1 = s
    BY <1>2
  <2> QED BY <1>3, <1>7, <2>1, <2>2 DEF FormedAt
<1>10. form = FunctionForm
  BY <1>7, <1>8, <1>9, TellingTokens
<1>11. BraceAfter(s + 1) = s + 6
  BY <1>7, <1>10, FunctionFormsAreDeclared
<1> QED BY <1>1, <1>2, <1>7, <1>10, <1>11

(* Loops are phrases of loops. *)
LEMMA LoopsAreForms ==
  ASSUME Whole, NEW l \in ForStatements
  PROVE  FormedAt(LoopForm, l.start) /\ l = Span(l.start, EndOf(l.start + 6))
<1>0. /\ text \in Seq(Token) /\ Len(text) \in Nat /\ Suited(text) /\ Laid(text) /\ DelimiterTypeOK /\ PairsNest
  BY WholeTexts
<1>1. PICK s : s = l.start
  OBVIOUS
<1>2. l = Span(s, EndOf(BraceAfter(s))) /\ KindAt(s) = "for"
  BY <1>0, <1>1, LoopsAreLaid
<1>3. s \in 1 .. Len(text)
  <2>1. KindAt(s) # "none"
    BY <1>2
  <2> QED BY <1>0, <2>1, KindsAreInText
<1>4. PICK u : u = StatementStart(s)
  OBVIOUS
<1>5. PICK form \in Forms : \E k \in 1 .. Len(form.kinds) : s = u + k - 1 /\ FormedAt(form, u)
  BY <1>0, <1>3, <1>4, StatementsAreForms
<1>6. PICK k \in 1 .. Len(form.kinds) : s = u + k - 1 /\ FormedAt(form, u)
  BY <1>5
<1>7. form.kinds[k] = "for"
  BY <1>2, <1>6 DEF FormedAt
<1>8. form = LoopForm /\ k = 1
  BY <1>7, TellingTokens
<1>9. u \in Nat /\ s = u
  <2>1. u \in Nat
    BY <1>0, <1>6 DEF FormedAt
  <2> QED BY <1>6, <1>8, <2>1
<1>10. BraceAfter(s) = s + 6
  BY <1>6, <1>8, <1>9, LoopFormsAreLoops
<1> QED BY <1>1, <1>2, <1>6, <1>8, <1>9, <1>10

(* A scope's range begins with its brace, or with the statement the brace ends *)
LEMMA ScopesHaveBraces ==
  ASSUME Whole, NEW r \in ScopedRanges
  PROVE  \E o \in 1 .. Len(text) :
           /\ KindAt(o) = "leftBrace" /\ r = Span(r.start, EndOf(o)) /\ r.start \in 1 .. o
           /\ r \in CompoundStatements => r.start = o
           /\ r \notin CompoundStatements =>
                r.start < o /\ r.start = StatementStart(o) /\ RoleAt(o) \in {"function", "loop"}
<1>0. text \in Seq(Token) /\ Len(text) \in Nat /\ DOMAIN text = 1 .. Len(text) /\ DelimiterTypeOK /\ PairsNest
  BY WholeTexts
<1>1. CASE r \in CompoundStatements
  <2>1. PICK o \in Of("leftBrace", DOMAIN text) : r = Span(o, EndOf(o))
    BY <1>1 DEF CompoundStatements
  <2>2. o \in 1 .. Len(text) /\ KindAt(o) = "leftBrace"
    BY <1>0, <2>1, OfIsKind
  <2>3. r.start = o /\ o \in 1 .. o
    BY <2>1, <2>2 DEF Span
  <2> QED BY <1>1, <2>1, <2>2, <2>3
<1>2. CASE r \in FunctionDeclarations
  <2>1. FormedAt(FunctionForm, r.start) /\ r = Span(r.start, EndOf(r.start + 6))
    BY <1>2, DeclaredFunctionsAreForms
  <2>2. PICK s : s = r.start
    OBVIOUS
  <2>3. /\ s \in Nat \ {0} /\ s + 6 \in 1 .. Len(text) /\ KindAt(s + 6) = "leftBrace"
        /\ RoleAt(s + 6) = "function" /\ StatementStart(s + 6) = s /\ KindAt(s) = "type"
    BY <2>1, <2>2, FunctionFormsAreDeclared
  <2>4. s \in 1 .. s + 6 /\ s < s + 6
    BY <2>3
  <2>5. r \notin CompoundStatements
    BY <1>0, <2>2, <2>3, CompoundsAreNodes
  <2> QED BY <2>1, <2>2, <2>3, <2>4, <2>5
<1>3. CASE r \in ForStatements
  <2>1. FormedAt(LoopForm, r.start) /\ r = Span(r.start, EndOf(r.start + 6))
    BY <1>3, LoopsAreForms
  <2>2. PICK s : s = r.start
    OBVIOUS
  <2>3. /\ s \in Nat \ {0} /\ s + 6 \in 1 .. Len(text) /\ KindAt(s + 6) = "leftBrace"
        /\ RoleAt(s + 6) = "loop" /\ StatementStart(s + 6) = s /\ KindAt(s) = "for"
    BY <2>1, <2>2, LoopFormsAreLoops
  <2>4. s \in 1 .. s + 6 /\ s < s + 6
    BY <2>3
  <2>5. r \notin CompoundStatements
    BY <1>0, <2>2, <2>3, CompoundsAreNodes
  <2> QED BY <2>1, <2>2, <2>3, <2>4, <2>5
<1> QED BY <1>1, <1>2, <1>3 DEF ScopedRanges

(* Ranges are ordered by size as they are nested. *)
LEMMA RangesAre ==
  ASSUME Whole, NEW r \in ScopedRanges
  PROVE  /\ r.start \in Nat /\ r.end \in Nat /\ SizeOf(r) \in Nat /\ r # RootRange
         /\ SizeOf(RootRange) \in Nat /\ SizeOf(r) < SizeOf(RootRange) /\ Encloses(RootRange, r)
<1>0. text \in Seq(Token) /\ Len(text) \in Nat /\ DelimiterTypeOK /\ PairsNest /\ Margin # 0 /\ Margin \in Nat
  BY WholeTexts, MarginAssumption DEF Whole
<1>1. r \in NodeRanges
  BY <1>0, ScopedRangesAreNodes
<1>2. /\ r.start \in Nat /\ r.end \in Nat /\ SizeOf(r) \in Nat /\ Encloses(RootRange, r) /\ r # RootRange
  BY <1>0, <1>1, NodesAreInRoot
<1>3. r.start \in 1 .. Len(text) /\ r.end \in 1 .. Len(text) + 1
  BY <1>1 DEF NodeRanges
<1>4. SizeOf(RootRange) \in Nat
  BY <1>0, RootHasSize
<1>5. r.end - r.start < Len(text) + 1 + Margin - 1
  BY <1>0, <1>3
<1>6. SizeOf(r) < SizeOf(RootRange)
  <2>1. RootRange.start = 1 /\ RootRange.end = Len(text) + 1 + Margin
    BY DEF RootRange
  <2>2. SizeOf(RootRange) = RootRange.end - RootRange.start /\ SizeOf(r) = r.end - r.start
    BY Zenon DEF SizeOf
  <2>3. PICK e : e = RootRange.end
    OBVIOUS
  <2>4. e = Len(text) + 1 + Margin /\ SizeOf(RootRange) = e - 1
    BY <2>1, <2>2, <2>3, Zenon
  <2>5. r.end - r.start < e - 1
    BY <1>0, <1>3, <1>5, <2>4
  <2> QED BY <2>2, <2>4, <2>5
<1> QED BY <1>2, <1>4, <1>6

(* Scopes built on ranges: which, in which order *)
Built(scopes, ranges, n) ==
  /\ n \in Nat \ {0} /\ DOMAIN scopes = 1 .. n /\ ranges[1] = RootRange
  /\ scopes[1].parent = 0 /\ scopes[1].kind = "root"
  /\ \A k \in 1 .. n : scopes[k].range = ranges[k]
  /\ \A k \in 2 .. n : /\ ranges[k] \in ScopedRanges
                       /\ scopes[k].parent = ParentOf(ranges, k)
                       /\ scopes[k].kind = ScopeKind(ranges[k], ParentOf(ranges, k))
  /\ \A r \in ScopedRanges : \E k \in 2 .. n : ranges[k] = r
  /\ \A k, m \in 1 .. n : ranges[k] = ranges[m] => k = m
  /\ \A k, m \in 2 .. n : Before(ranges[k], ranges[m]) => k < m

(* The scopes of a text are the root and its scoped ranges in their order. *)
LEMMA ScopesAreOf ==
  ASSUME Whole
  PROVE  \E ranges : \E n : Built(BuildScopes, ranges, n)
<1> DEFINE sorted == Sorted(ScopedRanges)
           ranges == <<RootRange>> \o sorted
           N == Cardinality(ScopedRanges)
           scopes == [k \in DOMAIN ranges |->
                        IF k = Root THEN [range |-> RootRange, parent |-> 0, kind |-> "root"]
                        ELSE [range |-> ranges[k], parent |-> ParentOf(ranges, k),
                              kind |-> ScopeKind(ranges[k], ParentOf(ranges, k))]]
<1>0. text \in Seq(Token) /\ ScopedRanges \in SUBSET NodeRanges
  BY WholeTexts, ScopedRangesAreNodes
<1>1. BuildScopes = scopes
  BY DEF BuildScopes
<1>2. /\ N \in Nat /\ sorted \in [1 .. N -> ScopedRanges]
      /\ \A r \in ScopedRanges : \E k \in 1 .. N : sorted[k] = r
      /\ \A k, m \in 1 .. N : sorted[k] = sorted[m] => k = m
      /\ \A k, m \in 1 .. N : Before(sorted[k], sorted[m]) => k < m
  BY <1>0, NodesAreSorted
<1>3. /\ DOMAIN ranges = 1 .. N + 1
      /\ ranges[1] = RootRange
      /\ \A k \in 2 .. N + 1 : ranges[k] = sorted[k - 1]
  <2>1. sorted \in Seq(ScopedRanges) /\ Len(sorted) = N
    <3> HIDE DEF N, sorted
    <3> QED BY <1>2
  <2> HIDE DEF N, sorted
  <2> QED BY <1>2, <2>1
<1> HIDE DEF sorted, N, ranges
<1>4. ASSUME NEW k \in 2 .. N + 1
      PROVE  k - 1 \in 1 .. N /\ ranges[k] = sorted[k - 1] /\ ranges[k] \in ScopedRanges /\ ranges[k] # RootRange
  <2>1. k - 1 \in 1 .. N
    BY <1>2
  <2>2. ranges[k] = sorted[k - 1] /\ ranges[k] \in ScopedRanges
    BY <1>2, <1>3, <2>1
  <2> QED BY <2>1, <2>2, RangesAre
<1>5. PICK n : n = N + 1
  OBVIOUS
<1>6. n \in Nat \ {0} /\ DOMAIN scopes = 1 .. n
  BY <1>2, <1>3, <1>5
<1>7. scopes[1] = [range |-> RootRange, parent |-> 0, kind |-> "root"]
  <2>1. 1 \in DOMAIN ranges
    BY <1>2, <1>3
  <2> QED BY <1>3, <2>1 DEF Root
<1>8. ASSUME NEW k \in 2 .. n
      PROVE  /\ scopes[k].range = ranges[k] /\ scopes[k].parent = ParentOf(ranges, k)
             /\ scopes[k].kind = ScopeKind(ranges[k], ParentOf(ranges, k))
  <2>1. k \in 1 .. N + 1 /\ k # 1
    BY <1>2, <1>5
  <2> QED BY <1>3, <2>1 DEF Root
<1> HIDE DEF scopes
<1>9. ASSUME NEW k \in 1 .. n PROVE scopes[k].range = ranges[k]
  <2>1. k = 1 \/ k \in 2 .. n
    BY <1>6
  <2> QED BY <1>3, <1>7, <1>8, <2>1
<1>10. ASSUME NEW r \in ScopedRanges PROVE \E k \in 2 .. n : ranges[k] = r
  <2>1. PICK k \in 1 .. N : sorted[k] = r
    BY <1>2
  <2>2. PICK m : m = k + 1
    OBVIOUS
  <2>3. m \in 2 .. N + 1 /\ m - 1 = k
    BY <1>2, <2>2
  <2> QED BY <1>4, <1>5, <2>1, <2>3
<1>11. ASSUME NEW k \in 1 .. n, NEW m \in 1 .. n, ranges[k] = ranges[m] PROVE k = m
  <2>1. k = 1 \/ k \in 2 .. N + 1
    BY <1>5, <1>6
  <2>2. m = 1 \/ m \in 2 .. N + 1
    BY <1>5, <1>6
  <2>3. CASE k = 1 \/ m = 1
    BY <1>3, <1>4, <1>11, <2>1, <2>2, <2>3
  <2>4. CASE k \in 2 .. N + 1 /\ m \in 2 .. N + 1
    <3>1. k - 1 = m - 1
      BY <1>2, <1>4, <1>11, <2>4
    <3> QED BY <1>6, <3>1
  <2> QED BY <2>1, <2>2, <2>3, <2>4
<1>12. ASSUME NEW k \in 2 .. n, NEW m \in 2 .. n, Before(ranges[k], ranges[m]) PROVE k < m
  <2>1. k \in 2 .. N + 1 /\ m \in 2 .. N + 1
    BY <1>5
  <2>2. k - 1 < m - 1
    BY <1>2, <1>4, <1>12, <2>1
  <2> QED BY <1>6, <2>2
<1>13. ASSUME NEW k \in 2 .. n PROVE ranges[k] \in ScopedRanges
  BY <1>4, <1>5
<1>14. Built(scopes, ranges, n)
  BY <1>3, <1>6, <1>7, <1>8, <1>9, <1>10, <1>11, <1>12, <1>13 DEF Built
<1> QED BY <1>1, <1>14

(* The scope around a token is the one of the smallest range that holds it. *)
LEMMA ScopeAtIs ==
  ASSUME Whole, NEW scopes, NEW ranges, NEW n, Built(scopes, ranges, n), NEW i \in 1 .. Len(text),
         NEW k \in 2 .. n, Holds(ranges[k], i),
         \A m \in 2 .. n : m # k /\ Holds(ranges[m], i) => SizeOf(ranges[k]) < SizeOf(ranges[m])
  PROVE  ScopeAt(scopes, i) = k
<1> DEFINE holding == {m \in DOMAIN scopes : Holds(scopes[m].range, i)}
           sizes == [m \in DOMAIN scopes |-> scopes[m].range]
<1>1. /\ n \in Nat \ {0} /\ DOMAIN scopes = 1 .. n /\ ranges[1] = RootRange
      /\ \A m \in 1 .. n : scopes[m].range = ranges[m]
      /\ \A m \in 2 .. n : ranges[m] \in ScopedRanges
  BY DEF Built
<1>2. k \in 1 .. n /\ k # 1
  BY <1>1
<1>3. k \in holding
  BY <1>1, <1>2
<1>4. ScopeAt(scopes, i) = Smallest(sizes, holding)
  BY <1>3 DEF ScopeAt
<1>5. ASSUME NEW m \in holding
      PROVE  /\ m \in 1 .. n /\ sizes[m] = ranges[m] /\ Holds(ranges[m], i)
             /\ SizeOf(sizes[m]) \in Nat
             /\ m # k => SizeOf(ranges[k]) < SizeOf(ranges[m])
  <2>1. m \in 1 .. n /\ sizes[m] = ranges[m] /\ Holds(ranges[m], i)
    BY <1>1
  <2>2. m = 1 \/ m \in 2 .. n
    BY <1>1, <2>1
  <2>3. CASE m = 1
    <3>1. ranges[k] \in ScopedRanges
      BY <1>1
    <3> QED BY <1>1, <2>1, <2>3, <3>1, RangesAre
  <2>4. CASE m \in 2 .. n
    <3>1. ranges[m] \in ScopedRanges
      BY <1>1, <2>4
    <3> QED BY <2>1, <2>4, <3>1, RangesAre
  <2> QED BY <2>2, <2>3, <2>4
<1>6. holding \in SUBSET Nat /\ holding # {} /\ \A m \in holding : SizeOf(sizes[m]) \in Nat
  BY <1>1, <1>3, <1>5
<1>7. PICK c : c = Smallest(sizes, holding)
  OBVIOUS
<1> HIDE DEF holding, sizes
<1>8. c \in holding /\ \A m \in holding : SizeOf(sizes[c]) <= SizeOf(sizes[m])
  BY <1>6, <1>7, SmallestIsAmong
<1>9. SizeOf(ranges[c]) <= SizeOf(ranges[k]) /\ SizeOf(ranges[c]) \in Nat /\ SizeOf(ranges[k]) \in Nat
  BY <1>3, <1>5, <1>8
<1>10. c = k
  BY <1>5, <1>8, <1>9
<1> QED BY <1>4, <1>7, <1>10

(* Of two braces that are open at a token, the one within the other closes first. *)
LEMMA BracesNest ==
  ASSUME Whole, NEW i \in 1 .. Len(text), NEW o \in Braces(i), NEW b \in Braces(i), o < b
  PROVE  o \in Braces(b) /\ EndOf(b) < EndOf(o)
<1>1. text \in Seq(Token) /\ Len(text) \in Nat /\ PairsNest
  BY WholeTexts
<1>2. /\ o \in 1 .. i - 1 /\ o \in 1 .. Len(text) /\ KindAt(o) = "leftBrace" /\ (o \in DOMAIN pairs => i <= pairs[o])
      /\ b \in 1 .. i - 1 /\ b \in 1 .. Len(text) /\ KindAt(b) = "leftBrace"
  BY <1>1, BracesAreBehind
<1>3. /\ o \in DOMAIN pairs /\ pairs[o] \in 1 .. Len(text) /\ EndOf(o) = pairs[o]
      /\ b \in DOMAIN pairs /\ pairs[b] \in 1 .. Len(text) /\ EndOf(b) = pairs[b]
  BY <1>2, BracesAreClosed
<1>4. b \in o + 1 .. pairs[o] - 1 /\ b <= pairs[o] /\ o \in 1 .. b - 1
  BY <1>2, <1>3
<1>5. text[b].kind \in Openers
  BY <1>1, <1>2 DEF KindAt, Openers
<1>6. pairs[b] < pairs[o]
  BY <1>1, <1>3, <1>4, <1>5 DEF PairsNest
<1>7. o \in Braces(b)
  BY <1>2, <1>4 DEF Braces
<1> QED BY <1>3, <1>6, <1>7

(* A scope that holds a token is one whose brace is open there, or the token *)
(* is in the scope's head.                                                   *)
LEMMA ScopesHold ==
  ASSUME Whole, NEW r \in ScopedRanges, NEW i \in 1 .. Len(text), KindAt(i) # "leftBrace", Holds(r, i)
  PROVE  \E o \in 1 .. Len(text) :
           /\ KindAt(o) = "leftBrace" /\ r = Span(r.start, EndOf(o)) /\ r.start \in 1 .. o
           /\ r \in CompoundStatements => r.start = o
           /\ r \notin CompoundStatements => r.start < o
           /\ o \in Braces(i) \/ StatementStart(i) = StatementStart(o)
<1>1. text \in Seq(Token) /\ Len(text) \in Nat /\ DelimiterTypeOK /\ PairsNest
  BY WholeTexts
<1>2. PICK o \in 1 .. Len(text) :
           /\ KindAt(o) = "leftBrace" /\ r = Span(r.start, EndOf(o)) /\ r.start \in 1 .. o
           /\ r \in CompoundStatements => r.start = o
           /\ r \notin CompoundStatements =>
                r.start < o /\ r.start = StatementStart(o) /\ RoleAt(o) \in {"function", "loop"}
  BY ScopesHaveBraces
<1>3. o \in DOMAIN pairs /\ pairs[o] \in 1 .. Len(text) /\ EndOf(o) = pairs[o]
  BY <1>2, BracesAreClosed
<1>4. r.start <= i /\ i <= pairs[o]
  <2>1. r.end = EndOf(o) + 1
    BY <1>2 DEF Span
  <2> QED BY <1>3, <2>1 DEF Holds
<1>5. CASE o < i
  <2>1. o \in 1 .. i - 1 /\ i <= pairs[o]
    BY <1>4, <1>5
  <2>2. o \in Braces(i)
    BY <1>2, <2>1 DEF Braces
  <2> QED BY <1>2, <2>2
<1>6. CASE i < o
  <2>1. r.start # o
    BY <1>2, <1>4, <1>6
  <2>2. r.start = StatementStart(o) /\ i \in StatementStart(o) .. o
    BY <1>2, <1>4, <1>6, <2>1
  <2>3. o \in 1 .. Len(text) + 1
    BY <1>1
  <2>4. StatementStart(i) = StatementStart(o)
    BY <1>1, <2>2, <2>3, SameBraces
  <2> QED BY <1>2, <2>4
<1>7. i # o
  BY <1>2
<1> QED BY <1>1, <1>5, <1>6, <1>7

(* A scope around a block is one whose brace is open at that of the block, or *)
(* the one whose body the block is.                                           *)
LEMMA ScopesEnclose ==
  ASSUME Whole, NEW b \in 1 .. Len(text), KindAt(b) = "leftBrace", NEW r \in ScopedRanges,
         Encloses(r, Span(b, EndOf(b))), r # Span(b, EndOf(b))
  PROVE  Braces(b) # {} \/ RoleAt(b) \in {"function", "loop"}
<1>1. text \in Seq(Token) /\ Len(text) \in Nat /\ DelimiterTypeOK /\ PairsNest
  BY WholeTexts
<1>2. PICK o \in 1 .. Len(text) :
           /\ KindAt(o) = "leftBrace" /\ r = Span(r.start, EndOf(o)) /\ r.start \in 1 .. o
           /\ r \in CompoundStatements => r.start = o
           /\ r \notin CompoundStatements =>
                r.start < o /\ r.start = StatementStart(o) /\ RoleAt(o) \in {"function", "loop"}
  BY ScopesHaveBraces
<1>3. /\ o \in DOMAIN pairs /\ pairs[o] \in 1 .. Len(text) /\ EndOf(o) = pairs[o]
      /\ b \in DOMAIN pairs /\ pairs[b] \in 1 .. Len(text) /\ EndOf(b) = pairs[b] /\ b < pairs[b]
  BY <1>2, BracesAreClosed
<1>4. r.start <= b /\ EndOf(b) <= EndOf(o)
  <2>1. r.end = EndOf(o) + 1 /\ Span(b, EndOf(b)).start = b /\ Span(b, EndOf(b)).end = EndOf(b) + 1
    BY <1>2 DEF Span
  <2> QED BY <1>3, <2>1 DEF Encloses
<1>5. CASE o < b
  <2>1. o \in 1 .. b - 1 /\ b <= pairs[o]
    BY <1>3, <1>4, <1>5
  <2>2. o \in Braces(b)
    BY <1>2, <2>1 DEF Braces
  <2> QED BY <2>2
<1>6. CASE o = b
  <2>1. r \notin CompoundStatements
    BY <1>2, <1>6
  <2> QED BY <1>2, <1>6, <2>1
<1>7. CASE b < o
  <2>1. r.start = StatementStart(o)
    BY <1>2, <1>4, <1>7
  <2>2. o \in Nat \ {0} /\ b \in 1 .. o - 1
    BY <1>7
  <2>3. b < StatementStart(o)
    BY <1>1, <2>2, StatementsBegin DEF Boundaries
  <2> QED BY <1>2, <1>4, <2>1, <2>3
<1> QED BY <1>5, <1>6, <1>7

(* A token in no scope's head *)
Quiet(i) == /\ KindAt(i) # "leftBrace"
            /\ \A o \in 1 .. Len(text) : KindAt(o) = "leftBrace" => StatementStart(i) # StatementStart(o)

(* The scope around such a token is the block of the innermost brace. *)
LEMMA InnermostScopes ==
  ASSUME Whole, NEW scopes, NEW ranges, NEW n, Built(scopes, ranges, n), NEW i \in 1 .. Len(text),
         Quiet(i), NEW b, b = Innermost(i), Braces(i) # {}
  PROVE  \E k \in 2 .. n : ranges[k] = Span(b, EndOf(b)) /\ ScopeAt(scopes, i) = k
<1>1. text \in Seq(Token) /\ Len(text) \in Nat /\ DOMAIN text = 1 .. Len(text) /\ DelimiterTypeOK /\ PairsNest
  BY WholeTexts
<1>2. i \in Nat \ {0}
  BY <1>1
<1>3. b \in Braces(i) /\ \A o \in Braces(i) : o <= b
  BY <1>1, <1>2, InnermostIs
<1>4. b \in 1 .. Len(text) /\ KindAt(b) = "leftBrace" /\ b \in Nat
  BY <1>1, <1>3, BracesAreBehind
<1>5. PICK r : r = Span(b, EndOf(b))
  OBVIOUS
<1>6. r \in CompoundStatements /\ r \in ScopedRanges
  BY <1>1, <1>4, <1>5 DEF CompoundStatements, ScopedRanges, Of
<1>7. Holds(r, i)
  BY <1>3, <1>5, BracesHold DEF Quiet
<1>8. PICK k \in 2 .. n : ranges[k] = r
  BY <1>6 DEF Built
<1>9. /\ \A m \in 2 .. n : ranges[m] \in ScopedRanges
      /\ \A m \in 2 .. n : ranges[m] = ranges[k] => m = k
  <2>1. \A m \in 2 .. n : m \in 1 .. n
    BY DEF Built
  <2> QED BY <2>1 DEF Built
<1>10. ASSUME NEW m \in 2 .. n, m # k, Holds(ranges[m], i)
       PROVE  SizeOf(ranges[k]) < SizeOf(ranges[m])
  <2>1. PICK q : q = ranges[m]
    OBVIOUS
  <2>2. q \in ScopedRanges /\ q # r /\ Holds(q, i)
    BY <1>8, <1>9, <1>10, <2>1
  <2>3. PICK o \in 1 .. Len(text) :
           /\ KindAt(o) = "leftBrace" /\ q = Span(q.start, EndOf(o)) /\ q.start \in 1 .. o
           /\ q \in CompoundStatements => q.start = o
           /\ q \notin CompoundStatements => q.start < o
           /\ o \in Braces(i) \/ StatementStart(i) = StatementStart(o)
    BY <2>2, ScopesHold DEF Quiet
  <2>4. o \in Braces(i) /\ o <= b
    BY <1>3, <2>3 DEF Quiet
  <2>5. /\ EndOf(o) \in 1 .. Len(text) /\ EndOf(b) \in 1 .. Len(text)
    BY <1>4, <2>3, BracesAreClosed
  <2>6. q.end = EndOf(o) + 1 /\ r.end = EndOf(b) + 1 /\ r.start = b
    BY <1>5, <2>3 DEF Span
  <2>7. CASE o = b
    <3>1. q \notin CompoundStatements
      BY <1>5, <2>2, <2>3, <2>7
    <3>2. q.start < b
      BY <2>3, <2>7, <3>1
    <3>3. r.end - r.start < q.end - q.start
      BY <1>4, <2>3, <2>5, <2>6, <2>7, <3>2
    <3> QED BY <1>8, <2>1, <3>3 DEF SizeOf
  <2>8. CASE o # b
    <3>1. o < b
      BY <1>4, <2>4, <2>8
    <3>2. EndOf(b) < EndOf(o)
      BY <1>3, <2>4, <3>1, BracesNest
    <3>3. r.end - r.start < q.end - q.start
      BY <1>4, <2>3, <2>5, <2>6, <3>1, <3>2
    <3> QED BY <1>8, <2>1, <3>3 DEF SizeOf
  <2> QED BY <2>7, <2>8
<1>11. Holds(ranges[k], i)
  BY <1>7, <1>8
<1>12. ScopeAt(scopes, i) = k
  BY <1>10, <1>11, ScopeAtIs
<1> QED BY <1>5, <1>8, <1>12

(* The parent of a scope is the smallest scope before it that encloses it. *)
LEMMA ParentsAre ==
  ASSUME Whole, NEW scopes, NEW ranges, NEW n, Built(scopes, ranges, n), NEW k \in 2 .. n,
         NEW c, c = ParentOf(ranges, k)
  PROVE  /\ c \in 1 .. k - 1
         /\ c # 1 => c \in 2 .. n /\ Encloses(ranges[c], ranges[k])
         /\ \A m \in 2 .. k - 1 : Encloses(ranges[m], ranges[k]) =>
              c # 1 /\ SizeOf(ranges[c]) <= SizeOf(ranges[m])
<1>1. /\ n \in Nat \ {0} /\ ranges[1] = RootRange
      /\ \A m \in 2 .. n : ranges[m] \in ScopedRanges
      /\ \A m, l \in 1 .. n : ranges[m] = ranges[l] => m = l
  BY DEF Built
<1> DEFINE enclosing == {m \in 1 .. k - 1 : ranges[m] # ranges[k] /\ Encloses(ranges[m], ranges[k])}
<1>2. ASSUME NEW m \in 1 .. k - 1
      PROVE  /\ ranges[m] # ranges[k] /\ SizeOf(ranges[m]) \in Nat
             /\ m # 1 => m \in 2 .. n /\ SizeOf(ranges[m]) < SizeOf(RootRange)
             /\ m = 1 => Encloses(ranges[m], ranges[k])
  <2>1. m \in 1 .. n /\ k \in 1 .. n /\ m # k /\ (m # 1 => m \in 2 .. n)
    BY <1>1
  <2>2. ranges[m] # ranges[k]
    BY <1>1, <2>1
  <2>3. ranges[k] \in ScopedRanges /\ (m # 1 => ranges[m] \in ScopedRanges)
    BY <1>1, <2>1
  <2>4. CASE m = 1
    BY <1>1, <2>2, <2>3, <2>4, RangesAre
  <2>5. CASE m # 1
    BY <2>1, <2>2, <2>3, <2>5, RangesAre
  <2> QED BY <2>4, <2>5
<1>3. 1 \in enclosing
  <2>1. 1 \in 1 .. k - 1
    BY <1>1
  <2> QED BY <1>2, <2>1
<1>4. c = Smallest(ranges, enclosing)
  BY <1>3 DEF ParentOf
<1>5. enclosing \in SUBSET Nat /\ enclosing # {} /\ \A m \in enclosing : SizeOf(ranges[m]) \in Nat
  BY <1>1, <1>2, <1>3
<1>6. c \in enclosing /\ \A m \in enclosing : SizeOf(ranges[c]) <= SizeOf(ranges[m])
  <2> HIDE DEF enclosing
  <2> QED BY <1>4, <1>5, SmallestIsAmong
<1>7. c \in 1 .. k - 1 /\ Encloses(ranges[c], ranges[k]) /\ (c # 1 => c \in 2 .. n)
  BY <1>2, <1>6
<1>8. ASSUME NEW m \in 2 .. k - 1, Encloses(ranges[m], ranges[k])
      PROVE  c # 1 /\ SizeOf(ranges[c]) <= SizeOf(ranges[m])
  <2>1. m \in 1 .. k - 1 /\ m # 1
    BY <1>1
  <2>2. m \in enclosing
    BY <1>2, <1>8, <2>1
  <2>3. SizeOf(ranges[c]) <= SizeOf(ranges[m]) /\ SizeOf(ranges[c]) \in Nat /\ SizeOf(ranges[m]) \in Nat
    BY <1>5, <1>6, <2>2
  <2>4. SizeOf(ranges[m]) < SizeOf(RootRange) /\ SizeOf(RootRange) \in Nat
    <3>1. ranges[m] \in ScopedRanges
      BY <1>1, <1>2, <2>1
    <3> QED BY <3>1, RangesAre
  <2>5. c # 1
    BY <1>1, <2>3, <2>4
  <2> QED BY <2>3, <2>5
<1> QED BY <1>7, <1>8

(* Blocks of one kind have it first. *)
LEMMA FirstKindIs ==
  ASSUME NEW blocks, blocks # {}, NEW v, \A q \in blocks : q.range.start \in Nat /\ q.kind = v
  PROVE  FirstKind(blocks) = v
<1> DEFINE starts == {q.range.start : q \in blocks}
<1>1. starts \in SUBSET Nat /\ starts # {}
  OBVIOUS
<1>2. PICK m \in starts : \A s \in starts : m <= s
  <2> HIDE DEF starts
  <2> QED BY <1>1, LeastExists
<1>3. PICK q \in blocks : q.range.start = m
  BY <1>2
<1>4. \A c \in blocks : q.range.start <= c.range.start
  BY <1>2, <1>3
<1>5. (CHOOSE b \in blocks : \A c \in blocks : b.range.start <= c.range.start) \in blocks
  BY <1>3, <1>4
<1> QED BY <1>5 DEF FirstKind

(* A program block that holds a token behind its head has its brace open there. *)
LEMMA BlocksHold ==
  ASSUME Whole, NEW i \in 1 .. Len(text), KindAt(i) \notin BlockWords, KindAt(i) # "leftBrace",
         NEW q \in ProgramBlocks, Holds(q.range, i)
  PROVE  /\ q.range.start \in Nat
         /\ \E o \in Braces(i) : RoleAt(o) = q.kind /\ q.kind \in BlockKinds /\ Braces(o) = {}
<1>1. text \in Seq(Token) /\ Len(text) \in Nat
  BY WholeTexts
<1>2. PICK o \in 1 .. Len(text) :
           /\ KindAt(o) = "leftBrace" /\ RoleAt(o) = q.kind /\ q.kind \in BlockKinds
           /\ q.range = Span(q.range.start, EndOf(o)) /\ q.range.start \in 1 .. o - 1
           /\ \A j \in q.range.start .. o - 1 : KindAt(j) \in BlockWords
  BY BlocksAreRoles
<1>3. o \in DOMAIN pairs /\ pairs[o] \in 1 .. Len(text) /\ EndOf(o) = pairs[o]
  BY <1>2, BracesAreClosed
<1>4. q.range.start <= i /\ i <= pairs[o]
  <2>1. q.range.end = EndOf(o) + 1
    BY <1>2 DEF Span
  <2> QED BY <1>3, <2>1 DEF Holds
<1>5. ~ (i < o) /\ i # o
  <2>1. i < o => i \in q.range.start .. o - 1
    BY <1>2, <1>4
  <2> QED BY <1>2, <2>1
<1>6. o \in 1 .. i - 1
  BY <1>2, <1>5
<1>7. o \in Braces(i)
  BY <1>2, <1>4, <1>6 DEF Braces
<1>8. Braces(o) = {}
  BY <1>2, RolesAreBlocks
<1> QED BY <1>2, <1>7, <1>8

(* The program block around a token is that of the outermost brace. *)
LEMMA BlockAround ==
  ASSUME Whole, NEW i \in 1 .. Len(text), KindAt(i) \notin BlockWords, KindAt(i) # "leftBrace",
         NEW b \in Braces(i), Braces(b) = {}, RoleAt(b) \in BlockKinds
  PROVE  FirstKind({q \in ProgramBlocks : Holds(q.range, i)}) = RoleAt(b)
<1>1. text \in Seq(Token) /\ Len(text) \in Nat
  BY WholeTexts
<1>2. b \in 1 .. Len(text) /\ b \in 1 .. i - 1 /\ KindAt(b) = "leftBrace" /\ (b \in DOMAIN pairs => i <= pairs[b])
  BY <1>1, BracesAreBehind
<1>3. b \in DOMAIN pairs /\ EndOf(b) = pairs[b] /\ pairs[b] \in 1 .. Len(text)
  BY <1>2, BracesAreClosed
<1> DEFINE blocks == {q \in ProgramBlocks : Holds(q.range, i)}
<1>4. blocks # {}
  <2>1. PICK q \in ProgramBlocks : /\ q.kind = RoleAt(b) /\ q.range = Span(q.range.start, EndOf(b))
                                   /\ q.range.start \in 1 .. b - 1
    BY <1>2, RolesAreBlocks
  <2>2. q.range.end = EndOf(b) + 1
    BY <2>1 DEF Span
  <2>3. q.range.start <= i /\ i < q.range.end
    BY <1>2, <1>3, <2>1, <2>2
  <2> QED BY <2>1, <2>3 DEF Holds
<1>5. ASSUME NEW q \in blocks PROVE q.range.start \in Nat /\ q.kind = RoleAt(b)
  <2>1. q \in ProgramBlocks /\ Holds(q.range, i)
    OBVIOUS
  <2>2. q.range.start \in Nat /\ \E o \in Braces(i) : RoleAt(o) = q.kind /\ q.kind \in BlockKinds /\ Braces(o) = {}
    BY <2>1, BlocksHold
  <2>3. PICK o \in Braces(i) : RoleAt(o) = q.kind /\ Braces(o) = {}
    BY <2>2
  <2>4. ~ (o < b) /\ ~ (b < o)
    BY <2>3, BracesNest
  <2>5. o \in Nat /\ b \in Nat
    BY <1>1, BracesAreBehind
  <2>6. o = b
    BY <2>4, <2>5
  <2> QED BY <2>2, <2>3, <2>6
<1> HIDE DEF blocks
<1>6. FirstKind(blocks) = RoleAt(b)
  BY <1>4, <1>5, FirstKindIs
<1> QED BY <1>6 DEF blocks

(* Blocks are of the kind their author opened them for. *)
LEMMA KindsOfBlocks ==
  ASSUME Whole, NEW scopes, NEW ranges, NEW n, Built(scopes, ranges, n), NEW k \in 2 .. n,
         NEW b \in 1 .. Len(text), KindAt(b) = "leftBrace", ranges[k] = Span(b, EndOf(b))
  PROVE  scopes[k].kind = IF RoleAt(b) \in BlockKinds THEN RoleAt(b) ELSE "block"
<1>1. text \in Seq(Token) /\ Len(text) \in Nat /\ DOMAIN text = 1 .. Len(text)
  BY WholeTexts
<1>2. PICK r : r = Span(b, EndOf(b))
  OBVIOUS
<1>3. PICK c : c = ParentOf(ranges, k)
  OBVIOUS
<1>4. r \in CompoundStatements /\ r.start = b /\ r.end = EndOf(b) + 1
  BY <1>1, <1>2 DEF CompoundStatements, Of, Span
<1>5. RequestedKind(r) = "block"
  BY <1>4 DEF RequestedKind
<1>6. scopes[k].kind = ScopeKind(r, c)
  BY <1>2, <1>3 DEF Built
<1> DEFINE blocks == {q \in ProgramBlocks : Encloses(q.range, r)}
<1>7. ScopeKind(r, c) = IF c = Root /\ FirstKind(blocks) # "none" THEN FirstKind(blocks) ELSE "block"
  BY <1>5 DEF ScopeKind
<1>8. EndOf(b) \in 1 .. Len(text) /\ b < EndOf(b)
  BY BracesAreClosed
<1>9. ASSUME NEW q \in blocks
      PROVE  \E o \in 1 .. b : /\ KindAt(o) = "leftBrace" /\ RoleAt(o) = q.kind /\ q.kind \in BlockKinds
                               /\ q.range.start \in Nat /\ EndOf(b) <= EndOf(o) /\ EndOf(o) \in 1 .. Len(text)
  <2>1. q \in ProgramBlocks /\ q.range.start <= r.start /\ r.end <= q.range.end
    BY DEF Encloses
  <2>2. PICK o \in 1 .. Len(text) :
           /\ KindAt(o) = "leftBrace" /\ RoleAt(o) = q.kind /\ q.kind \in BlockKinds
           /\ q.range = Span(q.range.start, EndOf(o)) /\ q.range.start \in 1 .. o - 1
           /\ \A j \in q.range.start .. o - 1 : KindAt(j) \in BlockWords
    BY <2>1, BlocksAreRoles
  <2>3. q.range.end = EndOf(o) + 1 /\ EndOf(o) \in 1 .. Len(text)
    BY <2>2, BracesAreClosed DEF Span
  <2>4. ~ (b < o)
    <3>1. b < o => b \in q.range.start .. o - 1
      BY <1>4, <2>1, <2>2
    <3> QED BY <2>2, <3>1 DEF BlockWords
  <2>5. o \in 1 .. b /\ EndOf(b) <= EndOf(o)
    BY <1>4, <1>8, <2>1, <2>2, <2>3, <2>4
  <2> QED BY <2>2, <2>3, <2>5
<1>10. CASE RoleAt(b) \in BlockKinds
  <2>1. Braces(b) = {}
    BY <1>10, RolesAreBlocks
  <2>2. c = 1
    <3> SUFFICES ASSUME c # 1 PROVE FALSE
      OBVIOUS
    <3>1. c \in 2 .. n /\ Encloses(ranges[c], r) /\ c \in 1 .. k - 1
      BY <1>2, <1>3, ParentsAre
    <3>2. ranges[c] \in ScopedRanges /\ ranges[c] # r
      <4>1. c \in 1 .. n /\ k \in 1 .. n /\ c # k
        BY <3>1
      <4> QED BY <1>2, <3>1, <4>1 DEF Built
    <3>3. RoleAt(b) \in {"function", "loop"}
      BY <1>2, <2>1, <3>1, <3>2, ScopesEnclose
    <3> QED BY <1>10, <3>3, BlockKindsAre
  <2>3. blocks # {}
    <3>1. PICK q \in ProgramBlocks : /\ q.kind = RoleAt(b) /\ q.range = Span(q.range.start, EndOf(b))
                                     /\ q.range.start \in 1 .. b - 1
      BY <1>10, RolesAreBlocks
    <3>2. q.range.end = EndOf(b) + 1
      BY <3>1 DEF Span
    <3>3. q.range.start <= r.start /\ r.end <= q.range.end
      BY <1>4, <1>8, <3>1, <3>2
    <3> QED BY <3>1, <3>3 DEF Encloses
  <2>4. ASSUME NEW q \in blocks PROVE q.range.start \in Nat /\ q.kind = RoleAt(b)
    <3>1. PICK o \in 1 .. b : /\ KindAt(o) = "leftBrace" /\ RoleAt(o) = q.kind /\ q.kind \in BlockKinds
                              /\ q.range.start \in Nat /\ EndOf(b) <= EndOf(o) /\ EndOf(o) \in 1 .. Len(text)
      BY <1>9
    <3>2. o = b
      <4> SUFFICES ASSUME o # b PROVE FALSE
        OBVIOUS
      <4>1. o \in 1 .. b - 1 /\ EndOf(o) = pairs[o]
        BY <3>1, BracesAreClosed
      <4>2. b <= pairs[o]
        BY <1>8, <3>1, <4>1
      <4>3. o \in Braces(b)
        BY <3>1, <4>1, <4>2 DEF Braces
      <4> QED BY <2>1, <4>3
    <3> QED BY <3>1, <3>2
  <2> HIDE DEF blocks
  <2>5. FirstKind(blocks) = RoleAt(b)
    BY <2>3, <2>4, FirstKindIs
  <2>6. RoleAt(b) # "none"
    BY <1>10, BlockKindsAre
  <2> QED BY <1>6, <1>7, <1>10, <2>2, <2>5, <2>6 DEF Root
<1>11. CASE RoleAt(b) \notin BlockKinds
  <2>1. blocks = {} \/ c # Root
    <3> SUFFICES ASSUME NEW q \in blocks PROVE c # Root
      OBVIOUS
    <3>1. PICK o \in 1 .. b : /\ KindAt(o) = "leftBrace" /\ RoleAt(o) = q.kind /\ q.kind \in BlockKinds
                              /\ q.range.start \in Nat /\ EndOf(b) <= EndOf(o) /\ EndOf(o) \in 1 .. Len(text)
      BY <1>9
    <3>2. o \in 1 .. b - 1 /\ o \in 1 .. Len(text)
      <4>1. o # b
        BY <1>11, <3>1
      <4> QED BY <3>1, <4>1
    <3>3. PICK s : s = Span(o, EndOf(o))
      OBVIOUS
    <3>4. s \in ScopedRanges /\ s.start = o /\ s.end = EndOf(o) + 1
      BY <1>1, <3>1, <3>2, <3>3 DEF CompoundStatements, ScopedRanges, Of, Span
    <3>5. PICK m \in 2 .. n : ranges[m] = s
      BY <3>4 DEF Built
    <3>6. Before(ranges[m], ranges[k])
      BY <1>2, <1>4, <3>2, <3>4, <3>5 DEF Before
    <3>7. m < k
      BY <3>6 DEF Built
    <3>8. m \in 2 .. k - 1 /\ n \in Nat
      BY <3>7 DEF Built
    <3>9. Encloses(ranges[m], ranges[k])
      <4>1. s.start <= r.start /\ r.end <= s.end
        BY <1>4, <1>8, <3>1, <3>2, <3>4
      <4> QED BY <1>2, <3>5, <4>1 DEF Encloses
    <3> QED BY <1>3, <3>8, <3>9, ParentsAre DEF Root
  <2>2. blocks = {} => FirstKind(blocks) = "none"
    BY DEF FirstKind
  <2> HIDE DEF blocks
  <2> QED BY <1>6, <1>7, <1>11, <2>1, <2>2
<1> QED BY <1>10, <1>11

-----------------------------------------------------------------------------
(* The names that variable declarations declare *)

(* What counting brackets one token at a time gives. *)
Counts(g, from, to, opener, closer) ==
  /\ g \in [from - 1 .. to -> Nat]
  /\ g[from - 1] = 0
  /\ \A k \in from .. to :
       g[k] = IF KindAt(k) = opener THEN g[k - 1] + 1
              ELSE IF KindAt(k) = closer /\ g[k - 1] > 0 THEN g[k - 1] - 1 ELSE g[k - 1]

(* A depth is what counting brackets one token at a time gives. *)
LEMMA DepthWalks ==
  ASSUME NEW from \in Nat \ {0}, NEW to \in Nat, from <= to, NEW opener, NEW closer,
         NEW g, Counts(g, from, to, opener, closer)
  PROVE  Depth(from, to, opener, closer) = g[to]
<1> USE DEF Counts
<1> DEFINE D == from - 1 .. to
           Value(f, k) == IF k = from - 1 THEN 0
                          ELSE LET before == f[k - 1]
                               IN IF KindAt(k) = opener THEN before + 1
                                  ELSE IF KindAt(k) = closer /\ before > 0 THEN before - 1 ELSE before
           Equation(f) == f = [k \in D |-> Value(f, k)]
           depth == CHOOSE f : Equation(f)
<1>1. Depth(from, to, opener, closer) = depth[to]
  BY Zenon DEF Depth
<1>2. ASSUME NEW k \in D PROVE g[k] = Value(g, k)
  <2>1. CASE k = from - 1
    BY <2>1
  <2>2. CASE k # from - 1
    <3>1. k \in from .. to
      BY <2>2
    <3> QED BY <2>2, <3>1
  <2> QED BY <2>1, <2>2
<1>3. Equation(g)
  <2>1. g = [k \in D |-> g[k]]
    OBVIOUS
  <2> HIDE DEF Value, D
  <2> QED BY <1>2, <2>1
<1>4. Equation(depth)
  <2> HIDE DEF Equation
  <2> QED BY <1>3, Zenon
<1>5. \A k \in D : depth[k] = Value(depth, k)
  <2> HIDE DEF Value, D, depth
  <2> QED BY <1>4
<1> HIDE DEF depth
<1> DEFINE Odd == {k \in D : depth[k] # g[k]}
<1>6. Odd = {}
  <2> SUFFICES ASSUME Odd # {} PROVE FALSE
    OBVIOUS
  <2>1. Odd \in SUBSET Nat
    OBVIOUS
  <2>2. PICK k \in Odd : \A m \in Odd : k <= m
    <3> HIDE DEF Odd
    <3> QED BY <2>1, LeastExists
  <2>3. k \in D /\ depth[k] # g[k] /\ depth[k] = Value(depth, k) /\ g[k] = Value(g, k)
    <3>1. k \in D /\ depth[k] # g[k]
      OBVIOUS
    <3> HIDE DEF Value, D
    <3> QED BY <1>2, <1>5, <3>1
  <2>4. k # from - 1
    BY <2>3
  <2>5. k - 1 \in D /\ k - 1 < k
    BY <2>3, <2>4
  <2>6. k - 1 \notin Odd
    <3>1. ~ (k <= k - 1)
      BY <2>5
    <3> HIDE DEF Odd
    <3> QED BY <2>2, <3>1
  <2>7. depth[k - 1] = g[k - 1]
    BY <2>5, <2>6
  <2>8. Value(depth, k) = Value(g, k)
    BY <2>7
  <2> HIDE DEF Value
  <2> QED BY <2>3, <2>8
<1>7. to \in D
  OBVIOUS
<1>8. depth[to] = g[to]
  <2> HIDE DEF D
  <2> QED BY <1>6, <1>7
<1> QED BY <1>1, <1>8

(* Without openers the depth is 0. *)
LEMMA FlatDepth ==
  ASSUME NEW from \in Nat \ {0}, NEW to \in Nat, from <= to, NEW opener, NEW closer,
         \A k \in from .. to : KindAt(k) # opener
  PROVE  Depth(from, to, opener, closer) = 0
<1> DEFINE g == [k \in from - 1 .. to |-> 0]
<1>1. g \in [from - 1 .. to -> Nat] /\ g[from - 1] = 0 /\ g[to] = 0
  OBVIOUS
<1>2. ASSUME NEW k \in from .. to
      PROVE  g[k] = IF KindAt(k) = opener THEN g[k - 1] + 1
                    ELSE IF KindAt(k) = closer /\ g[k - 1] > 0 THEN g[k - 1] - 1 ELSE g[k - 1]
  <2>1. g[k] = 0 /\ g[k - 1] = 0
    OBVIOUS
  <2> HIDE DEF g
  <2> QED BY <2>1
<1> HIDE DEF g
<1>3. Counts(g, from, to, opener, closer)
  BY <1>1, <1>2 DEF Counts
<1>4. Depth(from, to, opener, closer) = g[to]
  BY <1>3, DepthWalks
<1> QED BY <1>1, <1>4

(* Between the brackets of a size the depth is 1, behind them it is 0 again. *)
LEMMA SizeDepth ==
  ASSUME NEW s \in Nat \ {0}, NEW opener, NEW closer, opener # closer,
         KindAt(s) \notin {opener, closer}, KindAt(s + 1) = opener, KindAt(s + 2) \notin {opener, closer},
         KindAt(s + 3) = closer, KindAt(s + 4) \notin {opener, closer}
  PROVE  /\ Depth(s, s + 2, opener, closer) # 0
         /\ Depth(s, s + 4, opener, closer) = 0
<1> DEFINE step(f, k) == IF KindAt(k) = opener THEN f[k - 1] + 1
                         ELSE IF KindAt(k) = closer /\ f[k - 1] > 0 THEN f[k - 1] - 1 ELSE f[k - 1]
<1>1. Depth(s, s + 2, opener, closer) # 0
  <2>1. PICK t : t = s + 2
    OBVIOUS
  <2> DEFINE g == [k \in s - 1 .. t |-> IF k \in {s + 1, s + 2} THEN 1 ELSE 0]
  <2>2. g \in [s - 1 .. t -> Nat]
    OBVIOUS
  <2>3. g[s - 1] = 0 /\ g[s] = 0 /\ g[s + 1] = 1 /\ g[s + 2] = 1
    BY <2>1
  <2> HIDE DEF g
  <2>4. ASSUME NEW k \in s .. t PROVE g[k] = step(g, k)
    <3>1. k = s \/ k = s + 1 \/ k = s + 2
      BY <2>1
    <3>2. s + 1 - 1 = s /\ s + 2 - 1 = s + 1
      OBVIOUS
    <3>3. CASE k = s
      BY <2>3, <3>3
    <3>4. CASE k = s + 1
      <4>1. step(g, k) = g[k - 1] + 1 /\ k - 1 = s
        BY <3>2, <3>4
      <4> QED BY <2>3, <3>4, <4>1
    <3>5. CASE k = s + 2
      <4>1. step(g, k) = g[k - 1] /\ k - 1 = s + 1
        BY <3>2, <3>5
      <4> QED BY <2>3, <3>5, <4>1
    <3> QED BY <3>1, <3>3, <3>4, <3>5
  <2>5. t \in Nat /\ s <= t
    BY <2>1
  <2>6. Depth(s, t, opener, closer) = g[t]
    <3>1. g[s - 1] = 0
      BY <2>3
    <3>2. \A k \in s .. t : g[k] = step(g, k)
      BY <2>4
    <3>3. Counts(g, s, t, opener, closer)
      BY <2>2, <3>1, <3>2 DEF Counts
    <3> HIDE DEF step
    <3> QED BY <2>5, <3>3, DepthWalks
  <2> QED BY <2>1, <2>3, <2>6
<1>2. Depth(s, s + 4, opener, closer) = 0
  <2>1. PICK t : t = s + 4
    OBVIOUS
  <2> DEFINE g == [k \in s - 1 .. t |-> IF k \in {s + 1, s + 2} THEN 1 ELSE 0]
  <2>2. g \in [s - 1 .. t -> Nat]
    OBVIOUS
  <2>3. g[s - 1] = 0 /\ g[s] = 0 /\ g[s + 1] = 1 /\ g[s + 2] = 1 /\ g[s + 3] = 0 /\ g[s + 4] = 0
    BY <2>1
  <2> HIDE DEF g
  <2>4. ASSUME NEW k \in s .. t PROVE g[k] = step(g, k)
    <3>1. k = s \/ k = s + 1 \/ k = s + 2 \/ k = s + 3 \/ k = s + 4
      BY <2>1
    <3>2. s + 1 - 1 = s /\ s + 2 - 1 = s + 1 /\ s + 3 - 1 = s + 2 /\ s + 4 - 1 = s + 3
      OBVIOUS
    <3>3. CASE k = s
      BY <2>3, <3>3
    <3>4. CASE k = s + 1
      <4>1. step(g, k) = g[k - 1] + 1 /\ k - 1 = s
        BY <3>2, <3>4
      <4> QED BY <2>3, <3>4, <4>1
    <3>5. CASE k = s + 2
      <4>1. step(g, k) = g[k - 1] /\ k - 1 = s + 1
        BY <3>2, <3>5
      <4> QED BY <2>3, <3>5, <4>1
    <3>6. CASE k = s + 3
      <4>1. KindAt(k) = closer /\ KindAt(k) # opener /\ k - 1 = s + 2 /\ g[k - 1] = 1 /\ g[k] = 0
        BY <2>3, <3>2, <3>6
      <4>2. step(g, k) = 1 - 1
        BY <4>1
      <4> QED BY <4>1, <4>2
    <3>7. CASE k = s + 4
      <4>1. step(g, k) = g[k - 1] /\ k - 1 = s + 3
        BY <3>2, <3>7
      <4> QED BY <2>3, <3>7, <4>1
    <3> QED BY <3>1, <3>3, <3>4, <3>5, <3>6, <3>7
  <2>5. t \in Nat /\ s <= t
    BY <2>1
  <2>6. Depth(s, t, opener, closer) = g[t]
    <3>1. g[s - 1] = 0
      BY <2>3
    <3>2. \A k \in s .. t : g[k] = step(g, k)
      BY <2>4
    <3>3. Counts(g, s, t, opener, closer)
      BY <2>2, <3>1, <3>2 DEF Counts
    <3> HIDE DEF step
    <3> QED BY <2>5, <3>3, DepthWalks
  <2> QED BY <2>1, <2>3, <2>6
<1> QED BY <1>1, <1>2

(* What is known of each token of a phrase. *)
LEMMA FormTokens ==
  ASSUME text \in Seq(Token), NEW form, NEW s, FormedAt(form, s), NEW k \in Nat, NEW m, m = k + 1,
         m \in 1 .. Len(form.kinds)
  PROVE  /\ s \in Nat \ {0} /\ s + k \in 1 .. Len(text) /\ StatementStart(s + k) = s
         /\ KindAt(s + k) = form.kinds[m] /\ RoleAt(s + k) = form.roles[m]
<1>1. s \in Nat \ {0}
  <2>1. s \in 1 .. Len(text) /\ Len(text) \in Nat
    BY DEF FormedAt
  <2> QED BY <2>1
<1>2. s + m - 1 = s + k
  BY <1>1
<1>3. /\ s + m - 1 \in 1 .. Len(text) /\ StatementStart(s + m - 1) = s
      /\ KindAt(s + m - 1) = form.kinds[m] /\ RoleAt(s + m - 1) = form.roles[m]
  BY DEF FormedAt
<1> QED BY <1>1, <1>2, <1>3

(* The declared name is the first one outside brackets, if the type is first. *)
LEMMA NamesAreFirst ==
  ASSUME text \in Seq(Token), NEW s \in 1 .. Len(text), NEW to \in Nat, NEW d \in s .. to,
         KindAt(s) = "type", KindAt(d) = "identifier",
         Depth(s, d, "leftParen", "rightParen") = 0, Depth(s, d, "leftBracket", "rightBracket") = 0,
         Depth(s, d, "lessThan", "greaterThan") = 0,
         \A k \in s .. d - 1 : KindAt(k) = "identifier" => Depth(s, k, "leftBracket", "rightBracket") # 0
  PROVE  DeclarationName(s, to) = d
<1> DEFINE Types == Of("type", s .. to)
           type  == First(Types)
           I == {k \in Of("identifier", type .. to) :
                   /\ Depth(type, k, "leftParen", "rightParen") = 0
                   /\ Depth(type, k, "leftBracket", "rightBracket") = 0
                   /\ Depth(type, k, "lessThan", "greaterThan") = 0}
<1>0. s \in Nat \ {0} /\ d \in Nat /\ s <= d /\ d <= to
  <2>1. Len(text) \in Nat
    OBVIOUS
  <2> QED BY <2>1
<1>1. DeclarationName(s, to) = IF type = 0 THEN 0 ELSE First(I)
  BY DEF DeclarationName
<1>2. s \in Types /\ Types \in SUBSET (Nat \ {0}) /\ \A k \in Types : s <= k
  <2>1. s \in s .. to
    BY <1>0
  <2>2. \A k \in s .. to : k \in Nat \ {0} /\ s <= k
    BY <1>0
  <2> QED BY <2>1, <2>2 DEF Of
<1>3. type = s
  <2> HIDE DEF Types
  <2>1. First(Types) # 0
    BY <1>2, FirstIsLeast
  <2>2. First(Types) \in Types /\ First(Types) <= s
    BY <1>2, <2>1, FirstIsLeast
  <2>3. s <= First(Types) /\ First(Types) \in Nat
    BY <1>2, <2>2
  <2> QED BY <1>0, <2>2, <2>3
<1> HIDE DEF type, Types
<1>4. d \in I /\ I \in SUBSET (Nat \ {0})
  <2>1. d \in s .. to
    BY <1>0
  <2>2. \A k \in s .. to : k \in Nat \ {0}
    BY <1>0
  <2> QED BY <1>3, <2>1, <2>2 DEF Of
<1>5. \A k \in I : ~ (k < d)
  <2> SUFFICES ASSUME NEW k \in I, k < d PROVE FALSE
    OBVIOUS
  <2>1. k \in s .. to /\ KindAt(k) = "identifier" /\ Depth(s, k, "leftBracket", "rightBracket") = 0
    BY <1>3 DEF Of
  <2>2. k \in s .. d - 1
    BY <1>0, <2>1
  <2> QED BY <2>1, <2>2
<1> HIDE DEF I
<1>6. First(I) # 0
  BY <1>4, FirstIsLeast
<1>7. First(I) \in I /\ First(I) <= d
  BY <1>4, <1>6, FirstIsLeast
<1>8. First(I) \in Nat /\ ~ (First(I) < d)
  BY <1>4, <1>5, <1>7
<1>9. First(I) = d
  BY <1>0, <1>7, <1>8
<1> QED BY <1>0, <1>1, <1>3, <1>9

(* The name of a plain declaration *)
LEMMA PlainStatements ==
  ASSUME text \in Seq(Token), NEW s, FormedAt(PlainForm, s)
  PROVE  /\ s \in Nat \ {0} /\ s \in 1 .. Len(text) /\ s + 1 \in 1 .. Len(text) /\ s + 2 \in 1 .. Len(text)
         /\ KindAt(s) = "type" /\ StatementStart(s) = s
         /\ KindAt(s + 1) = "identifier" /\ StatementStart(s + 1) = s /\ RoleAt(s + 1) = "declares"
         /\ KindAt(s + 2) = "semicolon" /\ StatementStart(s + 2) = s /\ RoleAt(s + 2) = "ends"
         /\ DeclarationName(s, s + 2) = s + 1 /\ HeldAt(s + 2) = s + 1
<1>1. /\ Len(PlainForm.kinds) = 3 /\ PlainForm.kinds[1] = "type" /\ PlainForm.kinds[2] = "identifier"
      /\ PlainForm.kinds[3] = "semicolon"
      /\ PlainForm.roles[1] = "none" /\ PlainForm.roles[2] = "declares" /\ PlainForm.roles[3] = "ends"
  BY RolesAre, ShapesAre
<1>2. ASSUME NEW k \in 0 .. 2
      PROVE  /\ s \in Nat \ {0} /\ s + k \in 1 .. Len(text) /\ StatementStart(s + k) = s
             /\ KindAt(s + k) = PlainForm.kinds[k + 1] /\ RoleAt(s + k) = PlainForm.roles[k + 1]
  <2>1. PICK m : m = k + 1
    OBVIOUS
  <2>2. m \in 1 .. Len(PlainForm.kinds) /\ k \in Nat
    BY <1>1, <2>1
  <2> QED BY <2>1, <2>2, FormTokens
<1>3. /\ 0 \in 0 .. 2 /\ 1 \in 0 .. 2 /\ 2 \in 0 .. 2 /\ 0 + 1 = 1 /\ 1 + 1 = 2 /\ 2 + 1 = 3
  OBVIOUS
<1>4. s \in Nat \ {0}
  BY <1>2, <1>3
<1>5. s + 0 = s
  BY <1>4
<1>6. s \in 1 .. Len(text) /\ KindAt(s) = "type" /\ StatementStart(s) = s /\ RoleAt(s) = "none"
  BY <1>1, <1>2, <1>3, <1>5
<1>7. s + 1 \in 1 .. Len(text) /\ KindAt(s + 1) = "identifier" /\ StatementStart(s + 1) = s /\ RoleAt(s + 1) = "declares"
  BY <1>1, <1>2, <1>3
<1>8. s + 2 \in 1 .. Len(text) /\ KindAt(s + 2) = "semicolon" /\ StatementStart(s + 2) = s /\ RoleAt(s + 2) = "ends"
  BY <1>1, <1>2, <1>3
<1>9. PICK d, e : d = s + 1 /\ e = s + 2
  OBVIOUS
<1>10. /\ d \in Nat /\ e \in Nat /\ d \in s .. e /\ s <= d
       /\ \A k \in s .. d : k = s \/ k = d
       /\ \A k \in s .. d - 1 : k = s
  BY <1>4, <1>9
<1>11. ASSUME NEW opener \in {"leftParen", "leftBracket", "lessThan"}, NEW closer
       PROVE  Depth(s, d, opener, closer) = 0
  <2>1. \A k \in s .. d : KindAt(k) # opener
    BY <1>6, <1>7, <1>9, <1>10
  <2> QED BY <1>4, <1>10, <2>1, FlatDepth
<1>12. \A k \in s .. d - 1 : KindAt(k) # "identifier"
  BY <1>6, <1>10
<1>13. DeclarationName(s, e) = d
  <2>1. KindAt(d) = "identifier"
    BY <1>7, <1>9
  <2> QED BY <1>6, <1>10, <1>11, <1>12, <2>1, NamesAreFirst
<1>14. HeldAt(e) = d
  <2>1. e \in Nat \ {0} /\ StatementStart(e) = s /\ d \in s .. e - 1 /\ RoleAt(d) = "declares"
    BY <1>4, <1>7, <1>8, <1>9
  <2>2. HeldAt(e) \in Nat /\ d <= HeldAt(e)
    BY <2>1, HeldIs
  <2>3. HeldAt(e) # 0
    BY <1>4, <1>9, <2>2
  <2>4. HeldAt(e) \in s .. e - 1
    BY <2>1, <2>3, HeldIs
  <2> QED BY <1>4, <1>9, <2>2, <2>4
<1> QED BY <1>4, <1>6, <1>7, <1>8, <1>9, <1>13, <1>14

(* The name of a declaration with a size and a value *)
LEMMA SizedStatements ==
  ASSUME text \in Seq(Token), NEW s, FormedAt(SizedForm, s)
  PROVE  /\ s \in Nat \ {0} /\ s \in 1 .. Len(text) /\ s + 4 \in 1 .. Len(text) /\ s + 7 \in 1 .. Len(text)
         /\ KindAt(s) = "type" /\ StatementStart(s) = s
         /\ KindAt(s + 4) = "identifier" /\ StatementStart(s + 4) = s /\ RoleAt(s + 4) = "declares"
         /\ KindAt(s + 7) = "semicolon" /\ StatementStart(s + 7) = s /\ RoleAt(s + 7) = "ends"
         /\ DeclarationName(s, s + 7) = s + 4 /\ HeldAt(s + 7) = s + 4
<1>1. /\ Len(SizedForm.kinds) = 8 /\ SizedForm.kinds[1] = "type" /\ SizedForm.kinds[2] = "leftBracket"
      /\ SizedForm.kinds[3] = "identifier" /\ SizedForm.kinds[4] = "rightBracket"
      /\ SizedForm.kinds[5] = "identifier" /\ SizedForm.kinds[6] = "assign"
      /\ SizedForm.kinds[7] = "identifier" /\ SizedForm.kinds[8] = "semicolon"
      /\ SizedForm.roles[5] = "declares" /\ SizedForm.roles[6] = "none" /\ SizedForm.roles[7] = "use"
      /\ SizedForm.roles[8] = "ends"
  BY RolesAre, ShapesAre
<1>2. ASSUME NEW k \in 0 .. 7
      PROVE  /\ s \in Nat \ {0} /\ s + k \in 1 .. Len(text) /\ StatementStart(s + k) = s
             /\ KindAt(s + k) = SizedForm.kinds[k + 1] /\ RoleAt(s + k) = SizedForm.roles[k + 1]
  <2>1. PICK m : m = k + 1
    OBVIOUS
  <2>2. m \in 1 .. Len(SizedForm.kinds) /\ k \in Nat
    BY <1>1, <2>1
  <2> QED BY <2>1, <2>2, FormTokens
<1>3. /\ 0 \in 0 .. 7 /\ 1 \in 0 .. 7 /\ 2 \in 0 .. 7 /\ 3 \in 0 .. 7 /\ 4 \in 0 .. 7 /\ 5 \in 0 .. 7
      /\ 6 \in 0 .. 7 /\ 7 \in 0 .. 7 /\ 0 + 1 = 1 /\ 1 + 1 = 2 /\ 2 + 1 = 3 /\ 3 + 1 = 4
      /\ 4 + 1 = 5 /\ 5 + 1 = 6 /\ 6 + 1 = 7 /\ 7 + 1 = 8
  OBVIOUS
<1>4. s \in Nat \ {0}
  BY <1>2, <1>3
<1>5. s + 0 = s
  BY <1>4
<1>6. s \in 1 .. Len(text) /\ KindAt(s) = "type" /\ StatementStart(s) = s
  BY <1>1, <1>2, <1>3, <1>5
<1>7. KindAt(s + 1) = "leftBracket" /\ KindAt(s + 2) = "identifier" /\ KindAt(s + 3) = "rightBracket"
  BY <1>1, <1>2, <1>3
<1>8. /\ s + 4 \in 1 .. Len(text) /\ KindAt(s + 4) = "identifier" /\ StatementStart(s + 4) = s
      /\ RoleAt(s + 4) = "declares"
  BY <1>1, <1>2, <1>3
<1>9. RoleAt(s + 5) = "none" /\ RoleAt(s + 6) = "use"
  BY <1>1, <1>2, <1>3
<1>10. s + 7 \in 1 .. Len(text) /\ KindAt(s + 7) = "semicolon" /\ StatementStart(s + 7) = s /\ RoleAt(s + 7) = "ends"
  BY <1>1, <1>2, <1>3
<1>11. PICK d, e : d = s + 4 /\ e = s + 7
  OBVIOUS
<1>12. /\ d \in Nat /\ e \in Nat /\ d \in s .. e /\ s <= d
       /\ \A k \in s .. d : k = s \/ k = s + 1 \/ k = s + 2 \/ k = s + 3 \/ k = d
       /\ \A k \in s .. d - 1 : k = s \/ k = s + 1 \/ k = s + 2 \/ k = s + 3
  BY <1>4, <1>11
<1>13. ASSUME NEW opener \in {"leftParen", "lessThan"}, NEW closer
       PROVE  Depth(s, d, opener, closer) = 0
  <2>1. \A k \in s .. d : KindAt(k) # opener
    BY <1>6, <1>7, <1>8, <1>11, <1>12
  <2> QED BY <1>4, <1>12, <2>1, FlatDepth
<1>14. /\ Depth(s, s + 2, "leftBracket", "rightBracket") # 0
       /\ Depth(s, d, "leftBracket", "rightBracket") = 0
  BY <1>4, <1>6, <1>7, <1>8, <1>11, SizeDepth
<1>15. \A k \in s .. d - 1 : KindAt(k) = "identifier" => Depth(s, k, "leftBracket", "rightBracket") # 0
  <2> SUFFICES ASSUME NEW k \in s .. d - 1, KindAt(k) = "identifier"
               PROVE  Depth(s, k, "leftBracket", "rightBracket") # 0
    OBVIOUS
  <2>1. k = s + 2
    BY <1>6, <1>7, <1>12
  <2> QED BY <1>14, <2>1
<1>16. DeclarationName(s, e) = d
  <2>1. KindAt(d) = "identifier"
    BY <1>8, <1>11
  <2> QED BY <1>6, <1>12, <1>13, <1>14, <1>15, <2>1, NamesAreFirst
<1>17. HeldAt(e) = d
  <2>1. e \in Nat \ {0} /\ StatementStart(e) = s /\ d \in s .. e - 1 /\ RoleAt(d) = "declares"
    BY <1>4, <1>8, <1>10, <1>11
  <2>2. HeldAt(e) \in Nat /\ d <= HeldAt(e)
    BY <2>1, HeldIs
  <2>3. HeldAt(e) # 0
    BY <1>4, <1>11, <2>2
  <2>4. HeldAt(e) \in s .. e - 1 /\ RoleAt(HeldAt(e)) = "declares"
    BY <2>1, <2>3, HeldIs
  <2>5. HeldAt(e) # s + 5 /\ HeldAt(e) # s + 6
    BY <1>9, <2>4
  <2> QED BY <1>4, <1>11, <2>2, <2>4, <2>5
<1> QED BY <1>4, <1>6, <1>8, <1>10, <1>11, <1>16, <1>17

(* A declaration is a plain one or one with a size and a value. *)
DeclarationForms == {PlainForm, SizedForm}

(* The tokens of a declaration, first and last *)
LEMMA DeclarationTokens ==
  ASSUME text \in Seq(Token), NEW form \in DeclarationForms, NEW s, FormedAt(form, s),
         NEW e, e = s + Len(form.kinds) - 1
  PROVE  /\ s \in Nat \ {0} /\ s \in 1 .. Len(text) /\ KindAt(s) = "type" /\ StatementStart(s) = s
         /\ e \in 1 .. Len(text) /\ KindAt(e) = "semicolon" /\ StatementStart(e) = s /\ RoleAt(e) = "ends"
         /\ HeldAt(e) \in s .. e - 1 /\ HeldAt(e) \in 1 .. Len(text) /\ KindAt(HeldAt(e)) = "identifier"
         /\ RoleAt(HeldAt(e)) = "declares" /\ StatementStart(HeldAt(e)) = s
         /\ DeclarationName(s, e) = HeldAt(e)
         /\ \A j \in s .. e : KindAt(j) # "tilde"
<1>1. CASE form = PlainForm
  <2>1. /\ Len(form.kinds) = 3 /\ PlainForm.kinds[1] = "type" /\ PlainForm.kinds[2] = "identifier"
        /\ PlainForm.kinds[3] = "semicolon"
    BY <1>1, RolesAre, ShapesAre
  <2>2. s \in Nat \ {0}
    BY <1>1, PlainStatements
  <2>3. e = s + 2
    BY <2>1, <2>2
  <2>4. /\ s \in 1 .. Len(text) /\ s + 1 \in 1 .. Len(text) /\ s + 2 \in 1 .. Len(text)
        /\ KindAt(s) = "type" /\ StatementStart(s) = s
        /\ KindAt(s + 1) = "identifier" /\ StatementStart(s + 1) = s /\ RoleAt(s + 1) = "declares"
        /\ KindAt(s + 2) = "semicolon" /\ StatementStart(s + 2) = s /\ RoleAt(s + 2) = "ends"
        /\ DeclarationName(s, s + 2) = s + 1 /\ HeldAt(s + 2) = s + 1
    BY <1>1, PlainStatements
  <2>5. \A j \in s .. e : j = s \/ j = s + 1 \/ j = s + 2
    BY <2>2, <2>3
  <2>6. \A j \in s .. e : KindAt(j) # "tilde"
    BY <2>4, <2>5
  <2>7. s + 1 \in s .. e - 1
    BY <2>2, <2>3
  <2> QED BY <2>2, <2>3, <2>4, <2>6, <2>7
<1>2. CASE form = SizedForm
  <2>1. Len(form.kinds) = 8
    BY <1>2, RolesAre, ShapesAre
  <2>2. s \in Nat \ {0}
    BY <1>2, SizedStatements
  <2>3. e = s + 7
    BY <2>1, <2>2
  <2>4. /\ s \in 1 .. Len(text) /\ s + 4 \in 1 .. Len(text) /\ s + 7 \in 1 .. Len(text)
        /\ KindAt(s) = "type" /\ StatementStart(s) = s
        /\ KindAt(s + 4) = "identifier" /\ StatementStart(s + 4) = s /\ RoleAt(s + 4) = "declares"
        /\ KindAt(s + 7) = "semicolon" /\ StatementStart(s + 7) = s /\ RoleAt(s + 7) = "ends"
        /\ DeclarationName(s, s + 7) = s + 4 /\ HeldAt(s + 7) = s + 4
    BY <1>2, SizedStatements
  <2>5. \A m \in 1 .. 8 : SizedForm.kinds[m] # "tilde"
    <3>1. \A m \in 1 .. 8 : m = 1 \/ m = 2 \/ m = 3 \/ m = 4 \/ m = 5 \/ m = 6 \/ m = 7 \/ m = 8
      OBVIOUS
    <3>2. /\ SizedForm.kinds[1] = "type" /\ SizedForm.kinds[2] = "leftBracket"
          /\ SizedForm.kinds[3] = "identifier" /\ SizedForm.kinds[4] = "rightBracket"
          /\ SizedForm.kinds[5] = "identifier" /\ SizedForm.kinds[6] = "assign"
          /\ SizedForm.kinds[7] = "identifier" /\ SizedForm.kinds[8] = "semicolon"
      BY RolesAre, ShapesAre
    <3> QED BY <3>1, <3>2
  <2>6. \A j \in s .. e : KindAt(j) # "tilde"
    <3> SUFFICES ASSUME NEW j \in s .. e PROVE KindAt(j) # "tilde"
      OBVIOUS
    <3>1. PICK m : m = j - s + 1
      OBVIOUS
    <3>2. m \in 1 .. 8 /\ s + m - 1 = j
      BY <2>2, <2>3, <3>1
    <3>3. KindAt(s + m - 1) = SizedForm.kinds[m]
      BY <1>2, <2>1, <3>2 DEF FormedAt
    <3> QED BY <2>5, <3>2, <3>3
  <2>7. s + 4 \in s .. e - 1
    BY <2>2, <2>3
  <2> QED BY <2>2, <2>3, <2>4, <2>6, <2>7
<1> QED BY <1>1, <1>2 DEF DeclarationForms

(* A declaration is written in a block, function or loop body. *)
LEMMA DeclarationsStand ==
  ASSUME NEW form \in DeclarationForms, NEW s, Stands(form, s)
  PROVE  OwnerAt(s) \notin {"program", "functions"}
<1>1. \/ form \in HeaderForms \/ form = FunctionForm \/ form = CloseForm
      \/ OwnerAt(s) \notin {"program", "functions"}
  BY DEF Stands, Granted
<1>2. form.kinds[Len(form.kinds)] = "semicolon"
  BY RolesAre, ShapesAre DEF DeclarationForms
<1>3. form \notin HeaderForms
  BY <1>2, HeaderFormsAre
<1>4. form # FunctionForm /\ form # CloseForm
  <2>1. FunctionForm.kinds[Len(FunctionForm.kinds)] = "leftBrace"
    BY RolesAre, ShapesAre
  <2>2. CloseForm.kinds[Len(CloseForm.kinds)] = "rightBrace"
    BY RolesAre
  <2> QED BY <1>2, <2>1, <2>2
<1> QED BY <1>1, <1>3, <1>4

(* What the author declares is a declaration of its name. *)
LEMMA EndsAreDeclarations ==
  ASSUME Whole, NEW e \in 1 .. Len(text), RoleAt(e) = "ends", NEW s, s = StatementStart(e),
         NEW h, h = HeldAt(e)
  PROVE  /\ h \in 1 .. Len(text) /\ KindAt(h) = "identifier" /\ RoleAt(h) = "declares"
         /\ StatementStart(h) = s /\ KindAt(s) = "type" /\ StatementStart(s) = s
         /\ s \in Nat \ {0} /\ s <= h /\ h < e
         /\ Span(s, e) \in VariableDeclarations /\ DeclaredName(Span(s, e)) = h
         /\ Quiet(h) /\ OwnerAt(h) \notin {"program", "functions"}
<1>0. /\ text \in Seq(Token) /\ Len(text) \in Nat /\ DOMAIN text = 1 .. Len(text) /\ Suited(text)
      /\ DelimiterTypeOK /\ PairsNest
  BY WholeTexts
<1>1. PICK form \in Forms : \E k \in 1 .. Len(form.kinds) : e = s + k - 1 /\ FormedAt(form, s)
  BY <1>0, StatementsAreForms
<1>2. PICK k \in 1 .. Len(form.kinds) : e = s + k - 1 /\ FormedAt(form, s)
  BY <1>1
<1>3. form.roles[k] = "ends"
  BY <1>2 DEF FormedAt
<1>4. form \in DeclarationForms /\ k = Len(form.kinds)
  BY <1>2, <1>3, TellingTokens DEF DeclarationForms
<1>5. e = s + Len(form.kinds) - 1
  BY <1>2, <1>4
<1>6. /\ s \in Nat \ {0} /\ s \in 1 .. Len(text) /\ KindAt(s) = "type" /\ StatementStart(s) = s
      /\ KindAt(e) = "semicolon" /\ h \in s .. e - 1 /\ h \in 1 .. Len(text)
      /\ KindAt(h) = "identifier" /\ RoleAt(h) = "declares" /\ StatementStart(h) = s
      /\ DeclarationName(s, e) = h /\ \A j \in s .. e : KindAt(j) # "tilde"
  BY <1>0, <1>2, <1>4, <1>5, DeclarationTokens
<1>7. e \in Nat /\ h \in Nat /\ s <= h /\ h < e /\ s \in s .. e - 1
  BY <1>0, <1>6
<1>8. Span(s, e) \in VariableDeclarations
  <2>1. \A j \in s .. e - 1 : j \in s .. e
    BY <1>6, <1>7
  <2>2. Of("tilde", s .. e - 1) = {}
    BY <1>6, <2>1 DEF Of
  <2>3. s \in Of("type", s .. e - 1) /\ e \in Of("semicolon", DOMAIN text)
    BY <1>0, <1>6, <1>7 DEF Of
  <2> QED BY <2>2, <2>3 DEF VariableDeclarations
<1>9. DeclaredName(Span(s, e)) = h
  <2>1. Span(s, e).start = s /\ Span(s, e).end = e + 1
    BY DEF Span
  <2>2. e + 1 - 1 = e
    BY <1>7
  <2> QED BY <1>6, <2>1, <2>2 DEF DeclaredName
<1>10. Quiet(h)
  <2> SUFFICES ASSUME NEW o \in 1 .. Len(text), KindAt(o) = "leftBrace", StatementStart(h) = StatementStart(o)
               PROVE  FALSE
    BY <1>6 DEF Quiet
  <2>1. KindAt(o) \in Boundaries /\ KindAt(e) \in Boundaries
    BY <1>6 DEF Boundaries
  <2>2. o = e
    BY <1>0, <1>6, <2>1, OneEnd
  <2> QED BY <1>6, <2>2
<1>11. OwnerAt(h) \notin {"program", "functions"}
  <2>1. OwnerAt(s) \notin {"program", "functions"}
    BY <1>2, <1>4, DeclarationsStand DEF FormedAt
  <2>2. h \in 1 .. Len(text) + 1 /\ s \in StatementStart(h) .. h
    BY <1>0, <1>6, <1>7
  <2>3. OwnerAt(s) = OwnerAt(h)
    BY <1>0, <2>2, SameBraces
  <2> QED BY <2>1, <2>3
<1> QED BY <1>6, <1>7, <1>8, <1>9, <1>10, <1>11

(* A declaration is what the author ends as one. *)
LEMMA DeclarationsAreEnds ==
  ASSUME Whole, NEW v \in VariableDeclarations
  PROVE  \E e \in 1 .. Len(text) : RoleAt(e) = "ends" /\ v = Span(StatementStart(e), e)
<1>0. /\ text \in Seq(Token) /\ Len(text) \in Nat /\ DOMAIN text = 1 .. Len(text) /\ Suited(text)
      /\ DelimiterTypeOK /\ PairsNest
  BY WholeTexts
<1>1. PICK e \in Of("semicolon", DOMAIN text) :
        v = Span(StatementStart(e), e) /\ Of("type", StatementStart(e) .. e - 1) # {}
  BY DEF VariableDeclarations
<1>2. e \in 1 .. Len(text) /\ KindAt(e) = "semicolon"
  BY <1>0, <1>1 DEF Of
<1>3. PICK s : s = StatementStart(e)
  OBVIOUS
<1>4. PICK t : t \in Of("type", s .. e - 1)
  BY <1>1, <1>3
<1>5. t \in s .. e - 1 /\ KindAt(t) = "type"
  BY <1>4 DEF Of
<1>6. PICK form \in Forms : \E k \in 1 .. Len(form.kinds) : e = s + k - 1 /\ FormedAt(form, s)
  BY <1>0, <1>2, <1>3, StatementsAreForms
<1>7. PICK k \in 1 .. Len(form.kinds) : e = s + k - 1 /\ FormedAt(form, s)
  BY <1>6
<1>8. s \in Nat \ {0} /\ Len(form.kinds) \in Nat
  <2>1. s \in 1 .. Len(text)
    BY <1>7 DEF FormedAt
  <2>2. \E o, c, d : WellFormed(form, o, c, d)
    BY FormsAre
  <2> QED BY <1>0, <2>1, <2>2 DEF WellFormed
<1>9. PICK n : n = Len(form.kinds)
  OBVIOUS
<1>10. PICK m : m = t - s + 1
  OBVIOUS
<1>11. m \in 1 .. n /\ s + m - 1 = t
  <2>1. n \in Nat /\ k \in 1 .. n
    BY <1>8, <1>9
  <2> QED BY <1>5, <1>7, <1>8, <1>10, <2>1
<1>12. form.kinds[m] = "type" /\ form.kinds[k] = "semicolon"
  BY <1>2, <1>5, <1>7, <1>9, <1>11 DEF FormedAt
<1>13. form \in DeclarationForms /\ k = Len(form.kinds)
  BY <1>9, <1>11, <1>12, TellingTokens DEF DeclarationForms
<1>14. RoleAt(e) = "ends"
  BY <1>0, <1>7, <1>13, DeclarationTokens
<1> QED BY <1>1, <1>2, <1>14

-----------------------------------------------------------------------------
(* What the typed views count is what is paired *)

(* Where every closer has its opener, the closer at which an opener's count   *)
(* comes out even is the one it is paired with.                               *)
LEMMA CountsComeOut ==
  ASSUME DelimiterTypeOK, PairsNest, ClosersArePaired, NEW o \in DOMAIN pairs, NEW c, c = pairs[o],
         NEW closer \in Closers, NEW opener, opener = MatchingOpen(closer), KindAt(o) = opener,
         NEW node, node.end - 1 \in Nat, c <= node.end - 1
  PROVE  MatchingPosition(node, o, opener, closer) = c
<1> DEFINE O(k) == Of(opener, o .. k)
           C(k) == Of(closer, o .. k)
           P(k) == {b \in O(c) : pairs[b] <= k}
           I == {k \in Of(closer, o .. node.end - 1) : Cardinality(Of(opener, o .. k)) = Cardinality(Of(closer, o .. k))}
<1>1. /\ text \in Seq(Token) /\ Len(text) \in Nat /\ DOMAIN text = 1 .. Len(text)
      /\ DOMAIN pairs \subseteq 1 .. Len(text) /\ pairs \in [DOMAIN pairs -> 1 .. Len(text)]
  BY DEF DelimiterTypeOK
<1>2. o \in Nat \ {0} /\ c \in Nat /\ c \in 1 .. Len(text) /\ o \in 1 .. Len(text)
  BY <1>1
<1>3. o < c
  BY <1>2 DEF PairsNest
<1>4. opener \in Openers /\ closer # opener /\ opener # "none" /\ closer # "none"
  BY DEF Openers, Closers, MatchingOpen
<1>5. \A m \in Closers : MatchingOpen(m) = opener => m = closer
  BY DEF Closers, MatchingOpen
<1>6. \A b \in 1 .. Len(text) : KindAt(b) = text[b].kind
  BY <1>1 DEF KindAt
<1>7. KindAt(c) = closer
  <2>1. text[c].kind \in Closers /\ MatchingOpen(text[c].kind) = text[o].kind
    BY DEF PairsNest
  <2> QED BY <1>2, <1>5, <1>6, <2>1
<1>8. ASSUME NEW b \in DOMAIN pairs, KindAt(b) = opener
      PROVE  b \in Nat /\ b < pairs[b] /\ pairs[b] \in 1 .. Len(text) /\ pairs[b] \in Nat /\ KindAt(pairs[b]) = closer
  <2>1. b \in 1 .. Len(text) /\ pairs[b] \in 1 .. Len(text)
    BY <1>1
  <2>2. /\ b < pairs[b] /\ text[pairs[b]].kind \in Closers
        /\ MatchingOpen(text[pairs[b]].kind) = text[b].kind
    BY DEF PairsNest
  <2>3. KindAt(pairs[b]) = closer
    BY <1>5, <1>6, <1>8, <2>1, <2>2
  <2> QED BY <1>1, <2>1, <2>2, <2>3
<1>9. ASSUME NEW b \in o .. c, KindAt(b) = opener
      PROVE  b \in DOMAIN pairs /\ pairs[b] <= c /\ o <= pairs[b] /\ (b # o => pairs[b] < c)
  <2>1. b \in 1 .. Len(text) /\ b # c
    BY <1>2, <1>4, <1>7, <1>9
  <2>2. CASE b = o
    BY <1>2, <1>3, <2>2
  <2>3. CASE b # o
    <3>1. b \in o + 1 .. c - 1
      BY <1>2, <2>1, <2>3
    <3>2. text[b].kind \in Openers
      BY <1>4, <1>6, <1>9, <2>1
    <3>3. b \in DOMAIN pairs /\ pairs[b] < c
      BY <3>1, <3>2 DEF PairsNest
    <3>4. b < pairs[b] /\ pairs[b] \in Nat
      BY <1>8, <1>9, <3>3
    <3> QED BY <1>2, <3>1, <3>3, <3>4
  <2> QED BY <2>2, <2>3
<1>10. ASSUME NEW j \in o .. c, KindAt(j) = closer
       PROVE  \E b \in o .. c : b \in DOMAIN pairs /\ pairs[b] = j /\ KindAt(b) = opener
  <2>1. j \in 1 .. Len(text)
    BY <1>2
  <2>2. PICK b \in DOMAIN pairs : pairs[b] = j
    BY <1>10, <2>1 DEF ClosersArePaired
  <2>3. b \in 1 .. Len(text) /\ b < j /\ text[b].kind = MatchingOpen(text[j].kind)
    BY <1>1, <2>2 DEF PairsNest
  <2>4. KindAt(b) = opener
    BY <1>6, <1>10, <2>1, <2>3
  <2>5. ~ (b < o)
    <3> SUFFICES ASSUME b < o PROVE FALSE
      OBVIOUS
    <3>1. j # o
      BY <1>4, <1>10
    <3>2. o \in b + 1 .. pairs[b] - 1
      BY <1>2, <2>2, <2>3, <3>1
    <3>3. text[o].kind \in Openers
      BY <1>2, <1>4, <1>6
    <3>4. pairs[o] < pairs[b]
      BY <3>2, <3>3 DEF PairsNest
    <3> QED BY <1>2, <2>2, <3>4
  <2>6. b \in o .. c
    BY <1>2, <2>3, <2>5
  <2> QED BY <2>2, <2>4, <2>6
<1>11. \A b, d \in DOMAIN pairs : KindAt(b) = opener /\ KindAt(d) = opener /\ pairs[b] = pairs[d] => ~ (b < d)
  <2> SUFFICES ASSUME NEW b \in DOMAIN pairs, NEW d \in DOMAIN pairs, KindAt(b) = opener,
                      KindAt(d) = opener, pairs[b] = pairs[d], b < d
               PROVE  FALSE
    OBVIOUS
  <2>1. b \in Nat /\ d \in Nat /\ d < pairs[b] /\ pairs[b] \in Nat /\ d \in 1 .. Len(text)
    BY <1>1, <1>8
  <2>2. d \in b + 1 .. pairs[b] - 1 /\ text[d].kind \in Openers
    BY <1>4, <1>6, <2>1
  <2>3. pairs[d] < pairs[b]
    BY <2>2 DEF PairsNest
  <2> QED BY <2>1, <2>3
<1>12. ASSUME NEW k \in o .. c
       PROVE  /\ IsFiniteSet(O(k)) /\ P(k) \in SUBSET O(k) /\ Cardinality(P(k)) = Cardinality(C(k))
              /\ k # c => o \in O(k) /\ o \notin P(k)
              /\ k = c => P(k) = O(k)
              /\ Cardinality(O(k)) \in Nat
  <2>1. k \in Nat
    BY <1>2
  <2>2. \A b \in O(k) : b \in Nat /\ b <= k /\ o <= b /\ KindAt(b) = opener /\ b \in o .. c
    BY <1>2, <2>1 DEF Of
  <2>3. O(k) \in SUBSET Nat
    BY <2>2
  <2>4. IsFiniteSet(O(k))
    BY <2>1, <2>2, <2>3, FS_BoundedSetOfNaturals
  <2>5. \A b \in O(c) : b \in o .. c /\ KindAt(b) = opener
    BY DEF Of
  <2>6. P(k) \in SUBSET O(k)
    <3> SUFFICES ASSUME NEW b \in P(k) PROVE b \in O(k)
      OBVIOUS
    <3>1. b \in o .. c /\ KindAt(b) = opener /\ pairs[b] <= k
      BY <2>5
    <3>2. b \in Nat /\ b < pairs[b] /\ pairs[b] \in Nat
      BY <1>8, <1>9, <3>1
    <3>3. b \in o .. k
      BY <1>2, <2>1, <3>1, <3>2
    <3> QED BY <3>1, <3>3 DEF Of
  <2>7. k # c => o \in O(k) /\ o \notin P(k)
    <3> SUFFICES ASSUME k # c PROVE o \in O(k) /\ o \notin P(k)
      OBVIOUS
    <3>1. o \in o .. k /\ ~ (c <= k)
      BY <1>2, <2>1
    <3> QED BY <3>1 DEF Of
  <2>8. k = c => P(k) = O(k)
    BY <1>9, <2>5
  <2> DEFINE f == [b \in P(k) |-> pairs[b]]
  <2>9. \A b \in P(k) : b \in o .. c /\ KindAt(b) = opener /\ pairs[b] <= k
    BY <2>5
  <2>10. \A b \in P(k) : pairs[b] \in C(k)
    <3> SUFFICES ASSUME NEW b \in P(k) PROVE pairs[b] \in C(k)
      OBVIOUS
    <3>1. b \in o .. c /\ KindAt(b) = opener /\ pairs[b] <= k
      BY <2>9
    <3>2. o <= pairs[b] /\ pairs[b] \in Nat /\ KindAt(pairs[b]) = closer
      BY <1>8, <1>9, <3>1
    <3>3. pairs[b] \in o .. k
      BY <1>2, <2>1, <3>1, <3>2
    <3> QED BY <3>2, <3>3 DEF Of
  <2>11. \A j \in C(k) : \E b \in P(k) : pairs[b] = j
    <3> SUFFICES ASSUME NEW j \in C(k) PROVE \E b \in P(k) : pairs[b] = j
      OBVIOUS
    <3>1. j \in o .. c /\ j <= k /\ KindAt(j) = closer
      BY <1>2, <2>1 DEF Of
    <3>2. PICK b \in o .. c : b \in DOMAIN pairs /\ pairs[b] = j /\ KindAt(b) = opener
      BY <1>10, <3>1
    <3>3. b \in O(c)
      BY <3>2 DEF Of
    <3> QED BY <3>1, <3>2, <3>3
  <2>12. \A b, d \in P(k) : pairs[b] = pairs[d] => b = d
    <3> SUFFICES ASSUME NEW b \in P(k), NEW d \in P(k), pairs[b] = pairs[d] PROVE b = d
      OBVIOUS
    <3>1. b \in o .. c /\ d \in o .. c /\ KindAt(b) = opener /\ KindAt(d) = opener
      BY <2>9
    <3>2. b \in DOMAIN pairs /\ d \in DOMAIN pairs
      BY <1>9, <3>1
    <3>3. ~ (b < d) /\ ~ (d < b)
      BY <1>11, <3>1, <3>2
    <3> QED BY <1>2, <3>1, <3>3
  <2>13. IsFiniteSet(P(k))
    BY <2>4, <2>6, FS_Subset
  <2> DEFINE Pk == P(k)
             Ck == C(k)
  <2>14. f \in [Pk -> Ck] /\ \A b \in Pk : f[b] = pairs[b]
    <3> HIDE DEF P, C
    <3> QED BY <2>10
  <2> HIDE DEF f
  <2>15. f \in Surjection(Pk, Ck) /\ f \in Injection(Pk, Ck)
    <3>1. \A j \in Ck : \E b \in Pk : f[b] = j
      <4> HIDE DEF P, C
      <4> QED BY <2>11, <2>14
    <3>2. \A b, d \in Pk : f[b] = f[d] => b = d
      <4> HIDE DEF P, C
      <4> QED BY <2>12, <2>14
    <3> HIDE DEF Pk, Ck
    <3> QED BY <2>14, <3>1, <3>2 DEF Surjection, Injection, IsInjective
  <2>16. Cardinality(Ck) = Cardinality(Pk)
    <3>1. IsFiniteSet(Pk)
      BY <2>13
    <3> HIDE DEF Pk, Ck
    <3> QED BY <2>15, <3>1, FS_Surjection
  <2>17. Cardinality(O(k)) \in Nat
    BY <2>4, FS_CardinalityType
  <2> QED BY <2>4, <2>6, <2>7, <2>8, <2>16, <2>17
<1> HIDE DEF P
<1>13. ASSUME NEW k \in o .. c, k # c PROVE Cardinality(O(k)) # Cardinality(C(k))
  <2>1. IsFiniteSet(O(k)) /\ P(k) \in SUBSET O(k) /\ P(k) # O(k) /\ Cardinality(P(k)) = Cardinality(C(k))
    BY <1>12, <1>13
  <2> HIDE DEF O, C
  <2> QED BY <2>1, FS_Subset
<1>14. c \in o .. c /\ Cardinality(O(c)) = Cardinality(C(c))
  <2>1. c \in o .. c
    BY <1>2, <1>3
  <2> HIDE DEF O, C
  <2> QED BY <1>12, <2>1
<1>15. c \in I /\ I \in SUBSET (Nat \ {0})
  <2>1. c \in o .. node.end - 1
    BY <1>2, <1>3
  <2>2. \A k \in o .. node.end - 1 : k \in Nat \ {0}
    BY <1>2
  <2> QED BY <1>7, <1>14, <2>1, <2>2 DEF Of
<1>16. \A k \in I : k <= c => k = c
  <2> SUFFICES ASSUME NEW k \in I, k <= c, k # c PROVE FALSE
    OBVIOUS
  <2>1. k \in o .. node.end - 1 /\ Cardinality(O(k)) = Cardinality(C(k))
    BY DEF Of
  <2>2. k \in o .. c
    BY <1>2, <2>1
  <2> QED BY <1>13, <2>1, <2>2
<1>17. MatchingPosition(node, o, opener, closer) = First(I)
  BY DEF MatchingPosition
<1> HIDE DEF I
<1>18. First(I) = c
  <2>1. First(I) # 0
    BY <1>15, FirstIsLeast
  <2>2. First(I) \in I /\ First(I) <= c
    BY <1>15, <2>1, FirstIsLeast
  <2> QED BY <1>16, <2>2
<1> QED BY <1>17, <1>18

(* The head of a function or loop is closed, and its body is the block behind. *)
LEMMA BodiesAre ==
  ASSUME Whole, NEW form \in {FunctionForm, LoopForm}, NEW s, FormedAt(form, s),
         NEW r, r = Span(s, EndOf(s + 6))
  PROVE  BodyRange(r) = Span(s + 6, EndOf(s + 6)) /\ BodyRange(r) # NoRange
<1>0. /\ text \in Seq(Token) /\ Len(text) \in Nat /\ DOMAIN text = 1 .. Len(text) /\ DelimiterTypeOK /\ PairsNest
      /\ ClosersArePaired
  BY WholeTexts DEF Whole
<1>1. Len(form.kinds) = 7 /\ form.kinds[7] = "leftBrace" /\ \A k \in 1 .. 6 : form.kinds[k] # "leftBrace"
  <2>1. \A k \in 1 .. 6 : k = 1 \/ k = 2 \/ k = 3 \/ k = 4 \/ k = 5 \/ k = 6
    OBVIOUS
  <2>2. CASE form = FunctionForm
    BY <2>1, <2>2, RolesAre, ShapesAre
  <2>3. CASE form = LoopForm
    BY <2>1, <2>3, RolesAre, ShapesAre
  <2> QED BY <2>2, <2>3
<1>2. s \in Nat \ {0} /\ s \in 1 .. Len(text)
  BY <1>0 DEF FormedAt
<1>3. PICK o : o = s + 6
  OBVIOUS
<1>4. KindAt(o) = "leftBrace" /\ o \in Nat /\ s <= o
  <2>1. 7 \in 1 .. 7 /\ s + 7 - 1 = s + 6
    BY <1>2
  <2>2. KindAt(s + 7 - 1) = form.kinds[7]
    BY <1>1, <2>1 DEF FormedAt
  <2> QED BY <1>1, <1>2, <1>3, <2>1, <2>2
<1>5. ASSUME NEW j \in s .. o, j # o PROVE KindAt(j) # "leftBrace"
  <2>1. PICK m : m = j - s + 1
    OBVIOUS
  <2>2. m \in 1 .. 7 /\ m \in 1 .. 6 /\ s + m - 1 = j
    BY <1>2, <1>3, <1>5, <2>1
  <2>3. KindAt(s + m - 1) = form.kinds[m]
    BY <1>1, <2>2 DEF FormedAt
  <2> QED BY <1>1, <2>2, <2>3
<1>6. PICK c : c = EndOf(o)
  OBVIOUS
<1>7. o \in DOMAIN pairs /\ c = pairs[o] /\ o < c /\ c \in Nat
  <2>1. o \in DOMAIN pairs /\ o < pairs[o] /\ pairs[o] \in 1 .. Len(text) /\ EndOf(o) = pairs[o]
    BY <1>4, BracesAreClosed
  <2> QED BY <1>0, <1>6, <2>1
<1>8. r.start = s /\ r.end = c + 1 /\ r.end - 1 = c
  <2>1. r.start = s /\ r.end = c + 1
    BY <1>3, <1>6 DEF Span
  <2> QED BY <1>7, <2>1
<1> DEFINE B == Of("leftBrace", TokensOf(r))
<1>9. o \in B /\ B \in SUBSET (Nat \ {0}) /\ \A j \in B : ~ (j < o)
  <2>1. o \in s .. c
    BY <1>2, <1>4, <1>7
  <2>2. \A j \in s .. c : j \in Nat \ {0} /\ (j < o => j \in s .. o /\ j # o)
    BY <1>2, <1>4, <1>7
  <2>3. TokensOf(r) = s .. c
    BY <1>8 DEF TokensOf
  <2> QED BY <1>4, <1>5, <2>1, <2>2, <2>3 DEF Of
<1> HIDE DEF B
<1>10. First(B) = o
  <2>1. First(B) # 0
    BY <1>9, FirstIsLeast
  <2>2. First(B) \in B /\ First(B) <= o
    BY <1>9, <2>1, FirstIsLeast
  <2>3. First(B) \in Nat /\ ~ (First(B) < o)
    BY <1>9, <2>2
  <2> QED BY <1>4, <2>2, <2>3
<1>11. MatchingPosition(r, o, "leftBrace", "rightBrace") = c
  <2>1. "rightBrace" \in Closers /\ MatchingOpen("rightBrace") = "leftBrace"
    BY DEF Closers, MatchingOpen
  <2>2. r.end - 1 \in Nat /\ c <= r.end - 1
    BY <1>7, <1>8
  <2> QED BY <1>0, <1>4, <1>7, <2>1, <2>2, CountsComeOut
<1>12. o # 0 /\ c # 0
  BY <1>2, <1>3, <1>7
<1>13. BodyRange(r) = Span(o, c)
  BY <1>10, <1>11, <1>12 DEF BodyRange, B
<1>14. Span(o, c) # NoRange
  <2>1. Span(o, c).start = o /\ NoRange.start = 0
    BY DEF Span, NoRange
  <2> QED BY <1>12, <2>1
<1> QED BY <1>3, <1>6, <1>13, <1>14

(* The tokens of a function's head *)
LEMMA FunctionHeads ==
  ASSUME text \in Seq(Token), NEW s, FormedAt(FunctionForm, s)
  PROVE  /\ s \in Nat \ {0}
         /\ KindAt(s) = "type" /\ KindAt(s + 1) = "identifier" /\ KindAt(s + 2) = "leftParen"
         /\ KindAt(s + 3) = "type" /\ KindAt(s + 4) = "identifier" /\ KindAt(s + 5) = "rightParen"
         /\ KindAt(s + 6) = "leftBrace"
         /\ RoleAt(s + 1) = "names" /\ RoleAt(s + 4) = "declares" /\ RoleAt(s + 6) = "function"
         /\ \A k \in 0 .. 6 : s + k \in 1 .. Len(text) /\ StatementStart(s + k) = s
<1>1. /\ Len(FunctionForm.kinds) = 7 /\ FunctionForm.kinds[1] = "type" /\ FunctionForm.kinds[2] = "identifier"
      /\ FunctionForm.kinds[3] = "leftParen" /\ FunctionForm.kinds[4] = "type" /\ FunctionForm.kinds[5] = "identifier"
      /\ FunctionForm.kinds[6] = "rightParen" /\ FunctionForm.kinds[7] = "leftBrace"
      /\ FunctionForm.roles[2] = "names" /\ FunctionForm.roles[5] = "declares" /\ FunctionForm.roles[7] = "function"
  BY RolesAre, ShapesAre
<1>2. ASSUME NEW k \in 0 .. 6
      PROVE  /\ s \in Nat \ {0} /\ s + k \in 1 .. Len(text) /\ StatementStart(s + k) = s
             /\ KindAt(s + k) = FunctionForm.kinds[k + 1] /\ RoleAt(s + k) = FunctionForm.roles[k + 1]
  <2>1. PICK m : m = k + 1
    OBVIOUS
  <2>2. m \in 1 .. Len(FunctionForm.kinds) /\ k \in Nat
    BY <1>1, <2>1
  <2> QED BY <2>1, <2>2, FormTokens
<1>3. /\ 0 \in 0 .. 6 /\ 1 \in 0 .. 6 /\ 2 \in 0 .. 6 /\ 3 \in 0 .. 6 /\ 4 \in 0 .. 6 /\ 5 \in 0 .. 6
      /\ 6 \in 0 .. 6 /\ 0 + 1 = 1 /\ 1 + 1 = 2 /\ 2 + 1 = 3 /\ 3 + 1 = 4 /\ 4 + 1 = 5 /\ 5 + 1 = 6 /\ 6 + 1 = 7
  OBVIOUS
<1>4. s \in Nat \ {0}
  BY <1>2, <1>3
<1>5. s + 0 = s
  BY <1>4
<1>6. KindAt(s) = "type"
  BY <1>1, <1>2, <1>3, <1>5
<1>7. KindAt(s + 1) = "identifier" /\ RoleAt(s + 1) = "names" /\ KindAt(s + 2) = "leftParen"
  BY <1>1, <1>2, <1>3
<1>8. KindAt(s + 3) = "type" /\ KindAt(s + 4) = "identifier" /\ RoleAt(s + 4) = "declares"
  BY <1>1, <1>2, <1>3
<1>9. KindAt(s + 5) = "rightParen" /\ KindAt(s + 6) = "leftBrace" /\ RoleAt(s + 6) = "function"
  BY <1>1, <1>2, <1>3
<1> QED BY <1>2, <1>4, <1>6, <1>7, <1>8, <1>9

(* The tokens of a loop's head *)
LEMMA LoopHeads ==
  ASSUME text \in Seq(Token), NEW s, FormedAt(LoopForm, s)
  PROVE  /\ s \in Nat \ {0}
         /\ KindAt(s) = "for" /\ KindAt(s + 1) = "leftParen" /\ KindAt(s + 2) = "identifier"
         /\ KindAt(s + 3) = "in" /\ KindAt(s + 4) = "identifier" /\ KindAt(s + 5) = "rightParen"
         /\ KindAt(s + 6) = "leftBrace"
         /\ RoleAt(s + 2) = "declares" /\ RoleAt(s + 4) = "use" /\ RoleAt(s + 6) = "loop"
         /\ \A k \in 0 .. 6 : s + k \in 1 .. Len(text) /\ StatementStart(s + k) = s
<1>1. /\ Len(LoopForm.kinds) = 7 /\ LoopForm.kinds[1] = "for" /\ LoopForm.kinds[2] = "leftParen"
      /\ LoopForm.kinds[3] = "identifier" /\ LoopForm.kinds[4] = "in" /\ LoopForm.kinds[5] = "identifier"
      /\ LoopForm.kinds[6] = "rightParen" /\ LoopForm.kinds[7] = "leftBrace"
      /\ LoopForm.roles[3] = "declares" /\ LoopForm.roles[5] = "use" /\ LoopForm.roles[7] = "loop"
  BY RolesAre, ShapesAre
<1>2. ASSUME NEW k \in 0 .. 6
      PROVE  /\ s \in Nat \ {0} /\ s + k \in 1 .. Len(text) /\ StatementStart(s + k) = s
             /\ KindAt(s + k) = LoopForm.kinds[k + 1] /\ RoleAt(s + k) = LoopForm.roles[k + 1]
  <2>1. PICK m : m = k + 1
    OBVIOUS
  <2>2. m \in 1 .. Len(LoopForm.kinds) /\ k \in Nat
    BY <1>1, <2>1
  <2> QED BY <2>1, <2>2, FormTokens
<1>3. /\ 0 \in 0 .. 6 /\ 1 \in 0 .. 6 /\ 2 \in 0 .. 6 /\ 3 \in 0 .. 6 /\ 4 \in 0 .. 6 /\ 5 \in 0 .. 6
      /\ 6 \in 0 .. 6 /\ 0 + 1 = 1 /\ 1 + 1 = 2 /\ 2 + 1 = 3 /\ 3 + 1 = 4 /\ 4 + 1 = 5 /\ 5 + 1 = 6 /\ 6 + 1 = 7
  OBVIOUS
<1>4. s \in Nat \ {0}
  BY <1>2, <1>3
<1>5. s + 0 = s
  BY <1>4
<1>6. KindAt(s) = "for"
  BY <1>1, <1>2, <1>3, <1>5
<1>7. KindAt(s + 1) = "leftParen" /\ KindAt(s + 2) = "identifier" /\ RoleAt(s + 2) = "declares"
  BY <1>1, <1>2, <1>3
<1>8. KindAt(s + 3) = "in" /\ KindAt(s + 4) = "identifier" /\ RoleAt(s + 4) = "use"
  BY <1>1, <1>2, <1>3
<1>9. KindAt(s + 5) = "rightParen" /\ KindAt(s + 6) = "leftBrace" /\ RoleAt(s + 6) = "loop"
  BY <1>1, <1>2, <1>3
<1> QED BY <1>2, <1>4, <1>6, <1>7, <1>8, <1>9

(* What has one element comes out in order as that element. *)
LEMMA OneInOrder ==
  ASSUME NEW b \in Nat, NEW x \in 1 .. b
  PROVE  InOrder({x}, <) = <<x>>
<1>1. Cardinality({x}) = 1
  BY FS_Singleton
<1>2. {x} \in SUBSET (1 .. b)
  OBVIOUS
<1>3. InOrder({x}, <) \in [1 .. Cardinality({x}) -> {x}]
  BY <1>2, PositionsAreSorted
<1> DEFINE f == InOrder({x}, <)
<1> HIDE DEF f
<1>4. f \in [1 .. 1 -> {x}]
  BY <1>1, <1>3 DEF f
<1>5. f = <<x>>
  BY <1>4
<1> QED BY <1>5 DEF f

(* A function has one parameter. *)
LEMMA ParametersAre ==
  ASSUME Whole, NEW f \in FunctionDeclarations, NEW s, s = f.start
  PROVE  ParameterNames(f) = {s + 4} /\ FunctionName(f) = s + 1
<1>0. /\ text \in Seq(Token) /\ Len(text) \in Nat /\ DOMAIN text = 1 .. Len(text) /\ DelimiterTypeOK /\ PairsNest
      /\ ClosersArePaired /\ Laid(text) /\ DelimiterInv
  BY WholeTexts DEF Whole
<1>1. FormedAt(FunctionForm, s) /\ f = Span(s, EndOf(s + 6))
  BY DeclaredFunctionsAreForms
<1>2. /\ s \in Nat \ {0}
      /\ KindAt(s + 2) = "leftParen" /\ KindAt(s + 3) = "type" /\ KindAt(s + 4) = "identifier"
      /\ KindAt(s + 5) = "rightParen" /\ KindAt(s + 6) = "leftBrace"
      /\ \A k \in 0 .. 6 : s + k \in 1 .. Len(text) /\ StatementStart(s + k) = s
  BY <1>0, <1>1, FunctionHeads
<1>3. FunctionName(f) = s + 1
  BY <1>0, FunctionNamesAreLaid
<1>4. PICK o, c, a, d : o = s + 2 /\ c = s + 5 /\ a = s + 3 /\ d = s + 4
  OBVIOUS
<1>5. /\ o \in Nat /\ c \in Nat /\ a \in Nat /\ d \in Nat /\ a = o + 1 /\ d = o + 2 /\ d = a + 1 /\ c = o + 3
      /\ s + 1 + 1 = o /\ o \in 1 .. Len(text) /\ c \in 1 .. Len(text) /\ a \in 1 .. Len(text)
      /\ c - 1 = d /\ o < c /\ c # 0 /\ d # 0
  <2>1. 2 \in 0 .. 6 /\ 3 \in 0 .. 6 /\ 5 \in 0 .. 6
    OBVIOUS
  <2>2. s + 2 \in 1 .. Len(text) /\ s + 3 \in 1 .. Len(text) /\ s + 5 \in 1 .. Len(text)
    BY <1>2, <2>1
  <2>3. o \in 1 .. Len(text) /\ a \in 1 .. Len(text) /\ c \in 1 .. Len(text)
    BY <1>4, <2>2
  <2>4. s \in Nat \ {0}
    BY <1>2
  <2>5. /\ o \in Nat /\ c \in Nat /\ a \in Nat /\ d \in Nat /\ a = o + 1 /\ d = o + 2 /\ d = a + 1
        /\ c = o + 3 /\ s + 1 + 1 = o /\ c - 1 = d /\ o < c /\ c # 0 /\ d # 0
    BY <1>4, <2>4
  <2> QED BY <2>3, <2>5
<1>6. KindAt(o) = "leftParen" /\ KindAt(a) = "type" /\ KindAt(d) = "identifier" /\ KindAt(c) = "rightParen"
  BY <1>2, <1>4
<1>7. o \in DOMAIN pairs /\ pairs[o] = c
  <2>1. ASSUME NEW j \in o + 1 .. c - 1 PROVE KindAt(j) \notin Openers \cup Closers
    <3>1. j = a \/ j = d
      BY <1>5
    <3> QED BY <1>6, <3>1 DEF Openers, Closers
  <2>2. c \in o + 1 .. Len(text)
    BY <1>0, <1>5
  <2> QED BY <1>0, <1>5, <1>6, <2>1, <2>2, BracketsPair
<1>8. f.end - 1 \in Nat /\ c <= f.end - 1
  <2>1. PICK e : e = EndOf(s + 6)
    OBVIOUS
  <2>2. /\ s + 6 < e /\ e \in 1 .. Len(text)
    BY <1>2, <2>1, BracesAreClosed
  <2>3. f.end = e + 1
    BY <1>1, <2>1 DEF Span
  <2>4. s \in Nat /\ e \in Nat
    BY <1>0, <1>2, <2>2
  <2>5. f.end - 1 = e /\ s + 5 <= e
    BY <2>2, <2>3, <2>4
  <2> QED BY <1>4, <2>4, <2>5
<1>9. MatchingPosition(f, o, "leftParen", "rightParen") = c
  <2>1. "rightParen" \in Closers /\ MatchingOpen("rightParen") = "leftParen"
    BY DEF Closers, MatchingOpen
  <2> QED BY <1>0, <1>6, <1>7, <1>8, <2>1, CountsComeOut
<1>10. Of("comma", o + 1 .. c - 1) = {}
  <2>1. \A j \in o + 1 .. c - 1 : j = a \/ j = d
    BY <1>5
  <2> QED BY <1>6, <2>1 DEF Of
<1>11. DeclarationName(a, d) = d
  <2>1. \A k \in a .. d : k = a \/ k = d
    BY <1>5
  <2>2. \A k \in a .. d - 1 : k = a
    BY <1>5
  <2>3. ASSUME NEW opener \in {"leftParen", "leftBracket", "lessThan"}, NEW closer
        PROVE  Depth(a, d, opener, closer) = 0
    <3>1. \A k \in a .. d : KindAt(k) # opener
      BY <1>6, <2>1
    <3>2. a \in Nat \ {0} /\ a <= d
      BY <1>5
    <3> QED BY <1>5, <3>1, <3>2, FlatDepth
  <2>4. d \in a .. d /\ \A k \in a .. d - 1 : KindAt(k) # "identifier"
    BY <1>5, <1>6, <2>2
  <2> QED BY <1>0, <1>5, <1>6, <2>3, <2>4, NamesAreFirst
<1> DEFINE close == MatchingPosition(f, FunctionName(f) + 1, "leftParen", "rightParen")
           commas == {k \in Of("comma", FunctionName(f) + 1 + 1 .. close - 1) :
                        /\ Depth(FunctionName(f) + 1 + 1, k, "leftParen", "rightParen") = 0
                        /\ Depth(FunctionName(f) + 1 + 1, k, "leftBracket", "rightBracket") = 0}
           Behind(k) == Min({close} \cup {m \in commas : m > k})
<1>12. FunctionName(f) + 1 = o /\ close = c
  BY <1>3, <1>5, <1>9
<1>13. commas = {}
  BY <1>10, <1>12
<1>14. ParameterNames(f) = IF close = 0 THEN {}
                           ELSE {DeclarationName(k + 1, Behind(k) - 1) : k \in {FunctionName(f) + 1} \cup commas} \ {0}
  BY DEF ParameterNames
<1> HIDE DEF commas
<1>15. Behind(o) = c
  <2>1. {close} \cup {m \in commas : m > o} = {c}
    BY <1>12, <1>13
  <2>2. {c} \in SUBSET Nat /\ {c} # {}
    BY <1>5
  <2>3. Min({c}) \in {c}
    BY <2>2, MinIsLeast
  <2> QED BY <2>1, <2>3
<1> HIDE DEF Behind, close
<1>16. ParameterNames(f) = {DeclarationName(o + 1, c - 1)} \ {0}
  BY <1>5, <1>12, <1>13, <1>14, <1>15
<1>17. ParameterNames(f) = {d}
  BY <1>5, <1>11, <1>16
<1> QED BY <1>3, <1>4, <1>17

(* A loop binds the name in front of "in". *)
LEMMA BindersAre ==
  ASSUME Whole, NEW l \in ForStatements, NEW s, s = l.start
  PROVE  Binder(l) = s + 2
<1>0. /\ text \in Seq(Token) /\ Len(text) \in Nat
  BY WholeTexts
<1>1. FormedAt(LoopForm, s) /\ l = Span(s, EndOf(s + 6))
  BY LoopsAreForms
<1>2. /\ s \in Nat \ {0}
      /\ KindAt(s) = "for" /\ KindAt(s + 1) = "leftParen" /\ KindAt(s + 2) = "identifier"
      /\ KindAt(s + 3) = "in" /\ KindAt(s + 6) = "leftBrace"
  BY <1>0, <1>1, LoopHeads
<1>3. PICK n, d : n = s + 3 /\ d = s + 2
  OBVIOUS
<1>4. /\ n \in Nat /\ d \in Nat /\ n # 0 /\ d \in s .. n - 1 /\ d # 0
      /\ \A j \in s .. n - 1 : j = s \/ j = s + 1 \/ j = d
  BY <1>2, <1>3
<1>5. n \in s .. l.end - 1 /\ l.end - 1 \in Nat
  <2>1. PICK e : e = EndOf(s + 6)
    OBVIOUS
  <2>2. /\ s + 6 < e /\ e \in 1 .. Len(text)
    BY <1>2, <2>1, BracesAreClosed
  <2>3. l.end = e + 1
    BY <1>1, <2>1 DEF Span
  <2> QED BY <1>0, <1>2, <1>3, <2>2, <2>3
<1> DEFINE I == Of("in", TokensOf(l))
<1>6. n \in I /\ I \in SUBSET (Nat \ {0}) /\ \A j \in I : ~ (j < n)
  <2>1. \A j \in s .. l.end - 1 : j \in Nat \ {0} /\ (j < n => j \in s .. n - 1)
    BY <1>2, <1>4, <1>5
  <2>2. KindAt(n) = "in" /\ KindAt(d) = "identifier"
    BY <1>2, <1>3
  <2>3. \A j \in s .. n - 1 : KindAt(j) # "in"
    BY <1>2, <1>4, <2>2
  <2> QED BY <1>5, <2>1, <2>2, <2>3 DEF Of, TokensOf
<1> HIDE DEF I
<1>7. First(I) = n
  <2>1. First(I) # 0
    BY <1>6, FirstIsLeast
  <2>2. First(I) \in I /\ First(I) <= n
    BY <1>6, <2>1, FirstIsLeast
  <2>3. First(I) \in Nat /\ ~ (First(I) < n)
    BY <1>6, <2>2
  <2> QED BY <1>4, <2>2, <2>3
<1>8. Of("identifier", s .. n - 1) = {d}
  <2>1. KindAt(d) = "identifier"
    BY <1>2, <1>3
  <2> QED BY <1>2, <1>4, <2>1 DEF Of
<1>9. Binder(l) = Max({0} \cup {d})
  BY <1>7, <1>8 DEF Binder, I
<1>10. Max({0} \cup {d}) = d
  <2> DEFINE S == {0} \cup {d}
  <2>1. S \in SUBSET Nat /\ S # {} /\ \A j \in S : j <= d
    BY <1>4
  <2>2. d \in S /\ \A j \in S : j = 0 \/ j = d
    OBVIOUS
  <2> HIDE DEF S
  <2>3. Max(S) \in S /\ Max(S) >= d
    BY <1>4, <2>1, <2>2, MaxIsGreatest
  <2>4. Max(S) = 0 \/ Max(S) = d
    BY <2>2, <2>3
  <2>5. d \in Nat /\ d # 0
    BY <1>4
  <2>6. Max(S) = d
    BY <2>3, <2>4, <2>5
  <2> QED BY <2>6 DEF S
<1> QED BY <1>3, <1>9, <1>10

(* The symbols of a function *)
LEMMA FunctionSymbolsAre ==
  ASSUME Whole, NEW scopes, NEW f \in FunctionDeclarations, NEW s, s = f.start
  PROVE  FunctionSymbols(scopes, f) = <<Symbol(s + 1, "function", Root, 0),
                                        Symbol(s + 4, "parameter", ScopeWithRange(scopes, f), s + 6)>>
<1>0. /\ text \in Seq(Token) /\ Len(text) \in Nat
  BY WholeTexts
<1>1. FormedAt(FunctionForm, s) /\ f = Span(s, EndOf(s + 6))
  BY DeclaredFunctionsAreForms
<1>2. BodyRange(f) = Span(s + 6, EndOf(s + 6)) /\ BodyRange(f) # NoRange
  BY <1>1, BodiesAre
<1>3. BodyRange(f).start = s + 6
  BY <1>2 DEF Span
<1>4. ParameterNames(f) = {s + 4} /\ FunctionName(f) = s + 1
  BY ParametersAre
<1>5. s + 4 \in 1 .. Len(text)
  <2>1. 4 \in 0 .. 6
    OBVIOUS
  <2> QED BY <1>0, <1>1, <2>1, FunctionHeads
<1> DEFINE names  == IF BodyRange(f) = NoRange THEN {} ELSE ParameterNames(f)
           sorted == InOrder(names, <)
           Parameter(at) == Symbol(at, "parameter", ScopeWithRange(scopes, f), BodyRange(f).start)
<1>6. FunctionSymbols(scopes, f) = <<Symbol(FunctionName(f), "function", Root, 0)>>
                                     \o [k \in DOMAIN sorted |-> Parameter(sorted[k])]
  BY DEF FunctionSymbols
<1>7. names = {s + 4}
  BY <1>2, <1>4
<1> HIDE DEF names
<1>8. sorted = <<s + 4>>
  BY <1>0, <1>5, <1>7, OneInOrder
<1> HIDE DEF sorted, Parameter
<1>9. [k \in DOMAIN sorted |-> Parameter(sorted[k])] = <<Parameter(s + 4)>>
  <2>1. DOMAIN sorted = 1 .. 1 /\ sorted[1] = s + 4
    BY <1>8
  <2>2. \A k \in 1 .. 1 : k = 1
    OBVIOUS
  <2> QED BY <2>1, <2>2
<1>10. Parameter(s + 4) = Symbol(s + 4, "parameter", ScopeWithRange(scopes, f), s + 6)
  BY <1>3 DEF Parameter
<1> DEFINE a == Symbol(s + 1, "function", Root, 0)
           b == Symbol(s + 4, "parameter", ScopeWithRange(scopes, f), s + 6)
<1>11. FunctionSymbols(scopes, f) = <<a>> \o <<b>>
  BY <1>4, <1>6, <1>9, <1>10
<1> HIDE DEF a, b
<1>12. <<a>> \o <<b>> = <<a, b>>
  <2>1. PICK X : X = {a, b}
    OBVIOUS
  <2>2. a \in X /\ b \in X
    BY <2>1
  <2> DEFINE c == <<a>> \o <<b>>
  <2>3. <<a>> \in Seq(X) /\ <<b>> \in Seq(X) /\ <<a, b>> \in Seq(X)
    BY <2>2
  <2>4. /\ Len(<<a>>) = 1 /\ Len(<<b>>) = 1 /\ Len(<<a, b>>) = 2
        /\ <<a>>[1] = a /\ <<b>>[1] = b /\ <<a, b>>[1] = a /\ <<a, b>>[2] = b
    OBVIOUS
  <2>5. c \in Seq(X) /\ Len(c) = 2
    BY <2>3, <2>4
  <2>6. c[1] = a
    BY <2>3, <2>4
  <2>7. c[2] = b
    BY <2>3, <2>4
  <2> HIDE DEF c
  <2>8. \A i \in 1 .. 2 : c[i] = <<a, b>>[i]
    BY <2>4, <2>6, <2>7
  <2>9. c = <<a, b>>
    BY <2>3, <2>4, <2>5, <2>8
  <2> QED BY <2>9 DEF c
<1> QED BY <1>11, <1>12 DEF a, b

(* The symbol of a loop *)
LEMMA LoopSymbolsAre ==
  ASSUME Whole, NEW scopes, NEW l \in ForStatements, NEW s, s = l.start
  PROVE  LoopSymbols(scopes, l) = <<Symbol(s + 2, "loop", ScopeWithRange(scopes, l), s + 6)>>
<1>1. FormedAt(LoopForm, s) /\ l = Span(s, EndOf(s + 6))
  BY LoopsAreForms
<1>2. BodyRange(l) = Span(s + 6, EndOf(s + 6)) /\ BodyRange(l) # NoRange
  BY <1>1, BodiesAre
<1>3. BodyRange(l).start = s + 6
  BY <1>2 DEF Span
<1>4. Binder(l) = s + 2
  BY BindersAre
<1>5. s + 2 # 0
  <2>1. s \in Nat \ {0}
    BY <1>1, WholeTexts, LoopHeads
  <2> QED BY <2>1
<1> QED BY <1>2, <1>3, <1>4, <1>5 DEF LoopSymbols

(* Where a declared variable belongs: directly in a program block other than  *)
(* functions and model to the program, elsewhere to the block around it.      *)
Homed(scopes, symbol) ==
  IF OwnerAt(symbol.at) \in ProgramKinds
  THEN symbol.scope = Root /\ symbol.kind = OwnerAt(symbol.at)
  ELSE /\ symbol.kind = "local" /\ symbol.scope \in DOMAIN scopes \ {Root}
       /\ KindAt(Innermost(symbol.at)) = "leftBrace" /\ Innermost(symbol.at) \in Nat \ {0}
       /\ scopes[symbol.scope].range = Span(Innermost(symbol.at), EndOf(Innermost(symbol.at)))

(* The symbol of a variable's declaration *)
LEMMA VariableSymbolsAre ==
  ASSUME Whole, NEW scopes, NEW ranges, NEW n, Built(scopes, ranges, n),
         NEW e \in 1 .. Len(text), RoleAt(e) = "ends", NEW v, v = Span(StatementStart(e), e),
         NEW h, h = HeldAt(e)
  PROVE  \E symbol : /\ VariableSymbols(scopes, v) = <<symbol>>
                     /\ symbol.at = h /\ symbol.visibleFrom = e + 1 /\ Homed(scopes, symbol)
<1>0. /\ text \in Seq(Token) /\ Len(text) \in Nat /\ DOMAIN text = 1 .. Len(text)
  BY WholeTexts
<1>1. /\ h \in 1 .. Len(text) /\ KindAt(h) = "identifier" /\ DeclaredName(v) = h
      /\ Quiet(h) /\ OwnerAt(h) \notin {"program", "functions"}
  BY EndsAreDeclarations
<1>2. h # 0 /\ h \in Nat \ {0}
  BY <1>0, <1>1
<1>3. Braces(h) # {}
  <2>1. env[1].owner \in {"program", "functions"}
    BY AuthorAssumption DEF Whole, AuthorInv
  <2> QED BY <1>1, <2>1 DEF OwnerAt
<1>4. PICK b : b = Innermost(h)
  OBVIOUS
<1>5. b \in Braces(h) /\ Max(Braces(h)) = b
  BY <1>0, <1>2, <1>3, <1>4, InnermostIs
<1>6. OwnerAt(h) = RoleAt(b)
  BY <1>3, <1>5 DEF OwnerAt
<1>7. b \in 1 .. Len(text) /\ KindAt(b) = "leftBrace" /\ b \in Nat \ {0}
  <2>1. b \in 1 .. Len(text) /\ KindAt(b) = "leftBrace"
    BY <1>0, <1>5, BracesAreBehind
  <2> QED BY <1>0, <2>1
<1>8. PICK k \in 2 .. n : ranges[k] = Span(b, EndOf(b)) /\ ScopeAt(scopes, h) = k
  BY <1>1, <1>3, <1>4, InnermostScopes
<1>9. scopes[k].kind = IF RoleAt(b) \in BlockKinds THEN RoleAt(b) ELSE "block"
  BY <1>7, <1>8, KindsOfBlocks
<1>10. k \in DOMAIN scopes \ {Root} /\ scopes[k].range = Span(b, EndOf(b))
  <2>1. n \in Nat /\ DOMAIN scopes = 1 .. n /\ \A m \in 1 .. n : scopes[m].range = ranges[m]
    BY DEF Built
  <2>2. k \in 1 .. n /\ k # 1
    BY <2>1
  <2> QED BY <1>8, <2>1, <2>2 DEF Root
<1> DEFINE block == FirstKind({q \in ProgramBlocks : Holds(q.range, h)})
           program == scopes[k].kind \in BlockKinds /\ block \in ProgramKinds
           symbol == Symbol(h, IF program THEN block ELSE "local", IF program THEN Root ELSE k, v.end)
<1>11. VariableSymbols(scopes, v) = <<symbol>>
  BY <1>1, <1>2, <1>8 DEF VariableSymbols
<1>12. RoleAt(b) \in BlockKinds => block = RoleAt(b)
  <2> SUFFICES ASSUME RoleAt(b) \in BlockKinds PROVE block = RoleAt(b)
    OBVIOUS
  <2>1. Braces(b) = {}
    BY <1>7, RolesAreBlocks
  <2>2. KindAt(h) \notin BlockWords /\ KindAt(h) # "leftBrace"
    BY <1>1 DEF BlockWords
  <2> QED BY <1>1, <1>5, <2>1, <2>2, BlockAround
<1>13. "block" \notin BlockKinds /\ ProgramKinds \subseteq BlockKinds
  BY BlockKindsAre DEF ProgramKinds
<1> HIDE DEF block
<1>14. program <=> RoleAt(b) \in ProgramKinds
  BY <1>9, <1>12, <1>13
<1>15. symbol.at = h /\ symbol.visibleFrom = e + 1
  <2>1. v.end = e + 1
    BY DEF Span
  <2> QED BY <2>1 DEF Symbol
<1>16. /\ symbol.scope = IF program THEN Root ELSE k
       /\ symbol.kind = IF program THEN block ELSE "local"
  BY DEF Symbol
<1> HIDE DEF symbol, program
<1>17. Homed(scopes, symbol)
  <2>1. CASE RoleAt(b) \in ProgramKinds
    <3>1. symbol.scope = Root /\ symbol.kind = RoleAt(b)
      BY <1>12, <1>13, <1>14, <1>16, <2>1
    <3> QED BY <1>6, <1>15, <2>1, <3>1 DEF Homed
  <2>2. CASE RoleAt(b) \notin ProgramKinds
    <3>1. symbol.scope = k /\ symbol.kind = "local"
      BY <1>14, <1>16, <2>2
    <3> QED BY <1>4, <1>6, <1>7, <1>10, <1>15, <2>2, <3>1 DEF Homed
  <2> QED BY <2>1, <2>2
<1> QED BY <1>11, <1>15, <1>17

-----------------------------------------------------------------------------
(* The symbols of a whole text, whichever order they are added in *)

(* The elements of two sequences joined *)
LEMMA RangeOfJoined ==
  ASSUME NEW G, NEW s \in Seq(G), NEW t \in Seq(G)
  PROVE  /\ s \o t \in Seq(G) /\ Range(s \o t) = Range(s) \cup Range(t)
<1> DEFINE a == Len(s)
           b == Len(t)
           u == s \o t
<1>1. /\ a \in Nat /\ b \in Nat /\ DOMAIN s = 1 .. a /\ DOMAIN t = 1 .. b
      /\ u \in Seq(G) /\ DOMAIN u = 1 .. a + b
      /\ \A k \in 1 .. a : u[k] = s[k]
      /\ \A k \in 1 .. a + b : k > a => u[k] = t[k - a]
  OBVIOUS
<1> HIDE DEF a, b, u
<1>2. ASSUME NEW k \in 1 .. a + b PROVE u[k] \in Range(s) \cup Range(t)
  <2>1. CASE k <= a
    <3>1. k \in 1 .. a
      BY <1>1, <2>1
    <3> QED BY <1>1, <3>1 DEF Range
  <2>2. CASE k > a
    <3>1. k - a \in 1 .. b
      BY <1>1, <2>2
    <3> QED BY <1>1, <2>2, <3>1 DEF Range
  <2> QED BY <1>1, <2>1, <2>2
<1>3. ASSUME NEW k \in 1 .. a PROVE s[k] \in Range(u)
  <2>1. k \in 1 .. a + b
    BY <1>1
  <2> QED BY <1>1, <2>1 DEF Range
<1>4. ASSUME NEW k \in 1 .. b PROVE t[k] \in Range(u)
  <2>1. PICK m : m = a + k
    OBVIOUS
  <2>2. m \in 1 .. a + b /\ m > a /\ m - a = k
    BY <1>1, <2>1
  <2> QED BY <1>1, <2>2 DEF Range
<1> QED BY <1>1, <1>2, <1>3, <1>4 DEF Range, u

(* The elements of a flattened sequence of sequences *)
LEMMA RangeOfFlattened ==
  ASSUME NEW G, NEW seqs \in Seq(Seq(G))
  PROVE  /\ FlattenSeq(seqs) \in Seq(G)
         /\ \A x : x \in Range(FlattenSeq(seqs)) <=> \E i \in 1 .. Len(seqs) : x \in Range(seqs[i])
<1>0. PICK n : n = Len(seqs)
  OBVIOUS
<1>1. n \in Nat /\ \A i \in 1 .. n : seqs[i] \in Seq(G)
  BY <1>0
<1>2. CASE n = 0
  <2>1. seqs = <<>>
    <3>1. PICK X : X = Seq(G)
      OBVIOUS
    <3>2. seqs \in Seq(X) /\ Len(seqs) = 0
      BY <1>0, <1>2, <3>1
    <3> QED BY <3>2
  <2>2. FlattenSeq(seqs) = <<>>
    BY <2>1, Zenon DEF FlattenSeq
  <2>3. Range(<<>>) = {} /\ 1 .. n = {}
    BY <1>2 DEF Range
  <2>4. <<>> \in Seq(G) /\ \A x : ~ (x \in Range(<<>>))
    BY <2>3
  <2>5. \A i : ~ (i \in 1 .. n)
    BY <2>3
  <2>6. FlattenSeq(seqs) \in Seq(G) /\ \A x : ~ (x \in Range(FlattenSeq(seqs)))
    BY <2>2, <2>4, Zenon
  <2> QED BY <1>0, <2>5, <2>6, Zenon
<1>3. CASE n # 0
  <2>1. PICK flatten :
          /\ FlattenSeq(seqs) = flatten[n]
          /\ \A i \in 1 .. n :
               flatten[i] = IF i = 1 THEN seqs[i] ELSE flatten[i - 1] \o seqs[i]
    BY <1>0, <1>3, FlattenedInTurn
  <2> DEFINE Has(m) == /\ flatten[m] \in Seq(G)
                       /\ \A x : x \in Range(flatten[m]) <=> \E i \in 1 .. m : x \in Range(seqs[i])
             Bad == {m \in 1 .. n : ~ Has(m)}
  <2>2. Bad = {}
    <3> SUFFICES ASSUME Bad # {} PROVE FALSE
      OBVIOUS
    <3>1. Bad \in SUBSET Nat
      <4> HIDE DEF Has
      <4> QED BY <1>1
    <3>2. PICK m \in Bad : \A k \in Bad : m <= k
      <4> HIDE DEF Bad
      <4> QED BY <3>1, LeastExists
    <3>3. m \in 1 .. n /\ ~ Has(m) /\ m \in Nat
      <4> HIDE DEF Has
      <4> QED BY <1>1
    <3>4. CASE m = 1
      <4>1. flatten[1] = seqs[1] /\ \A i \in 1 .. m : i = 1
        BY <2>1, <3>3, <3>4
      <4> QED BY <1>1, <3>3, <3>4, <4>1
    <3>5. CASE m # 1
      <4>1. m - 1 \in 1 .. n /\ ~ (m <= m - 1) /\ 1 .. m = 1 .. m - 1 \cup {m}
        BY <1>1, <3>3, <3>5
      <4>2. m - 1 \notin Bad
        <5> HIDE DEF Bad
        <5> QED BY <3>2, <4>1
      <4>3. Has(m - 1)
        <5> HIDE DEF Has
        <5> QED BY <4>1, <4>2
      <4>4. flatten[m] = flatten[m - 1] \o seqs[m]
        BY <2>1, <3>3, <3>5
      <4>5. /\ flatten[m] \in Seq(G)
            /\ Range(flatten[m]) = Range(flatten[m - 1]) \cup Range(seqs[m])
        BY <1>1, <3>3, <4>3, <4>4, RangeOfJoined
      <4>6. ASSUME NEW x
            PROVE  x \in Range(flatten[m]) <=> \E i \in 1 .. m : x \in Range(seqs[i])
        <5>1. x \in Range(flatten[m - 1]) <=> \E i \in 1 .. m - 1 : x \in Range(seqs[i])
          BY <4>3
        <5> HIDE DEF Has, Bad
        <5> QED BY <4>1, <4>5, <5>1, Zenon
      <4> QED BY <3>3, <4>5, <4>6
    <3> QED BY <3>4, <3>5
  <2>3. Has(n)
    <3>1. n \in 1 .. n
      BY <1>1, <1>3
    <3> HIDE DEF Has
    <3> QED BY <2>2, <3>1
  <2> QED BY <1>0, <2>1, <2>3
<1> QED BY <1>2, <1>3

(* The symbols that are added for one class of nodes *)
ClassOf(G, S, seqs, symbolsOf) ==
  /\ seqs \in [DOMAIN Sorted(S) -> Seq(G)]
  /\ \A k \in DOMAIN Sorted(S) : seqs[k] = symbolsOf[Sorted(S)[k]]

(* The symbols that one class of nodes adds *)
LEMMA RangeOfClass ==
  ASSUME text \in Seq(Token), NEW G, NEW S \in SUBSET NodeRanges, NEW seqs, NEW symbolsOf,
         ClassOf(G, S, seqs, symbolsOf)
  PROVE  /\ FlattenSeq(seqs) \in Seq(G)
         /\ \A x : x \in Range(FlattenSeq(seqs)) <=> \E r \in S : x \in Range(symbolsOf[r])
<1> DEFINE nodes == Sorted(S)
           flat == FlattenSeq(seqs)
<1>1. PICK n : n = Cardinality(S)
  OBVIOUS
<1>2. /\ n \in Nat /\ nodes \in [1 .. n -> S]
      /\ \A r \in S : \E k \in 1 .. n : nodes[k] = r
  BY <1>1, NodesAreSorted
<1>3. /\ seqs \in [1 .. n -> Seq(G)] /\ \A k \in 1 .. n : seqs[k] = symbolsOf[nodes[k]]
  BY <1>2 DEF ClassOf
<1>4. seqs \in Seq(Seq(G)) /\ Len(seqs) = n
  BY <1>2, <1>3
<1>5. /\ flat \in Seq(G)
      /\ \A x : x \in Range(flat) <=> \E i \in 1 .. n : x \in Range(seqs[i])
  BY <1>4, RangeOfFlattened
<1> HIDE DEF nodes, flat
<1>6. ASSUME NEW x
      PROVE  x \in Range(flat) <=> \E r \in S : x \in Range(symbolsOf[r])
  <2>1. ASSUME x \in Range(flat) PROVE \E r \in S : x \in Range(symbolsOf[r])
    <3>1. PICK i \in 1 .. n : x \in Range(seqs[i])
      BY <1>5, <2>1
    <3> QED BY <1>2, <1>3, <3>1
  <2>2. ASSUME NEW r \in S, x \in Range(symbolsOf[r]) PROVE x \in Range(flat)
    <3>1. PICK i \in 1 .. n : nodes[i] = r
      BY <1>2
    <3> QED BY <1>3, <1>5, <2>2, <3>1
  <2> QED BY <2>1, <2>2
<1> QED BY <1>5, <1>6 DEF flat

(* The symbols of a text: those of functions first, then those of declarations *)
(* and those of loops.                                                         *)
InClasses(scopes, Fs, F, V, L) ==
  /\ AddSymbols(scopes) = F \o V \o L /\ F = FlattenSeq(Fs)
  /\ Fs \in [DOMAIN Sorted(FunctionDeclarations) -> Seq(GoodSymbols(scopes))]
  /\ \A k \in DOMAIN Sorted(FunctionDeclarations) :
       Fs[k] = FunctionSymbols(scopes, Sorted(FunctionDeclarations)[k])
  /\ F \in Seq(GoodSymbols(scopes)) /\ V \in Seq(GoodSymbols(scopes)) /\ L \in Seq(GoodSymbols(scopes))
  /\ \A x : x \in Range(F) <=> \E r \in FunctionDeclarations : x \in Range(FunctionSymbols(scopes, r))
  /\ \A x : x \in Range(V) <=> \E r \in VariableDeclarations : x \in Range(VariableSymbols(scopes, r))
  /\ \A x : x \in Range(L) <=> \E r \in ForStatements : x \in Range(LoopSymbols(scopes, r))

(* The symbols are added class by class. *)
LEMMA SymbolsInClasses ==
  ASSUME DelimiterTypeOK, PairsNest, NEW scopes, ScopesOK(scopes)
  PROVE  \E Fs, F, V, L : InClasses(scopes, Fs, F, V, L)
<1> DEFINE functions == Sorted(FunctionDeclarations)
           variables == Sorted(VariableDeclarations)
           loops     == Sorted(ForStatements)
           Fs == [k \in DOMAIN functions |-> FunctionSymbols(scopes, functions[k])]
           F == FlattenSeq(Fs)
           Vs == [k \in DOMAIN variables |-> VariableSymbols(scopes, variables[k])]
           V == FlattenSeq(Vs)
           Ls == [k \in DOMAIN loops |-> LoopSymbols(scopes, loops[k])]
           L == FlattenSeq(Ls)
           G == GoodSymbols(scopes)
<1>0. text \in Seq(Token)
  BY DEF DelimiterTypeOK
<1>1. /\ F \in Seq(G)
      /\ \A x : x \in Range(F) <=> \E r \in FunctionDeclarations : x \in Range(FunctionSymbols(scopes, r))
  <2>1. FunctionDeclarations \in SUBSET NodeRanges
    BY FunctionsAreNodes
  <2>2. \A r \in FunctionDeclarations : FunctionSymbols(scopes, r) \in Seq(G)
    BY FunctionSymbolsAreGood
  <2> DEFINE symbolsOf == [r \in FunctionDeclarations |-> FunctionSymbols(scopes, r)]
  <2> HIDE DEF G
  <2>3. \A k \in DOMAIN functions : functions[k] \in FunctionDeclarations
    BY <1>0, <2>1, NodesAreSorted
  <2> HIDE DEF functions
  <2>4. /\ Fs \in [DOMAIN functions -> Seq(G)]
        /\ \A k \in DOMAIN functions : Fs[k] = symbolsOf[functions[k]]
    BY <2>2, <2>3
  <2>5. \A r \in FunctionDeclarations : symbolsOf[r] = FunctionSymbols(scopes, r)
    OBVIOUS
  <2> HIDE DEF Fs, symbolsOf
  <2>6. ClassOf(G, FunctionDeclarations, Fs, symbolsOf)
    BY <2>4 DEF ClassOf, functions
  <2>7. /\ F \in Seq(G)
        /\ \A x : x \in Range(F) <=> \E r \in FunctionDeclarations : x \in Range(symbolsOf[r])
    BY <1>0, <2>1, <2>6, RangeOfClass
  <2> HIDE DEF F
  <2> QED BY <2>5, <2>7
<1>2. /\ V \in Seq(G)
      /\ \A x : x \in Range(V) <=> \E r \in VariableDeclarations : x \in Range(VariableSymbols(scopes, r))
  <2>1. VariableDeclarations \in SUBSET NodeRanges
    BY VariablesAreNodes
  <2>2. \A r \in VariableDeclarations : VariableSymbols(scopes, r) \in Seq(G)
    BY VariableSymbolsAreGood
  <2> DEFINE symbolsOf == [r \in VariableDeclarations |-> VariableSymbols(scopes, r)]
  <2> HIDE DEF G
  <2>3. \A k \in DOMAIN variables : variables[k] \in VariableDeclarations
    BY <1>0, <2>1, NodesAreSorted
  <2> HIDE DEF variables
  <2>4. /\ Vs \in [DOMAIN variables -> Seq(G)]
        /\ \A k \in DOMAIN variables : Vs[k] = symbolsOf[variables[k]]
    BY <2>2, <2>3
  <2>5. \A r \in VariableDeclarations : symbolsOf[r] = VariableSymbols(scopes, r)
    OBVIOUS
  <2> HIDE DEF Vs, symbolsOf
  <2>6. ClassOf(G, VariableDeclarations, Vs, symbolsOf)
    BY <2>4 DEF ClassOf, variables
  <2>7. /\ V \in Seq(G)
        /\ \A x : x \in Range(V) <=> \E r \in VariableDeclarations : x \in Range(symbolsOf[r])
    BY <1>0, <2>1, <2>6, RangeOfClass
  <2> HIDE DEF V
  <2> QED BY <2>5, <2>7
<1>3. /\ L \in Seq(G)
      /\ \A x : x \in Range(L) <=> \E r \in ForStatements : x \in Range(LoopSymbols(scopes, r))
  <2>1. ForStatements \in SUBSET NodeRanges
    BY ForsAreNodes
  <2>2. \A r \in ForStatements : LoopSymbols(scopes, r) \in Seq(G)
    BY LoopSymbolsAreGood
  <2> DEFINE symbolsOf == [r \in ForStatements |-> LoopSymbols(scopes, r)]
  <2> HIDE DEF G
  <2>3. \A k \in DOMAIN loops : loops[k] \in ForStatements
    BY <1>0, <2>1, NodesAreSorted
  <2> HIDE DEF loops
  <2>4. /\ Ls \in [DOMAIN loops -> Seq(G)]
        /\ \A k \in DOMAIN loops : Ls[k] = symbolsOf[loops[k]]
    BY <2>2, <2>3
  <2>5. \A r \in ForStatements : symbolsOf[r] = LoopSymbols(scopes, r)
    OBVIOUS
  <2> HIDE DEF Ls, symbolsOf
  <2>6. ClassOf(G, ForStatements, Ls, symbolsOf)
    BY <2>4 DEF ClassOf, loops
  <2>7. /\ L \in Seq(G)
        /\ \A x : x \in Range(L) <=> \E r \in ForStatements : x \in Range(symbolsOf[r])
    BY <1>0, <2>1, <2>6, RangeOfClass
  <2> HIDE DEF L
  <2> QED BY <2>5, <2>7
<1>4. AddSymbols(scopes) = F \o V \o L
  BY Zenon DEF AddSymbols
<1>5. /\ Fs \in [DOMAIN functions -> Seq(G)]
      /\ \A k \in DOMAIN functions : Fs[k] = FunctionSymbols(scopes, functions[k])
  <2>1. FunctionDeclarations \in SUBSET NodeRanges
    BY FunctionsAreNodes
  <2>2. \A r \in FunctionDeclarations : FunctionSymbols(scopes, r) \in Seq(G)
    BY FunctionSymbolsAreGood
  <2> HIDE DEF G
  <2>3. \A k \in DOMAIN functions : functions[k] \in FunctionDeclarations
    BY <1>0, <2>1, NodesAreSorted
  <2> HIDE DEF functions
  <2> QED BY <2>2, <2>3
<1>6. F = FlattenSeq(Fs)
  OBVIOUS
<1> HIDE DEF F, V, L, Fs, Vs, Ls
<1>7. InClasses(scopes, Fs, F, V, L)
  BY <1>1, <1>2, <1>3, <1>4, <1>5, <1>6, Zenon DEF InClasses
<1> QED BY <1>7

(* The symbols of a text are those of its nodes. *)
LEMMA RangeOfSymbols ==
  ASSUME DelimiterTypeOK, PairsNest, NEW scopes, ScopesOK(scopes)
  PROVE  /\ \A f \in FunctionDeclarations : Range(FunctionSymbols(scopes, f)) \subseteq Range(AddSymbols(scopes))
         /\ \A v \in VariableDeclarations : Range(VariableSymbols(scopes, v)) \subseteq Range(AddSymbols(scopes))
         /\ \A l \in ForStatements : Range(LoopSymbols(scopes, l)) \subseteq Range(AddSymbols(scopes))
         /\ \A x \in Range(AddSymbols(scopes)) :
              \/ \E f \in FunctionDeclarations : x \in Range(FunctionSymbols(scopes, f))
              \/ \E v \in VariableDeclarations : x \in Range(VariableSymbols(scopes, v))
              \/ \E l \in ForStatements : x \in Range(LoopSymbols(scopes, l))
<1>1. PICK Fs, F, V, L : InClasses(scopes, Fs, F, V, L)
  BY SymbolsInClasses
<1>2. PICK G : G = GoodSymbols(scopes)
  OBVIOUS
<1>3. /\ F \in Seq(G) /\ V \in Seq(G) /\ L \in Seq(G) /\ AddSymbols(scopes) = F \o V \o L
      /\ \A x : x \in Range(F) <=> \E r \in FunctionDeclarations : x \in Range(FunctionSymbols(scopes, r))
      /\ \A x : x \in Range(V) <=> \E r \in VariableDeclarations : x \in Range(VariableSymbols(scopes, r))
      /\ \A x : x \in Range(L) <=> \E r \in ForStatements : x \in Range(LoopSymbols(scopes, r))
  BY <1>1, <1>2, Zenon DEF InClasses
<1>4. F \o V \in Seq(G) /\ Range(F \o V) = Range(F) \cup Range(V)
  BY <1>3, RangeOfJoined
<1>5. Range((F \o V) \o L) = (Range(F) \cup Range(V)) \cup Range(L)
  <2>1. PICK W : W = F \o V
    OBVIOUS
  <2>2. W \in Seq(G) /\ L \in Seq(G)
    BY <1>3, <1>4, <2>1
  <2>3. Range(W \o L) = Range(W) \cup Range(L)
    BY <2>2, RangeOfJoined
  <2> QED BY <1>4, <2>1, <2>3
<1> QED BY <1>3, <1>5, Zenon

(* A symbol of a function's or a variable's name is in the scope of its frame. *)
Scoped(scopes, symbol) ==
  LET frame == FrameOf(symbol.at) IN
  IF frame = 0 THEN symbol.scope = Root
  ELSE /\ symbol.scope \in DOMAIN scopes \ {Root}
       /\ scopes[symbol.scope].range = Span(frame, EndOf(frame))
       /\ frame \in Nat /\ KindAt(frame) = "leftBrace"

(* The symbol of a parameter or a binder is in the scope its head opens. *)
Heading(scopes, symbol) ==
  /\ symbol.scope \in DOMAIN scopes
  /\ \E r \in FunctionDeclarations \cup ForStatements :
       /\ scopes[symbol.scope].range = r
       /\ symbol.at = IF r \in FunctionDeclarations THEN r.start + 4 ELSE r.start + 2

(* A function has its name in the root and its parameter in its own scope. *)
LEMMA FunctionsAreScoped ==
  ASSUME Whole, NEW scopes, ScopesOK(scopes), NEW f \in FunctionDeclarations,
         NEW x \in Range(FunctionSymbols(scopes, f))
  PROVE  \/ x.at = f.start + 1 /\ x.at \in Declared(At) /\ Scoped(scopes, x)
         \/ x.at = f.start + 4 /\ Heading(scopes, x)
<1>0. text \in Seq(Token) /\ Len(text) \in Nat
  BY WholeTexts
<1>1. PICK s : s = f.start
  OBVIOUS
<1>2. PICK a : a = Symbol(s + 1, "function", Root, 0)
  OBVIOUS
<1>3. PICK b : b = Symbol(s + 4, "parameter", ScopeWithRange(scopes, f), s + 6)
  OBVIOUS
<1>4. FunctionSymbols(scopes, f) = <<a, b>>
  BY <1>1, <1>2, <1>3, FunctionSymbolsAre
<1>5. x = a \/ x = b
  BY <1>4 DEF Range
<1>6. FormedAt(FunctionForm, s)
  BY <1>1, DeclaredFunctionsAreForms
<1>7. CASE x = a
  <2>1. x.at = s + 1 /\ x.scope = Root
    BY <1>2, <1>7 DEF Symbol
  <2>2. s \in Nat /\ RoleAt(s + 1) = "names" /\ \A k \in 0 .. 6 : s + k \in 1 .. Len(text)
    BY <1>0, <1>6, FunctionHeads
  <2>3. s + 1 \in 1 .. Len(text)
    <3>1. 1 \in 0 .. 6
      OBVIOUS
    <3> QED BY <2>2, <3>1
  <2>4. s + 1 \in 1 .. At - 1
    BY <1>0, <2>3 DEF At
  <2>5. s + 1 \in Declared(At)
    BY <2>2, <2>4 DEF Declared
  <2>6. FrameOf(s + 1) = 0
    BY <2>2 DEF FrameOf
  <2> QED BY <1>1, <2>1, <2>5, <2>6 DEF Scoped
<1>8. CASE x = b
  <2>1. x.at = s + 4 /\ x.scope = ScopeWithRange(scopes, f)
    BY <1>3, <1>8 DEF Symbol
  <2>2. ScopeWithRange(scopes, f) \in DOMAIN scopes /\ scopes[ScopeWithRange(scopes, f)].range = f
    BY ScopesAreFound
  <2> QED BY <1>1, <2>1, <2>2 DEF Heading
<1> QED BY <1>5, <1>7, <1>8

(* A loop has its binder in its own scope. *)
LEMMA LoopsAreScoped ==
  ASSUME Whole, NEW scopes, ScopesOK(scopes), NEW l \in ForStatements,
         NEW x \in Range(LoopSymbols(scopes, l))
  PROVE  x.at = l.start + 2 /\ Heading(scopes, x)
<1>0. text \in Seq(Token) /\ Len(text) \in Nat
  BY WholeTexts
<1>1. PICK s : s = l.start
  OBVIOUS
<1>2. PICK a : a = Symbol(s + 2, "loop", ScopeWithRange(scopes, l), s + 6)
  OBVIOUS
<1>3. LoopSymbols(scopes, l) = <<a>>
  BY <1>1, <1>2, LoopSymbolsAre
<1>4. x = a
  BY <1>3 DEF Range
<1>5. x.at = s + 2 /\ x.scope = ScopeWithRange(scopes, l)
  BY <1>2, <1>4 DEF Symbol
<1>6. ScopeWithRange(scopes, l) \in DOMAIN scopes /\ scopes[ScopeWithRange(scopes, l)].range = l
  BY ScopesAreFound
<1>7. l \notin FunctionDeclarations
  <2> SUFFICES ASSUME l \in FunctionDeclarations PROVE FALSE
    OBVIOUS
  <2>1. KindAt(s) = "type"
    BY <1>0, <1>1, DeclaredFunctionsAreForms, FunctionHeads
  <2>2. KindAt(s) = "for"
    BY <1>0, <1>1, LoopsAreForms, LoopHeads
  <2> QED BY <2>1, <2>2
<1> QED BY <1>1, <1>5, <1>6, <1>7 DEF Heading

(* A declaration has one symbol, in the scope of its frame. *)
LEMMA VariablesAreScoped ==
  ASSUME Whole, NEW scopes, NEW ranges, NEW n, Built(scopes, ranges, n),
         NEW e \in 1 .. Len(text), RoleAt(e) = "ends", NEW v, v = Span(StatementStart(e), e)
  PROVE  /\ v \in VariableDeclarations
         /\ HeldAt(e) \in Declared(At)
         /\ \E x : /\ Range(VariableSymbols(scopes, v)) = {x}
                   /\ x.at = HeldAt(e) /\ x.visibleFrom = e + 1 /\ Scoped(scopes, x)
<1>0. text \in Seq(Token) /\ Len(text) \in Nat
  BY WholeTexts
<1>1. PICK h : h = HeldAt(e)
  OBVIOUS
<1>2. PICK x : /\ VariableSymbols(scopes, v) = <<x>>
               /\ x.at = h /\ x.visibleFrom = e + 1 /\ Homed(scopes, x)
  BY <1>1, VariableSymbolsAre
<1>3. Range(VariableSymbols(scopes, v)) = {x}
  BY <1>2 DEF Range
<1>4. RoleAt(h) = "declares" /\ v \in VariableDeclarations
  BY <1>1, EndsAreDeclarations
<1>5. h \in Declared(At)
  <2>1. e \in 1 .. At - 1
    BY <1>0 DEF At
  <2> QED BY <1>1, <2>1 DEF Declared
<1>6. Scoped(scopes, x)
  <2>1. CASE OwnerAt(h) \in ProgramKinds
    <3>1. FrameOf(h) = 0
      BY <2>1 DEF FrameOf
    <3> QED BY <1>2, <2>1, <3>1 DEF Homed, Scoped
  <2>2. CASE OwnerAt(h) \notin ProgramKinds
    <3>1. FrameOf(h) = Innermost(h)
      BY <1>4, <2>2 DEF FrameOf
    <3>2. /\ x.scope \in DOMAIN scopes \ {Root} /\ KindAt(FrameOf(h)) = "leftBrace"
          /\ FrameOf(h) \in Nat \ {0}
          /\ scopes[x.scope].range = Span(FrameOf(h), EndOf(FrameOf(h)))
      BY <1>2, <2>2, <3>1 DEF Homed
    <3> QED BY <1>2, <3>2 DEF Scoped
  <2> QED BY <2>1, <2>2
<1> QED BY <1>1, <1>2, <1>3, <1>4, <1>5, <1>6

(* Every symbol is of a declaration and in its scope, or of a head.           *)
LEMMA SymbolsAreScoped ==
  ASSUME Whole, NEW scopes, NEW ranges, NEW n, Built(scopes, ranges, n), ScopesOK(scopes)
  PROVE  /\ \A x \in Range(AddSymbols(scopes)) :
              \/ x.at \in Declared(At) /\ Scoped(scopes, x)
              \/ Heading(scopes, x)
         /\ \A j \in Declared(At) : \E x \in Range(AddSymbols(scopes)) : x.at = j /\ Scoped(scopes, x)
<1>0. /\ text \in Seq(Token) /\ Len(text) \in Nat /\ DelimiterTypeOK /\ PairsNest /\ EndsDeclare
  BY WholeTexts DEF Whole
<1>1. ASSUME NEW x \in Range(AddSymbols(scopes))
      PROVE  \/ x.at \in Declared(At) /\ Scoped(scopes, x)
             \/ Heading(scopes, x)
  <2>1. \/ \E f \in FunctionDeclarations : x \in Range(FunctionSymbols(scopes, f))
        \/ \E v \in VariableDeclarations : x \in Range(VariableSymbols(scopes, v))
        \/ \E l \in ForStatements : x \in Range(LoopSymbols(scopes, l))
    BY <1>0, RangeOfSymbols
  <2>2. CASE \E f \in FunctionDeclarations : x \in Range(FunctionSymbols(scopes, f))
    BY <2>2, FunctionsAreScoped
  <2>3. CASE \E l \in ForStatements : x \in Range(LoopSymbols(scopes, l))
    BY <2>3, LoopsAreScoped
  <2>4. CASE \E v \in VariableDeclarations : x \in Range(VariableSymbols(scopes, v))
    <3>1. PICK v \in VariableDeclarations : x \in Range(VariableSymbols(scopes, v))
      BY <2>4
    <3>2. PICK e \in 1 .. Len(text) : RoleAt(e) = "ends" /\ v = Span(StatementStart(e), e)
      BY DeclarationsAreEnds
    <3>3. /\ HeldAt(e) \in Declared(At)
          /\ \E y : /\ Range(VariableSymbols(scopes, v)) = {y}
                    /\ y.at = HeldAt(e) /\ Scoped(scopes, y)
      BY <3>2, VariablesAreScoped
    <3> QED BY <3>1, <3>3
  <2> QED BY <2>1, <2>2, <2>3, <2>4
<1>2. ASSUME NEW j \in Declared(At)
      PROVE  \E x \in Range(AddSymbols(scopes)) : x.at = j /\ Scoped(scopes, x)
  <2>1. At = Len(text) + 1 /\ At \in 1 .. Len(text) + 1
    BY <1>0 DEF At
  <2>2. j \in 1 .. Len(text) /\ \/ RoleAt(j) = "names"
                                \/ \E e \in 1 .. Len(text) : RoleAt(e) = "ends" /\ HeldAt(e) = j
    <3>1. j \in 1 .. Len(text)
      BY <1>0, <2>1, DeclaredAre
    <3>2. 1 .. At - 1 = 1 .. Len(text)
      BY <1>0, <2>1
    <3> QED BY <3>1, <3>2 DEF Declared
  <2>3. CASE RoleAt(j) = "names"
    <3>1. PICK s : s = StatementStart(j)
      OBVIOUS
    <3>2. s \in Nat
      BY <1>0, <2>2, <3>1, StatementsBegin
    <3>3. PICK form \in Forms : \E k \in 1 .. Len(form.kinds) : j = s + k - 1 /\ FormedAt(form, s)
      BY <1>0, <2>2, <3>1, StatementsAreForms, WholeTexts
    <3>4. PICK k \in 1 .. Len(form.kinds) : j = s + k - 1 /\ FormedAt(form, s)
      BY <3>3
    <3>5. form.roles[k] = "names"
      BY <2>3, <3>4 DEF FormedAt
    <3>6. form = FunctionForm /\ k = 2
      BY <3>5, TellingTokens
    <3>7. FormedAt(FunctionForm, s) /\ j = s + 1
      BY <3>2, <3>4, <3>6
    <3>8. PICK f : f = Span(s, EndOf(s + 6))
      OBVIOUS
    <3>9. f \in FunctionDeclarations /\ f.start = s
      <4>1. f.start = s
        BY <3>8 DEF Span
      <4> QED BY <3>7, <3>8, <4>1, FunctionFormsAreDeclared
    <3>10. PICK a : a = Symbol(s + 1, "function", Root, 0)
      OBVIOUS
    <3>11. PICK b : b = Symbol(s + 4, "parameter", ScopeWithRange(scopes, f), s + 6)
      OBVIOUS
    <3>12. FunctionSymbols(scopes, f) = <<a, b>>
      BY <3>9, <3>10, <3>11, FunctionSymbolsAre
    <3>13. a \in Range(FunctionSymbols(scopes, f))
      <4>1. 1 \in DOMAIN <<a, b>> /\ <<a, b>>[1] = a
        OBVIOUS
      <4> QED BY <3>12, <4>1 DEF Range
    <3>14. a \in Range(AddSymbols(scopes))
      BY <1>0, <3>9, <3>13, RangeOfSymbols
    <3>15. a.at = j /\ a.scope = Root
      BY <3>7, <3>10 DEF Symbol
    <3>16. Scoped(scopes, a)
      BY <2>3, <3>15 DEF Scoped, FrameOf
    <3> QED BY <3>14, <3>15, <3>16
  <2>4. ASSUME NEW e \in 1 .. Len(text), RoleAt(e) = "ends", HeldAt(e) = j
        PROVE  \E x \in Range(AddSymbols(scopes)) : x.at = j /\ Scoped(scopes, x)
    <3>1. PICK v : v = Span(StatementStart(e), e)
      OBVIOUS
    <3>2. /\ v \in VariableDeclarations
          /\ \E y : /\ Range(VariableSymbols(scopes, v)) = {y}
                    /\ y.at = HeldAt(e) /\ Scoped(scopes, y)
      BY <2>4, <3>1, VariablesAreScoped
    <3>3. Range(VariableSymbols(scopes, v)) \subseteq Range(AddSymbols(scopes))
      BY <1>0, <3>2, RangeOfSymbols
    <3> QED BY <2>4, <3>2, <3>3
  <2> QED BY <2>2, <2>3, <2>4
<1> QED BY <1>1, <1>2

(* Two declarations have one scope when they have one frame, and a symbol of  *)
(* a head has its scope for itself.                                           *)
LEMMA ScopesTell ==
  ASSUME Whole, NEW scopes, NEW ranges, NEW n, Built(scopes, ranges, n), ScopesOK(scopes),
         NEW x \in Range(AddSymbols(scopes)), NEW y \in Range(AddSymbols(scopes)), x.at # y.at
  PROVE  x.scope = y.scope <=> /\ x.at \in Declared(At) /\ y.at \in Declared(At)
                               /\ FrameOf(x.at) = FrameOf(y.at)
<1>0. /\ text \in Seq(Token) /\ Len(text) \in Nat /\ DelimiterTypeOK /\ PairsNest /\ Laid(text)
  BY WholeTexts
<1>1. ASSUME NEW z \in Range(AddSymbols(scopes)), z.at \in Declared(At) PROVE Scoped(scopes, z)
  <2>1. PICK w \in Range(AddSymbols(scopes)) : w.at = z.at /\ Scoped(scopes, w)
    BY <1>1, SymbolsAreScoped
  <2>2. Distinct(AddSymbols(scopes))
    BY <1>0, SymbolsAreDistinct
  <2>3. w = z
    BY <1>1, <2>1, <2>2 DEF Distinct, Range
  <2> QED BY <2>1, <2>3
<1>2. ASSUME NEW z \in Range(AddSymbols(scopes))
      PROVE  (z.at \in Declared(At) /\ Scoped(scopes, z)) \/ Heading(scopes, z)
  BY SymbolsAreScoped
<1>3. ASSUME NEW r \in FunctionDeclarations \cup ForStatements
      PROVE  r # RootRange /\ KindAt(r.start) # "leftBrace"
  <2>1. r # RootRange
    BY RangesAre DEF ScopedRanges
  <2>2. CASE r \in FunctionDeclarations
    <3>1. KindAt(r.start) = "type"
      BY <1>0, <2>2, DeclaredFunctionsAreForms, FunctionHeads
    <3> QED BY <2>1, <3>1
  <2>3. CASE r \in ForStatements
    <3>1. KindAt(r.start) = "for"
      BY <1>0, <2>3, LoopsAreForms, LoopHeads
    <3> QED BY <2>1, <3>1
  <2> QED BY <2>2, <2>3
<1>4. /\ n \in Nat \ {0} /\ DOMAIN scopes = 1 .. n /\ scopes[Root].range = RootRange
      /\ \A k, m \in 1 .. n : scopes[k].range = scopes[m].range => k = m
  <2>1. /\ n \in Nat \ {0} /\ DOMAIN scopes = 1 .. n /\ ranges[1] = RootRange
        /\ \A k \in 1 .. n : scopes[k].range = ranges[k]
        /\ \A k, m \in 1 .. n : ranges[k] = ranges[m] => k = m
    BY DEF Built
  <2>2. 1 \in 1 .. n
    BY <2>1
  <2> QED BY <2>1, <2>2 DEF Root
<1>5. ASSUME NEW z, Scoped(scopes, z), NEW w, Heading(scopes, w) PROVE z.scope # w.scope
  <2>1. PICK r \in FunctionDeclarations \cup ForStatements : scopes[w.scope].range = r
    BY <1>5 DEF Heading
  <2>2. CASE FrameOf(z.at) = 0
    <3>1. z.scope = Root
      BY <1>5, <2>2 DEF Scoped
    <3> QED BY <1>3, <1>4, <2>1, <3>1
  <2>3. CASE FrameOf(z.at) # 0
    <3>1. PICK b : b = FrameOf(z.at)
      OBVIOUS
    <3>2. scopes[z.scope].range = Span(b, EndOf(b)) /\ KindAt(b) = "leftBrace"
      BY <1>5, <2>3, <3>1 DEF Scoped
    <3>3. Span(b, EndOf(b)).start = b
      BY DEF Span
    <3> QED BY <1>3, <2>1, <3>2, <3>3
  <2> QED BY <2>2, <2>3
<1>6. ASSUME NEW z, Heading(scopes, z), NEW w, Heading(scopes, w), z.scope = w.scope
      PROVE  z.at = w.at
  BY <1>6 DEF Heading
<1>7. ASSUME NEW z, Scoped(scopes, z), NEW w, Scoped(scopes, w)
      PROVE  z.scope = w.scope <=> FrameOf(z.at) = FrameOf(w.at)
  <2>1. PICK b : b = FrameOf(z.at)
    OBVIOUS
  <2>2. PICK c : c = FrameOf(w.at)
    OBVIOUS
  <2>3. /\ b = 0 => z.scope = Root
        /\ b # 0 => /\ z.scope \in DOMAIN scopes \ {Root}
                    /\ scopes[z.scope].range = Span(b, EndOf(b))
    BY <1>7, <2>1 DEF Scoped
  <2>4. /\ c = 0 => w.scope = Root
        /\ c # 0 => /\ w.scope \in DOMAIN scopes \ {Root}
                    /\ scopes[w.scope].range = Span(c, EndOf(c))
    BY <1>7, <2>2 DEF Scoped
  <2>5. Span(b, EndOf(b)).start = b /\ Span(c, EndOf(c)).start = c
    BY DEF Span
  <2>6. ASSUME z.scope = w.scope PROVE b = c
    BY <2>3, <2>4, <2>5, <2>6
  <2>7. ASSUME b = c PROVE z.scope = w.scope
    BY <1>4, <2>3, <2>4, <2>7
  <2> QED BY <2>1, <2>2, <2>6, <2>7
<1>8. ASSUME x.scope = y.scope
      PROVE  x.at \in Declared(At) /\ y.at \in Declared(At) /\ FrameOf(x.at) = FrameOf(y.at)
  <2>1. ~ (Heading(scopes, x) /\ Heading(scopes, y))
    BY <1>6, <1>8
  <2>2. /\ ~ (Scoped(scopes, x) /\ Heading(scopes, y))
        /\ ~ (Heading(scopes, x) /\ Scoped(scopes, y))
    BY <1>5, <1>8
  <2>3. /\ x.at \in Declared(At) /\ Scoped(scopes, x)
        /\ y.at \in Declared(At) /\ Scoped(scopes, y)
    BY <1>2, <2>1, <2>2
  <2> QED BY <1>7, <1>8, <2>3
<1>9. ASSUME x.at \in Declared(At), y.at \in Declared(At), FrameOf(x.at) = FrameOf(y.at)
      PROVE  x.scope = y.scope
  BY <1>1, <1>7, <1>9
<1> QED BY <1>8, <1>9

(* The duplicates that the analysis reports are the author's clashes. *)
LEMMA DuplicatesAre ==
  ASSUME Whole, Recording, NEW duplicates, duplicates = Duplicates(AddSymbols(BuildScopes), NamesOf)
  PROVE  /\ \A d \in duplicates : {d[1], d[2]} \in clashes
         /\ UNION clashes = {d[1] : d \in duplicates} \cup {d[2] : d \in duplicates}
<1>0. /\ text \in Seq(Token) /\ Len(text) \in Nat /\ DOMAIN text = 1 .. Len(text)
      /\ DelimiterTypeOK /\ PairsNest /\ Laid(text)
  BY WholeTexts
<1>1. PICK scopes : scopes = BuildScopes
  OBVIOUS
<1>2. PICK symbols : symbols = AddSymbols(scopes)
  OBVIOUS
<1>3. ScopesOK(scopes)
  BY <1>0, <1>1, ScopesAreBuilt
<1>4. PICK ranges : \E n : Built(scopes, ranges, n)
  BY <1>1, ScopesAreOf
<1>5. PICK n : Built(scopes, ranges, n)
  BY <1>4
<1>6. PICK N : N = Len(symbols)
  OBVIOUS
<1>7. /\ N \in Nat /\ DOMAIN symbols = 1 .. N
      /\ \A k \in 1 .. N : symbols[k].at \in 1 .. Len(text)
  <2>1. symbols \in Seq(GoodSymbols(scopes))
    BY <1>0, <1>2, <1>3, SymbolsAreAdded
  <2>2. \A s \in GoodSymbols(scopes) : s.at \in 1 .. Len(text)
    BY DEF GoodSymbols
  <2>3. PICK G : G = GoodSymbols(scopes)
    OBVIOUS
  <2>4. symbols \in Seq(G)
    BY <2>1, <2>3
  <2>5. N \in Nat /\ DOMAIN symbols = 1 .. N /\ \A k \in 1 .. N : symbols[k] \in G
    BY <1>6, <2>4
  <2> QED BY <2>2, <2>3, <2>5
<1>8. \A k, m \in 1 .. N : symbols[k].at = symbols[m].at => k = m
  <2>1. Distinct(symbols)
    BY <1>0, <1>2, <1>3, SymbolsAreDistinct
  <2> QED BY <1>7, <2>1 DEF Distinct
<1> DEFINE Alike(k, m) == /\ symbols[m].scope = symbols[k].scope
                          /\ NamesOf[symbols[m].at] = NamesOf[symbols[k].at]
           Same(k) == {m \in DOMAIN symbols : symbols[m].scope = symbols[k].scope
                                              /\ NamesOf[symbols[m].at] = NamesOf[symbols[k].at]}
<1>9. duplicates = {<<symbols[k].at, symbols[Min(Same(k))].at>> :
                      k \in {k \in DOMAIN symbols : k # Min(Same(k))}}
  BY <1>1, <1>2 DEF Duplicates
<1>10. ASSUME NEW k \in 1 .. N, NEW m \in 1 .. N, k # m
       PROVE  Alike(k, m) <=> /\ symbols[k].at \in Declared(At) /\ symbols[m].at \in Declared(At)
                              /\ Clash(symbols[k].at, symbols[m].at)
  <2>1. PICK x : x = symbols[k]
    OBVIOUS
  <2>2. PICK y : y = symbols[m]
    OBVIOUS
  <2>3. x \in Range(AddSymbols(scopes)) /\ y \in Range(AddSymbols(scopes))
    BY <1>2, <1>7, <1>10, <2>1, <2>2 DEF Range
  <2>4. x.at # y.at
    BY <1>8, <1>10, <2>1, <2>2
  <2>5. x.scope = y.scope <=> /\ x.at \in Declared(At) /\ y.at \in Declared(At)
                              /\ FrameOf(x.at) = FrameOf(y.at)
    BY <1>3, <1>5, <2>3, <2>4, ScopesTell
  <2>6. NamesOf[x.at] = text[x.at].name /\ NamesOf[y.at] = text[y.at].name
    <3>1. x.at \in DOMAIN text /\ y.at \in DOMAIN text
      BY <1>0, <1>7, <2>1, <2>2
    <3> QED BY <3>1 DEF NamesOf
  <2>7. Alike(k, m) <=> x.scope = y.scope /\ text[x.at].name = text[y.at].name
    BY <2>1, <2>2, <2>6
  <2>8. Clash(x.at, y.at) <=> FrameOf(x.at) = FrameOf(y.at) /\ text[x.at].name = text[y.at].name
    BY <2>4 DEF Clash
  <2> HIDE DEF Alike
  <2>9. Alike(k, m) <=> /\ x.at \in Declared(At) /\ y.at \in Declared(At) /\ Clash(x.at, y.at)
    BY <2>5, <2>7, <2>8, Zenon
  <2> QED BY <2>1, <2>2, <2>9
<1>11. ASSUME NEW k \in 1 .. N
       PROVE  /\ Min(Same(k)) \in 1 .. N /\ Alike(k, Min(Same(k)))
              /\ \A m \in 1 .. N : Alike(k, m) => Min(Same(k)) <= m
  <2>1. Same(k) \in SUBSET Nat /\ k \in Same(k)
    BY <1>7
  <2>2. \A m \in 1 .. N : m \in Same(k) <=> Alike(k, m)
    BY <1>7
  <2>3. Same(k) \subseteq 1 .. N
    BY <1>7
  <2> HIDE DEF Same, Alike
  <2>4. Min(Same(k)) \in Same(k) /\ \A m \in Same(k) : Min(Same(k)) <= m
    BY <2>1, MinIsLeast
  <2> QED BY <2>2, <2>3, <2>4
<1>12. ASSUME NEW k \in 1 .. N, NEW m \in 1 .. N, Alike(k, m) PROVE Same(k) = Same(m)
  BY <1>12
<1>13. ASSUME NEW k \in 1 .. N, k # Min(Same(k))
       PROVE  {symbols[k].at, symbols[Min(Same(k))].at} \in clashes
  <2>1. PICK m : m = Min(Same(k))
    OBVIOUS
  <2>2. m \in 1 .. N /\ Alike(k, m) /\ k # m
    <3> HIDE DEF Same, Alike
    <3> QED BY <1>11, <1>13, <2>1
  <2>3. /\ symbols[k].at \in Declared(At) /\ symbols[m].at \in Declared(At)
        /\ Clash(symbols[k].at, symbols[m].at)
    <3> HIDE DEF Alike
    <3> QED BY <1>10, <2>2
  <2>4. {symbols[k].at, symbols[m].at} \in clashes
    BY <2>3 DEF Recording
  <2> HIDE DEF Same, Alike
  <2> QED BY <2>1, <2>4
<1>14. ASSUME NEW d \in duplicates
       PROVE  \E k \in 1 .. N : /\ k # Min(Same(k))
                                /\ d[1] = symbols[k].at /\ d[2] = symbols[Min(Same(k))].at
  <2> HIDE DEF Same
  <2>1. PICK k \in DOMAIN symbols : k # Min(Same(k)) /\ d = <<symbols[k].at, symbols[Min(Same(k))].at>>
    BY <1>9
  <2>2. d[1] = symbols[k].at /\ d[2] = symbols[Min(Same(k))].at
    BY <2>1
  <2> QED BY <1>7, <2>1, <2>2
<1>15. ASSUME NEW k \in 1 .. N, k # Min(Same(k))
       PROVE  /\ symbols[k].at \in {d[1] : d \in duplicates}
              /\ symbols[Min(Same(k))].at \in {d[2] : d \in duplicates}
  <2> HIDE DEF Same
  <2>1. PICK d : d = <<symbols[k].at, symbols[Min(Same(k))].at>>
    OBVIOUS
  <2>2. d \in duplicates
    BY <1>7, <1>9, <1>15, <2>1
  <2>3. d[1] = symbols[k].at /\ d[2] = symbols[Min(Same(k))].at
    BY <2>1
  <2> QED BY <2>2, <2>3
<1>16. ASSUME NEW c \in clashes, NEW j \in c
       PROVE  j \in {d[1] : d \in duplicates} \cup {d[2] : d \in duplicates}
  <2>1. PICK a \in Declared(At) : \E b \in Declared(At) : Clash(a, b) /\ c = {a, b}
    BY <1>16 DEF Recording
  <2>2. PICK b \in Declared(At) : Clash(a, b) /\ c = {a, b}
    BY <2>1
  <2>3. \A i \in Declared(At) : \E k \in 1 .. N : symbols[k].at = i
    <3>1. \A i \in Declared(At) : \E x \in Range(AddSymbols(scopes)) : x.at = i
      BY <1>3, <1>5, SymbolsAreScoped
    <3> QED BY <1>2, <1>7, <3>1 DEF Range
  <2>4. PICK k \in 1 .. N : symbols[k].at = a
    BY <2>3
  <2>5. PICK m \in 1 .. N : symbols[m].at = b
    BY <2>3
  <2>6. k # m /\ Clash(b, a)
    BY <2>2, <2>4, <2>5 DEF Clash
  <2>7. Alike(k, m)
    <3> HIDE DEF Alike
    <3> QED BY <1>10, <2>2, <2>4, <2>5, <2>6
  <2>8. Same(k) = Same(m)
    BY <1>12, <2>7
  <2>9. PICK q : q = Min(Same(k))
    OBVIOUS
  <2>10. \A i \in {k, m} : i \in 1 .. N /\ Min(Same(i)) = q
    <3> HIDE DEF Same
    <3> QED BY <2>8, <2>9
  <2>11. PICK i \in {k, m} : symbols[i].at = j
    BY <1>16, <2>2, <2>4, <2>5
  <2>12. CASE i # q
    <3> HIDE DEF Same
    <3> QED BY <1>15, <2>10, <2>11, <2>12
  <2>13. CASE i = q
    <3>1. PICK l \in {k, m} : l # q
      BY <2>6, <2>13
    <3> HIDE DEF Same
    <3> QED BY <1>15, <2>10, <2>11, <2>13, <3>1
  <2> QED BY <2>12, <2>13
<1>17. \A d \in duplicates : {d[1], d[2]} \in clashes
  <2> HIDE DEF Same
  <2> QED BY <1>13, <1>14
<1>18. UNION clashes \subseteq {d[1] : d \in duplicates} \cup {d[2] : d \in duplicates}
  BY <1>16
<1> QED BY <1>17, <1>18

(* A finished program, of which no token was left out, is whole. *)
LEMMA FinishedIsWhole ==
  ASSUME AnalysisInv, AuthorInv, LaidInv, SuitInv, FrameInv, RecordInv, Margin # 0, Finished
  PROVE  Whole /\ Recording
<1>0. pending = <<>> /\ slips = 0 /\ Len(env) = 1
  BY DEF Finished
<1>1. DelimiterInv /\ text \in Seq(Token)
  BY DEF AnalysisInv, DelimiterInv, DelimiterTypeOK
<1>2. text \o pending = text
  BY <1>0, <1>1
<1>3. Laid(text) /\ Suited(text) /\ Framed /\ ClosersArePaired /\ Recording
  BY <1>0, <1>2 DEF LaidInv, SuitInv, FrameInv, RecordInv
<1>4. Braces(At) = {}
  <2>1. PICK e : e = Len(env)
    OBVIOUS
  <2>2. Innermost(At) = IF e = 1 THEN 0 ELSE stack[e - 1]
    BY <1>1, <1>3, <2>1, BracesAre
  <2>3. At \in Nat \ {0}
    BY <1>1 DEF At
  <2> QED BY <1>0, <1>1, <2>1, <2>2, <2>3, InnermostIs
<1> QED BY <1>1, <1>3, <1>4 DEF Whole, Recording

(* In a finished program the duplicate-declaration errors relate declarations *)
(* of one name in one scope, and leave out none of them: for texts of any     *)
(* length.                                                                    *)
THEOREM DuplicatesAlwaysReported ==
  ASSUME Margin # 0
  PROVE  Spec => []DuplicatesAreReported
<1>1. /\ AnalysisInv /\ AuthorInv /\ LaidInv /\ SuitInv /\ FrameInv /\ RecordInv /\ ModelIsCurrent
      => DuplicatesAreReported
  <2> SUFFICES ASSUME AnalysisInv, AuthorInv, LaidInv, SuitInv, FrameInv, RecordInv,
                      ModelIsCurrent, Finished
               PROVE  /\ \A d \in model.duplicates : {d[1], d[2]} \in clashes
                      /\ UNION clashes = {d[1] : d \in model.duplicates}
                                         \cup {d[2] : d \in model.duplicates}
    BY DEF DuplicatesAreReported
  <2>1. Whole /\ Recording
    BY FinishedIsWhole
  <2>2. model = AnalyzeSemantics(NamesOf)
    BY DEF Finished, ModelIsCurrent
  <2>3. model.duplicates = Duplicates(AddSymbols(BuildScopes), NamesOf)
    BY <2>2 DEF AnalyzeSemantics
  <2> QED BY <2>1, <2>3, DuplicatesAre
<1> QED
  BY <1>1, DelimitersHold, RecordsHold, TextsAreLaid, SuitsHold, FramesHold, RecordsAreInText,
     ModelsAreCurrent, PTL

-----------------------------------------------------------------------------
(* What a use at i means, as a function of the text and its delimiter pairs   *)

(* What is declared for the block of brace b before token i, or bound by the  *)
(* head before b                                                              *)
InFrame(b, i, name) ==
  {j \in {j \in Declared(i) : FrameOf(j) = b} \cup ({HeldAt(b)} \ {0}) : text[j].name = name}
Nearby(i, name) == {b \in Braces(i) : InFrame(b, i, name) # {}}

(* What the program declares that token i can see *)
Known(i, name) ==
  {j \in Declared(i) :
     /\ FrameOf(j) = 0 /\ text[j].name = name /\ OutermostAt(j) # "functions"
     /\ \A b \in Braces(i) : RoleAt(b) # "function"
     /\ Rank(OutermostAt(j)) <= Rank(OutermostAt(i))}

(* Of the blocks and heads around it that declare the name, the innermost *)
Nearest(i, name) == {b \in Nearby(i, name) : \A c \in Nearby(i, name) : c <= b}

MeantBy(i, name) ==
  Max({0} \cup (IF Nearby(i, name) # {} THEN UNION {InFrame(b, i, name) : b \in Nearest(i, name)}
                ELSE Known(i, name)))

(* The innermost frame that has the name decides, else the program. *)
LEMMA MeantIs ==
  ASSUME NEW i, NEW name, Nearby(i, name) \in SUBSET Nat
  PROVE  /\ \A b \in Nearby(i, name) :
              (\A c \in Nearby(i, name) : c <= b) => MeantBy(i, name) = Max({0} \cup InFrame(b, i, name))
         /\ Nearby(i, name) = {} => MeantBy(i, name) = Max({0} \cup Known(i, name))
<1>1. ASSUME NEW b \in Nearby(i, name), \A c \in Nearby(i, name) : c <= b
      PROVE  MeantBy(i, name) = Max({0} \cup InFrame(b, i, name))
  <2>1. \A c \in Nearby(i, name) : (\A d \in Nearby(i, name) : d <= c) => c = b
    BY <1>1
  <2>2. Nearest(i, name) = {b}
    BY <1>1, <2>1 DEF Nearest
  <2>3. UNION {InFrame(c, i, name) : c \in {b}} = InFrame(b, i, name)
    OBVIOUS
  <2> QED BY <2>2, <2>3 DEF MeantBy
<1> QED BY <1>1 DEF MeantBy

(* The greatest of a set is the one that none exceeds. *)
LEMMA MaxIs ==
  ASSUME NEW S \in SUBSET Nat, NEW d \in S, \A s \in S : s <= d
  PROVE  Max(S) = d
<1>1. d \in Nat /\ S # {}
  OBVIOUS
<1>2. Max(S) \in S /\ \A s \in S : Max(S) >= s
  BY <1>1, MaxIsGreatest
<1>3. Max(S) \in Nat /\ Max(S) >= d /\ Max(S) <= d
  BY <1>2
<1> QED BY <1>1, <1>3

(* The declarations of an open scope are those recorded for its brace. *)
LEMMA FramesNamed ==
  ASSUME DelimiterInv, AuthorInv, Framed, Recording, NEW name, NEW m \in 2 .. Len(env),
         NEW b, b = stack[m - 1]
  PROVE  /\ b \in Braces(At)
         /\ Named(env[m].bound \cup env[m].declared, name) = {Recorded(j) : j \in InFrame(b, At, name)}
<1>0. PICK e : e = Len(env)
  OBVIOUS
<1>1. /\ e \in Nat \ {0} /\ \A l \in 1 .. e - 1 : stack[l] \in 1 .. Len(text)
      /\ Braces(At) = {stack[l] : l \in 1 .. e - 1}
  BY <1>0, BracesAre
<1>2. m \in Nat /\ m # 1 /\ m - 1 \in 1 .. e - 1 /\ m \in 1 .. e
  BY <1>0, <1>1
<1>3. b \in Braces(At)
  BY <1>1, <1>2
<1>4. FramePos(m) = b
  BY <1>2 DEF FramePos
<1>5. env[m].bound = Noted(HeldAt(b)) /\ env[m].declared = {Recorded(j) : j \in DeclaredFor(b)}
  BY <1>0, <1>2, <1>4 DEF Recording
<1>6. \A j : Recorded(j).name = text[j].name
  BY DEF Recorded
<1>7. Noted(HeldAt(b)) = {Recorded(j) : j \in {HeldAt(b)} \ {0}}
  <2>1. PICK h : h = HeldAt(b)
    OBVIOUS
  <2>2. CASE h = 0
    BY <2>1, <2>2 DEF Noted
  <2>3. CASE h # 0
    <3>1. {h} \ {0} = {h}
      BY <2>3
    <3>2. {Recorded(j) : j \in {h}} = {Recorded(h)}
      OBVIOUS
    <3> QED BY <2>1, <2>3, <3>1, <3>2 DEF Noted
  <2> QED BY <2>2, <2>3
<1>8. DeclaredFor(b) = {j \in Declared(At) : FrameOf(j) = b}
  BY DEF DeclaredFor
<1> DEFINE J == {j \in Declared(At) : FrameOf(j) = b} \cup ({HeldAt(b)} \ {0})
<1>9. env[m].bound \cup env[m].declared = {Recorded(j) : j \in J}
  BY <1>5, <1>7, <1>8
<1>10. InFrame(b, At, name) = {j \in J : text[j].name = name}
  BY DEF InFrame
<1> HIDE DEF J
<1>11. Named(env[m].bound \cup env[m].declared, name) = {Recorded(j) : j \in InFrame(b, At, name)}
  BY <1>6, <1>9, <1>10 DEF Named
<1> QED BY <1>3, <1>11

(* The latest of some declarations is the last of their positions. *)
LEMMA LatestIs ==
  ASSUME NEW J PROVE Latest({Recorded(j) : j \in J}) = Max({0} \cup J)
<1>1. \A j : Recorded(j).at = j
  BY DEF Recorded
<1>2. {d.at : d \in {Recorded(j) : j \in J}} = J
  BY <1>1
<1> QED BY <1>2 DEF Latest

(* What is declared for an open block, or bound by a head, lies before it is used. *)
LEMMA FramesAreInText ==
  ASSUME text \in Seq(Token), EndsDeclare, NEW i \in 1 .. Len(text) + 1, NEW b \in Braces(i), NEW name
  PROVE  /\ InFrame(b, i, name) \in SUBSET Nat
         /\ \A j \in InFrame(b, i, name) : j \in 1 .. i - 1 /\ j \in 1 .. Len(text)
<1>1. Len(text) \in Nat /\ i \in Nat
  OBVIOUS
<1>2. b \in 1 .. Len(text) /\ b \in 1 .. i - 1
  BY BracesAreBehind
<1>3. b \in Nat \ {0}
  BY <1>1, <1>2
<1>4. HeldAt(b) # 0 => HeldAt(b) \in 1 .. b - 1 /\ HeldAt(b) \in 1 .. Len(text)
  BY <1>3, HeldIs
<1>5. \A j \in Declared(i) : j \in 1 .. i - 1 /\ j \in 1 .. Len(text)
  BY DeclaredAre
<1>6. HeldAt(b) # 0 => HeldAt(b) \in 1 .. i - 1
  BY <1>1, <1>2, <1>3, <1>4
<1>7. \A j \in InFrame(b, i, name) : j \in 1 .. i - 1 /\ j \in 1 .. Len(text)
  BY <1>4, <1>5, <1>6 DEF InFrame
<1>8. \A j \in 1 .. Len(text) : j \in Nat
  BY <1>1
<1> QED BY <1>7, <1>8

(* What the author means by a name is what is said here of the place where    *)
(* the next token goes.                                                       *)
LEMMA MeaningIs ==
  ASSUME DelimiterInv, AuthorInv, Framed, Recording, NEW name
  PROVE  Meaning(name) = MeantBy(At, name)
<1>0. PICK e : e = Len(env)
  OBVIOUS
<1>1. /\ e \in Nat \ {0} /\ \A l \in 1 .. e - 1 : stack[l] \in 1 .. Len(text)
      /\ Braces(At) = {stack[l] : l \in 1 .. e - 1}
      /\ \A m, l \in 1 .. e - 1 : m < l => stack[m] < stack[l]
      /\ OutermostAt(At) = Block
  BY <1>0, BracesAre
<1>2. text \in Seq(Token) /\ Len(text) \in Nat /\ EndsDeclare /\ At \in 1 .. Len(text) + 1
  BY DEF DelimiterInv, DelimiterTypeOK, Recording, At
<1> DEFINE InScope(m) == Named(env[m].bound \cup env[m].declared, name)
           scopes == {m \in 2 .. Len(env) : InScope(m) # {}}
           near == Nearby(At, name)
<1>3. ASSUME NEW m \in 2 .. e
      PROVE  /\ m - 1 \in 1 .. e - 1 /\ stack[m - 1] \in Braces(At)
             /\ InScope(m) = {Recorded(j) : j \in InFrame(stack[m - 1], At, name)}
             /\ m \in scopes <=> stack[m - 1] \in near
  <2>1. PICK b : b = stack[m - 1]
    OBVIOUS
  <2>2. b \in Braces(At) /\ InScope(m) = {Recorded(j) : j \in InFrame(b, At, name)}
    BY <1>0, <2>1, FramesNamed
  <2>3. InScope(m) # {} <=> InFrame(b, At, name) # {}
    <3> HIDE DEF InScope
    <3> QED BY <2>2
  <2>4. m \in scopes <=> b \in near
    <3> HIDE DEF InScope
    <3> QED BY <1>0, <2>2, <2>3 DEF Nearby
  <2>5. m - 1 \in 1 .. e - 1
    BY <1>1
  <2> QED BY <2>1, <2>2, <2>4, <2>5
<1>4. \A b \in Braces(At) : \E m \in 2 .. e : stack[m - 1] = b
  <2> SUFFICES ASSUME NEW b \in Braces(At) PROVE \E m \in 2 .. e : stack[m - 1] = b
    OBVIOUS
  <2>1. PICK l \in 1 .. e - 1 : stack[l] = b
    BY <1>1
  <2>2. l + 1 \in 2 .. e /\ (l + 1) - 1 = l
    BY <1>1
  <2> QED BY <2>1, <2>2
<1>5. Meaning(name) = IF scopes # {} THEN Latest(InScope(Max(scopes))) ELSE Latest(ProgramVariables(name))
  BY DEF Meaning
<1>6. CASE scopes # {}
  <2> HIDE DEF InScope
  <2>1. PICK M : M = Max(scopes)
    OBVIOUS
  <2>2. M \in scopes /\ \A m \in scopes : M >= m
    <3>1. scopes \in SUBSET Nat /\ \A m \in scopes : m <= e
      BY <1>0, <1>1
    <3>2. e \in Nat
      BY <1>1
    <3> HIDE DEF scopes
    <3> QED BY <1>6, <2>1, <3>1, <3>2, MaxIsGreatest
  <2>3. M \in 2 .. e
    BY <1>0, <2>2
  <2>4. PICK b : b = stack[M - 1]
    OBVIOUS
  <2>5. /\ b \in near /\ M - 1 \in 1 .. e - 1
        /\ InScope(M) = {Recorded(j) : j \in InFrame(b, At, name)}
    <3> HIDE DEF scopes, near
    <3> QED BY <1>3, <2>2, <2>3, <2>4
  <2>6. near \in SUBSET Nat
    <3>1. Braces(At) \in SUBSET Nat
      BY <1>2, BracesAreBehind
    <3> QED BY <3>1 DEF Nearby
  <2>7. ASSUME NEW c \in near PROVE c <= b
    <3>1. PICK m \in 2 .. e : stack[m - 1] = c
      <4>1. c \in Braces(At)
        BY DEF Nearby
      <4> QED BY <1>4, <4>1
    <3>2. m \in scopes /\ m - 1 \in 1 .. e - 1
      <4> HIDE DEF scopes, near
      <4> QED BY <1>3, <2>7, <3>1
    <3>3. m <= M /\ m \in Nat /\ M \in Nat
      BY <1>1, <2>2, <2>3, <3>2
    <3>4. m - 1 = M - 1 \/ m - 1 < M - 1
      BY <3>3
    <3>5. c = b \/ c < b
      BY <1>1, <2>4, <2>5, <3>1, <3>2, <3>4
    <3>6. c \in Nat /\ b \in Nat
      BY <2>5, <2>6
    <3> QED BY <3>5, <3>6
  <2>9. Meaning(name) = Latest(InScope(M))
    <3> HIDE DEF scopes
    <3> QED BY <1>5, <1>6, <2>1
  <2>10. Meaning(name) = Max({0} \cup InFrame(b, At, name))
    BY <2>5, <2>9, LatestIs
  <2>11. MeantBy(At, name) = Max({0} \cup InFrame(b, At, name))
    BY <2>5, <2>6, <2>7, MeantIs
  <2> QED BY <2>10, <2>11
<1>7. CASE scopes = {}
  <2>1. near = {}
    <3> SUFFICES ASSUME NEW b \in near PROVE FALSE
      OBVIOUS
    <3>1. b \in Braces(At)
      BY DEF Nearby
    <3>2. PICK m \in 2 .. e : stack[m - 1] = b
      BY <1>4, <3>1
    <3>3. m \in scopes
      <4> HIDE DEF scopes, near, InScope
      <4> QED BY <1>3, <3>2
    <3> HIDE DEF scopes
    <3> QED BY <1>7, <3>3
  <2>2. Meaning(name) = Latest(ProgramVariables(name))
    <3> HIDE DEF scopes
    <3> QED BY <1>5, <1>7
  <2>3. env[1].declared = {Recorded(j) : j \in DeclaredFor(0)}
    <3>1. 1 \in 1 .. Len(env) /\ FramePos(1) = 0
      BY <1>0, <1>1 DEF FramePos
    <3> QED BY <3>1 DEF Recording
  <2>4. InFunction <=> \E b \in Braces(At) : RoleAt(b) = "function"
    <3>1. env[1].owner # "function"
      BY AuthorAssumption DEF AuthorInv
    <3>2. DOMAIN env = 1 .. e
      BY <1>0 DEF AuthorInv
    <3>3. \A l \in 1 .. e - 1 : RoleAt(stack[l]) = env[l + 1].owner
      BY <1>0 DEF Framed
    <3>4. ASSUME InFunction PROVE \E b \in Braces(At) : RoleAt(b) = "function"
      <4>1. PICK k \in 1 .. e : env[k].owner = "function"
        BY <3>2, <3>4 DEF InFunction
      <4>2. k # 1
        BY <3>1, <4>1
      <4>3. PICK l : l = k - 1
        OBVIOUS
      <4>4. l \in 1 .. e - 1 /\ l + 1 = k
        BY <1>1, <4>2, <4>3
      <4> QED BY <1>1, <3>3, <4>1, <4>4
    <3>5. ASSUME NEW b \in Braces(At), RoleAt(b) = "function" PROVE InFunction
      <4>1. PICK l \in 1 .. e - 1 : stack[l] = b
        BY <1>1
      <4>2. l + 1 \in 1 .. e
        BY <1>1
      <4> QED BY <3>2, <3>3, <3>5, <4>1, <4>2 DEF InFunction
    <3> QED BY <3>4, <3>5
  <2>5. \A j : Recorded(j).name = text[j].name /\ Recorded(j).block = OutermostAt(j)
    BY DEF Recorded
  <2>6. ProgramVariables(name) = {Recorded(j) : j \in Known(At, name)}
    <3>1. \A d : d \in ProgramVariables(name) <=>
                   /\ d \in env[1].declared /\ d.name = name
                   /\ d.block # "functions" /\ ~ InFunction /\ Rank(d.block) <= Rank(Block)
      BY DEF ProgramVariables, Named
    <3>2. \A j : j \in Known(At, name) <=>
                   /\ j \in DeclaredFor(0) /\ text[j].name = name /\ OutermostAt(j) # "functions"
                   /\ ~ InFunction /\ Rank(OutermostAt(j)) <= Rank(Block)
      BY <1>1, <2>4, Zenon DEF Known, DeclaredFor
    <3>3. \A d \in ProgramVariables(name) : \E j \in Known(At, name) : d = Recorded(j)
      <4> SUFFICES ASSUME NEW d \in ProgramVariables(name) PROVE \E j \in Known(At, name) : d = Recorded(j)
        OBVIOUS
      <4>1. PICK j \in DeclaredFor(0) : d = Recorded(j)
        BY <2>3, <3>1
      <4>2. j \in Known(At, name)
        BY <2>5, <3>1, <3>2, <4>1
      <4> QED BY <4>1, <4>2
    <3>4. \A j \in Known(At, name) : Recorded(j) \in ProgramVariables(name)
      BY <2>3, <2>5, <3>1, <3>2
    <3> QED BY <3>3, <3>4
  <2>7. Meaning(name) = Max({0} \cup Known(At, name))
    BY <2>2, <2>6, LatestIs
  <2> QED BY <2>1, <2>7, MeantIs
<1> QED BY <1>6, <1>7

(* What a use means stays as the text grows. *)
LEMMA MeantStays ==
  ASSUME DelimiterInv, EndsDeclare, NEW t \in Token, ReadToken(t), env'[1].owner = env[1].owner,
         NEW n, n = Len(text) + 1, NEW i \in 1 .. n, NEW name
  PROVE  MeantBy(i, name)' = MeantBy(i, name)
<1>1. /\ n \in Nat \ {0} /\ At = n
      /\ \A j \in 1 .. n - 1 : text'[j] = text[j] /\ RoleAt(j)' = RoleAt(j) /\ FrameOf(j)' = FrameOf(j)
      /\ \A j \in 1 .. n : /\ Braces(j)' = Braces(j) /\ HeldAt(j)' = HeldAt(j)
                           /\ OutermostAt(j)' = OutermostAt(j)
  BY ReadingKeeps
<1>2. text \in Seq(Token)
  BY DEF DelimiterInv, DelimiterTypeOK
<1>3. \A j \in Declared(i) : j \in 1 .. n - 1
  <2>1. i \in 1 .. Len(text) + 1
    OBVIOUS
  <2>2. \A j \in Declared(i) : j \in 1 .. i - 1
    BY <1>2, <2>1, DeclaredAre
  <2> QED BY <1>1, <2>2
<1>4. \A b \in Braces(i) : b \in 1 .. n - 1
  <2>1. \A b \in Braces(i) : b \in 1 .. i - 1
    BY <1>2, BracesAreBehind
  <2> QED BY <1>1, <2>1
<1>5. \A b \in Braces(i) : HeldAt(b) # 0 => HeldAt(b) \in 1 .. n - 1
  <2> SUFFICES ASSUME NEW b \in Braces(i), HeldAt(b) # 0 PROVE HeldAt(b) \in 1 .. n - 1
    OBVIOUS
  <2>1. b \in Nat \ {0} /\ b \in 1 .. n - 1
    BY <1>1, <1>4
  <2>2. HeldAt(b) \in 1 .. b - 1
    BY <1>2, <2>1, HeldIs
  <2> QED BY <1>1, <2>1, <2>2
<1>6. Declared(i)' = Declared(i)
  <2>1. \A j \in 1 .. i - 1 : j \in 1 .. n - 1 /\ j \in 1 .. n
    BY <1>1
  <2>2. {j \in 1 .. i - 1 : RoleAt(j)' = "names"} = {j \in 1 .. i - 1 : RoleAt(j) = "names"}
    BY <1>1, <2>1
  <2>3. {e \in 1 .. i - 1 : RoleAt(e)' = "ends"} = {e \in 1 .. i - 1 : RoleAt(e) = "ends"}
    BY <1>1, <2>1
  <2>4. {HeldAt(e)' : e \in {e \in 1 .. i - 1 : RoleAt(e)' = "ends"}}
          = {HeldAt(e) : e \in {e \in 1 .. i - 1 : RoleAt(e) = "ends"}}
    BY <1>1, <2>1, <2>3
  <2> QED BY <2>2, <2>4, Zenon DEF Declared
<1>7. \A b \in Braces(i) : InFrame(b, i, name)' = InFrame(b, i, name)
  <2> SUFFICES ASSUME NEW b \in Braces(i) PROVE InFrame(b, i, name)' = InFrame(b, i, name)
    OBVIOUS
  <2>1. HeldAt(b)' = HeldAt(b)
    BY <1>1, <1>4
  <2>2. {j \in Declared(i) : FrameOf(j)' = b} = {j \in Declared(i) : FrameOf(j) = b}
    BY <1>1, <1>3
  <2> DEFINE J == {j \in Declared(i) : FrameOf(j) = b} \cup ({HeldAt(b)} \ {0})
  <2>3. InFrame(b, i, name) = {j \in J : text[j].name = name}
    BY DEF InFrame
  <2>4. InFrame(b, i, name)' = {j \in J : text'[j].name = name}
    BY <1>6, <2>1, <2>2, Zenon DEF InFrame
  <2>5. \A j \in J : text'[j] = text[j]
    BY <1>1, <1>3, <1>5
  <2> HIDE DEF J
  <2> QED BY <2>3, <2>4, <2>5
<1>8. Nearby(i, name)' = Nearby(i, name)
  <2>1. Braces(i)' = Braces(i)
    BY <1>1
  <2>2. Nearby(i, name)' = {b \in Braces(i) : InFrame(b, i, name)' # {}}
    BY <2>1, Zenon DEF Nearby
  <2> QED BY <1>7, <2>2 DEF Nearby
<1>9. Nearest(i, name)' = Nearest(i, name)
  BY <1>8, Zenon DEF Nearest
<1>10. UNION {InFrame(b, i, name)' : b \in Nearest(i, name)} = UNION {InFrame(b, i, name) : b \in Nearest(i, name)}
  <2>1. \A b \in Nearest(i, name) : InFrame(b, i, name)' = InFrame(b, i, name)
    BY <1>7 DEF Nearest, Nearby
  <2> QED BY <2>1
<1>11. Known(i, name)' = Known(i, name)
  <2>1. Braces(i)' = Braces(i) /\ OutermostAt(i)' = OutermostAt(i)
    BY <1>1
  <2>2. \A b \in Braces(i) : RoleAt(b)' = RoleAt(b)
    BY <1>1, <1>4
  <2>3. \A j \in Declared(i) : /\ FrameOf(j)' = FrameOf(j) /\ text'[j] = text[j]
                               /\ OutermostAt(j)' = OutermostAt(j)
    <3>1. \A j \in Declared(i) : j \in 1 .. n
      BY <1>1, <1>3
    <3> QED BY <1>1, <1>3, <3>1
  <2>4. \A j : j \in Known(i, name) <=>
             /\ j \in Declared(i) /\ FrameOf(j) = 0 /\ text[j].name = name /\ OutermostAt(j) # "functions"
             /\ \A b \in Braces(i) : RoleAt(b) # "function"
             /\ Rank(OutermostAt(j)) <= Rank(OutermostAt(i))
    BY DEF Known
  <2>5. \A j : j \in Known(i, name)' <=>
             /\ j \in Declared(i) /\ FrameOf(j)' = 0 /\ text'[j].name = name /\ OutermostAt(j)' # "functions"
             /\ \A b \in Braces(i) : RoleAt(b)' # "function"
             /\ Rank(OutermostAt(j))' <= Rank(OutermostAt(i))'
    BY <1>6, <2>1 DEF Known
  <2>6. /\ \A j \in Declared(i) : Rank(OutermostAt(j))' = Rank(OutermostAt(j))
        /\ Rank(OutermostAt(i))' = Rank(OutermostAt(i))
    BY <2>1, <2>3 DEF Rank
  <2>7. \A j : j \in Known(i, name)' <=> j \in Known(i, name)
    BY <2>2, <2>3, <2>4, <2>5, <2>6
  <2> QED BY <2>7
<1> QED BY <1>8, <1>9, <1>10, <1>11, Zenon DEF MeantBy

(* Each use is bound to what is meant by its name there. *)
Binding ==
  /\ DOMAIN bindings = {i \in 1 .. Len(text) : RoleAt(i) = "use"}
  /\ \A i \in DOMAIN bindings : \A name : text[i].name = name => bindings[i] = MeantBy(i, name)

(* What was read before is bound as it was, and a use that is read now to what
   the author means by it. *)
LEMMA BindingKeeps ==
  ASSUME DelimiterInv, AuthorInv, Framed, Recording, Binding, NEW t, NEW form, NEW k, Reads(t, form, k)
  PROVE  Binding'
<1>0. PICK n : n = Len(text) + 1
  OBVIOUS
<1>1. t \in Token /\ ReadToken(t) /\ Means(t) /\ (t.role = "leaves" => Len(env) > 1)
  BY DEF Reads
<1>2. env'[1].owner = env[1].owner
  <2>1. PICK e : e = Len(env)
    OBVIOUS
  <2> QED BY <1>1, <2>1, ScopesMove
<1>3. EndsDeclare
  BY DEF Recording
<1>4. /\ n \in Nat \ {0} /\ At = n /\ Len(text') = n /\ text'[n] = t /\ RoleAt(n)' = t.role
      /\ \A i \in 1 .. n - 1 : text'[i] = text[i] /\ RoleAt(i)' = RoleAt(i)
  BY <1>0, <1>1, <1>2, ReadingKeeps
<1>5. \A i \in 1 .. n : \A name : MeantBy(i, name)' = MeantBy(i, name)
  BY <1>0, <1>1, <1>2, <1>3, MeantStays
<1>6. 1 .. Len(text) = 1 .. n - 1 /\ 1 .. Len(text') = 1 .. n /\ 1 .. n = (1 .. n - 1) \cup {n} /\ n \notin 1 .. n - 1
  <2>1. Len(text) \in Nat
    BY DEF DelimiterInv, DelimiterTypeOK
  <2> QED BY <1>0, <1>4, <2>1
<1>7. {i \in 1 .. Len(text') : RoleAt(i)' = "use"} = DOMAIN bindings \cup (IF t.role = "use" THEN {n} ELSE {})
  <2>1. \A i : i \in {j \in 1 .. Len(text') : RoleAt(j)' = "use"} <=>
                 (i \in 1 .. n - 1 /\ RoleAt(i) = "use") \/ (i = n /\ t.role = "use")
    BY <1>4, <1>6
  <2>2. \A i : i \in DOMAIN bindings <=> i \in 1 .. n - 1 /\ RoleAt(i) = "use"
    BY <1>6 DEF Binding
  <2> QED BY <2>1, <2>2
<1>8. \A i \in DOMAIN bindings : i \in 1 .. n - 1 /\ \A name : text[i].name = name => bindings[i] = MeantBy(i, name)
  BY <1>6 DEF Binding
<1>9. ASSUME NEW i \in DOMAIN bindings, NEW name, text'[i].name = name
      PROVE  bindings[i] = MeantBy(i, name)'
  <2>1. i \in 1 .. n - 1 /\ i \in 1 .. n
    BY <1>6, <1>8
  <2>2. bindings[i] = MeantBy(i, name)
    BY <1>4, <1>8, <1>9, <2>1
  <2> QED BY <1>5, <2>1, <2>2
<1>10. CASE t.role = "use"
  <2>1. bindings' = [i \in DOMAIN bindings \cup {n} |-> IF i = n THEN Meaning(t.name) ELSE bindings[i]]
    BY <1>0, <1>1, <1>10 DEF Means, Owners
  <2>2. Meaning(t.name) = MeantBy(n, t.name)
    <3>1. PICK name : name = t.name
      OBVIOUS
    <3> QED BY <1>4, <3>1, MeaningIs
  <2>3. PICK name : name = t.name
    OBVIOUS
  <2>4. MeantBy(n, name)' = MeantBy(n, name)
    <3>1. n \in 1 .. n
      BY <1>4
    <3> QED BY <1>5, <3>1
  <2>5. bindings'[n] = MeantBy(n, name)' /\ text'[n].name = name
    BY <1>4, <2>1, <2>2, <2>3, <2>4
  <2>6. \A i \in DOMAIN bindings : bindings'[i] = bindings[i]
    BY <1>6, <1>8, <2>1
  <2>7. DOMAIN bindings' = DOMAIN bindings \cup {n}
    BY <2>1
  <2>8. DOMAIN bindings' = {i \in 1 .. Len(text') : RoleAt(i)' = "use"}
    BY <1>7, <1>10, <2>7
  <2>9. \A i \in DOMAIN bindings' : \A x : text'[i].name = x => bindings'[i] = MeantBy(i, x)'
    BY <1>9, <2>5, <2>6, <2>7
  <2> QED BY <2>8, <2>9 DEF Binding
<1>11. CASE t.role # "use"
  <2>1. bindings' = bindings
    BY <1>1, <1>11 DEF Means
  <2>2. DOMAIN bindings' = {i \in 1 .. Len(text') : RoleAt(i)' = "use"}
    BY <1>7, <1>11, <2>1
  <2>3. \A i \in DOMAIN bindings' : \A name : text'[i].name = name => bindings'[i] = MeantBy(i, name)'
    BY <1>9, <2>1
  <2> QED BY <2>2, <2>3 DEF Binding
<1> QED BY <1>10, <1>11

(* Steps that leave the record alone leave what is meant alone. *)
LEMMA BindingStays ==
  ASSUME UNCHANGED recordVars, Binding
  PROVE  Binding'
<1>1. /\ text' = text /\ stack' = stack /\ pairs' = pairs /\ env' = env /\ bindings' = bindings
  BY DEF recordVars
<1>2. \A i : RoleAt(i)' = RoleAt(i) /\ KindAt(i)' = KindAt(i)
  BY <1>1, Zenon DEF RoleAt, KindAt
<1>3. \A i : Braces(i)' = Braces(i) /\ StatementStart(i)' = StatementStart(i)
  BY <1>1, <1>2, Zenon DEF Braces, StatementStart
<1>4. \A i : /\ HeldAt(i)' = HeldAt(i) /\ OutermostAt(i)' = OutermostAt(i)
             /\ OwnerAt(i)' = OwnerAt(i) /\ Innermost(i)' = Innermost(i) /\ FrameOf(i)' = FrameOf(i)
  BY <1>1, <1>2, <1>3, Zenon DEF HeldAt, OutermostAt, OwnerAt, Innermost, FrameOf
<1>5. \A i : Declared(i)' = Declared(i)
  BY <1>1, <1>2, <1>4, Zenon DEF Declared
<1>6. \A b, i, name : InFrame(b, i, name)' = InFrame(b, i, name)
  BY <1>1, <1>4, <1>5, Zenon DEF InFrame
<1>7. \A i, name : Nearby(i, name)' = Nearby(i, name)
  BY <1>3, <1>6, Zenon DEF Nearby
<1>8. \A i, name : Nearest(i, name)' = Nearest(i, name)
  BY <1>7, Zenon DEF Nearest
<1>9. \A i, name : Known(i, name)' = Known(i, name)
  <2>1. \A i : Rank(OutermostAt(i))' = Rank(OutermostAt(i))
    BY <1>4 DEF Rank
  <2> QED BY <1>1, <1>2, <1>3, <1>4, <1>5, <2>1, Zenon DEF Known
<1>10. \A i, name : MeantBy(i, name)' = MeantBy(i, name)
  BY <1>6, <1>7, <1>8, <1>9, Zenon DEF MeantBy
<1> QED BY <1>1, <1>2, <1>10 DEF Binding

(* What each use is meant to be bound to *)
BindInv == slips = 0 => Binding

(* As long as no token is left out, what the author means by each use is what *)
(* the text and its delimiter pairs say of the place where it stands: the     *)
(* latest declaration of its name in the nearest scope around it that has one *)
(* by then, or a variable of a program block that its own can see. What is    *)
(* written later changes nothing of it.                                       *)
LEMMA UsesAreBound == Spec => []BindInv
<1>1. Init => BindInv
  <2> SUFFICES ASSUME Init PROVE Binding
    BY DEF BindInv
  <2>1. text = <<>> /\ bindings = <<>>
    BY DEF Init, DelimiterInit
  <2>2. DOMAIN bindings = {} /\ 1 .. Len(text) = {}
    BY <2>1
  <2> QED BY <2>2 DEF Binding
<1>2. AnalysisInv /\ AuthorInv /\ LaidInv /\ FormInv /\ FrameInv /\ RecordInv /\ BindInv /\ [Next]_vars => BindInv'
  <2> SUFFICES ASSUME AnalysisInv, AuthorInv, LaidInv, FormInv, FrameInv, RecordInv, BindInv, [Next]_vars,
                      slips' = 0
               PROVE  Binding'
    BY DEF BindInv
  <2>1. /\ slips = 0
        /\ \/ UNCHANGED recordVars
           \/ \E t \in Token, form \in Forms : \E k \in 1 .. Len(form.kinds) : Reads(t, form, k)
    BY StepsRead
  <2>2. DelimiterInv /\ Framed /\ Recording /\ Binding
    BY <2>1 DEF AnalysisInv, FrameInv, RecordInv, BindInv
  <2>3. CASE UNCHANGED recordVars
    BY <2>2, <2>3, BindingStays
  <2>4. CASE \E t \in Token, form \in Forms : \E k \in 1 .. Len(form.kinds) : Reads(t, form, k)
    BY <2>2, <2>4, BindingKeeps
  <2> QED BY <2>1, <2>3, <2>4
<1> QED
  BY <1>1, <1>2, DelimitersHold, RecordsHold, TextsAreLaid, TextsAreFormed, FramesHold, RecordsAreInText, PTL
     DEF Spec
===============================================================================
