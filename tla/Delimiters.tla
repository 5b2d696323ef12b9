------------------------------ MODULE Delimiters ------------------------------
(***************************************************************************)
(* match_delimiters of parser.rs: one pass over the significant tokens of  *)
(* a text, with a stack of the openers that wait for their closer. The     *)
(* pass never goes back, so a text that grows at its end extends it; the   *)
(* text is therefore read here as it is written. Positions are those of    *)
(* the significant tokens; blanks and comments are not among them.         *)
(***************************************************************************)
EXTENDS Naturals, Sequences

CONSTANT Names    \* of identifiers, and "" for the tokens that have none

VARIABLES
  text,       \* the significant tokens read so far
  stack,      \* positions of the open openers, the innermost last
  pairs,      \* delimiter_pairs: from the position of an opener to its closer's
  unmatched   \* positions of the closers reported as unmatched

delimiterVars == <<text, stack, pairs, unmatched>>

Openers   == {"leftBrace", "leftParen", "leftBracket"}
Closers   == {"rightBrace", "rightParen", "rightBracket"}
BlockWords == {"functions", "data", "transformed", "parameters", "model",
               "generated", "quantities"}
Kinds == Openers \cup Closers \cup BlockWords \cup
         {"lessThan", "greaterThan", "comma", "semicolon", "assign", "tilde",
          "for", "in", "type", "identifier"}

(* What the author of the text means by a token: nothing, or that it uses or *)
(* declares a name, ends a declaration, opens a scope (the role is the       *)
(* scope's owner) or leaves one. No part of the program sees it.             *)
Owners == {"functions", "data", "transformedData", "parameters",
           "transformedParameters", "model", "generatedQuantities",
           "function", "loop", "block"}
Roles == {"none", "use", "declares", "names", "ends", "leaves"} \cup Owners

Token == [kind : Kinds, name : Names, role : Roles]

(* matching_open *)
MatchingOpen(kind) ==
  IF kind = "rightBrace" THEN "leftBrace"
  ELSE IF kind = "rightParen" THEN "leftParen" ELSE "leftBracket"

(* A mutant: any closer closes the opener on top. *)
ClosesAnyTop(kind) == kind \in Closers /\ stack # <<>>

ClosesTop(kind) ==
  /\ kind \in Closers
  /\ stack # <<>>
  /\ text[stack[Len(stack)]].kind = MatchingOpen(kind)

PushOpener(t) ==
  /\ t.kind \in Openers
  /\ stack' = Append(stack, Len(text) + 1)
  /\ UNCHANGED <<pairs, unmatched>>

PairCloser(t) ==
  /\ ClosesTop(t.kind)
  /\ pairs' = [i \in DOMAIN pairs \cup {stack[Len(stack)]} |->
                 IF i = stack[Len(stack)] THEN Len(text) + 1 ELSE pairs[i]]
  /\ stack' = SubSeq(stack, 1, Len(stack) - 1)
  /\ UNCHANGED unmatched

(* A mutant: the mismatched opener is dropped with the closer. *)
ReportCloserAndOpener(t) ==
  /\ t.kind \in Closers
  /\ ~ ClosesTop(t.kind)
  /\ unmatched' = unmatched \cup {Len(text) + 1}
  /\ stack' = IF stack = <<>> THEN <<>> ELSE SubSeq(stack, 1, Len(stack) - 1)
  /\ UNCHANGED pairs

(* The opener on top stays there for a closer of its own kind. *)
ReportCloser(t) ==
  /\ t.kind \in Closers
  /\ ~ ClosesTop(t.kind)
  /\ unmatched' = unmatched \cup {Len(text) + 1}
  /\ UNCHANGED <<stack, pairs>>

SkipToken(t) ==
  /\ t.kind \notin Openers \cup Closers
  /\ UNCHANGED <<stack, pairs, unmatched>>

ReadToken(t) ==
  /\ text' = Append(text, t)
  /\ \/ PushOpener(t)
     \/ PairCloser(t)
     \/ ReportCloser(t)
     \/ SkipToken(t)

DelimiterInit ==
  /\ text = <<>>
  /\ stack = <<>>
  /\ pairs = <<>>
  /\ unmatched = {}

DelimiterSpec == DelimiterInit /\ [][\E t \in Token : ReadToken(t)]_delimiterVars

-----------------------------------------------------------------------------
(* Properties *)

DelimiterTypeOK ==
  /\ text \in Seq(Token)
  /\ stack \in Seq(1 .. Len(text))
  /\ DOMAIN pairs \subseteq 1 .. Len(text)
  /\ pairs \in [DOMAIN pairs -> 1 .. Len(text)]
  /\ unmatched \subseteq 1 .. Len(text)

(* What is between the two delimiters of a pair is balanced but for stray     *)
(* closers: every opener there is paired, with a closer of its kind, before   *)
(* the pair ends. All ranges of the tree are built from pairs, and taking the *)
(* smallest range around an offset for the innermost one relies on this.      *)
PairsNest ==
  \A i \in DOMAIN pairs :
    /\ i < pairs[i]
    /\ text[i].kind = MatchingOpen(text[pairs[i]].kind)
    /\ text[pairs[i]].kind \in Closers
    /\ \A j \in i + 1 .. pairs[i] - 1 :
         text[j].kind \in Openers => j \in DOMAIN pairs /\ pairs[j] < pairs[i]

(* Each delimiter is reported or paired, never both and never twice: the      *)
(* openers left on the stack become unclosed-delimiter errors, the closers in *)
(* unmatched are errors already.                                              *)
DelimitersAreAccountedFor ==
  /\ \A i \in DOMAIN text :
       /\ text[i].kind \in Openers =>
            (i \in DOMAIN pairs <=> ~ \E k \in DOMAIN stack : stack[k] = i)
       /\ text[i].kind \in Closers =>
            (i \in unmatched <=> ~ \E j \in DOMAIN pairs : pairs[j] = i)
  /\ \A j, k \in DOMAIN pairs : pairs[j] = pairs[k] => j = k
==============================================================================
