--------------------------------- MODULE MCText --------------------------------
(***************************************************************************)
(* Texts for the lexer and the conversions: every text over one of several *)
(* small alphabets, each the characters one branch of the lexer, or one    *)
(* conversion, is about, with a length that lets every case happen.        *)
(***************************************************************************)
EXTENDS TextFeatures

Over(alphabet, length) == UNION {[1 .. n -> alphabet] : n \in 0 .. length}

MCTexts ==
  UNION {Over({"1", ".", "_", "e", "-", "i"}, 5),
         Over({"/", "*", "quote", "backslash", "LF", "a"}, 5),
         Over({"#include", "#", "a", "quote", " ", "LF", "CR"}, 4),
         Over({"LF", "CR", "wide", "theta", "("}, 5),
         Over({"<", "-", "=", ".", "*", "/"}, 4),
         Over({"//allow", "all", " ", "LF", "CR", "real", "lp__"}, 4)}
================================================================================
