--------------------------- MODULE MCIncludeCycles ---------------------------
(* Every include graph on three files, with up to two directives a file,    *)
(* any of them outside the index.                                           *)
EXTENDS IncludeCycles

CONSTANTS a, b, c

MaxIncludes == 2
Lists       == UNION {[1 .. n -> Paths] : n \in 0 .. MaxIncludes}

KeysOf(indexed) == SelectSeq(<<a, b, c>>, LAMBDA p : p \in indexed)

GraphsOver(indexed) ==
  {deps \in [Paths -> Lists] : \A p \in Paths \ indexed : deps[p] = <<>>}

SmallIndexes ==
  UNION {{[keys |-> KeysOf(indexed), dependencies |-> deps] : deps \in GraphsOver(indexed)}
           : indexed \in SUBSET Paths}
=============================================================================
