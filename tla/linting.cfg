SPECIFICATION Spec
CONSTANTS
  Names = {"n", "v", "z", "i", "two", "inverse", "rng", "nrm", "odd", "nrm_lpdf", ""}
  Margin = 1
  Signatures <- MCSignatures
  DataArguments <- MCDataArguments
  Contexts <- MCContexts
  Distributions <- MCDistributions
  Blocks = {"model", "generatedQuantities"}
  Functions = {"two", "inverse", "rng"}
  Drawn = {"nrm", "odd"}
  Forms = {"sampling", "loop", "call", "given", "group", "prefix", "infix", "index"}
  MaxForms = 3
  MaxSlips = 1
  SlipCost = 2
INVARIANTS
  ExpressionsAsGrammar
  LintsAreTrue
  OpenCallsAreHelped
CHECK_DEADLOCK FALSE
