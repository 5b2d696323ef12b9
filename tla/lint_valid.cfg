SPECIFICATION Spec
CONSTANTS
  Names = {"n", "v", "z", "i", "two", "inverse", "rng", "nrm", "odd", "nrm_lpdf", ""}
  Margin = 1
  Signatures <- MCSignatures
  DataArguments <- MCDataArguments
  Contexts <- MCContexts
  Distributions <- MCDistributions
  Blocks = {"generatedQuantities"}
  Functions = {}
  Drawn = {"nrm"}
  Forms = {"given"}
  MaxForms = 1
  MaxSlips = 0
  SlipCost = 2
INVARIANT ValidProgramsHaveNoErrors
CHECK_DEADLOCK FALSE
