SPECIFICATION Spec
CONSTANTS
  Names = {"x", "f", "z", ""}
  Margin = 1
  VariableNames = {"x"}
  FunctionNames = {"f", "x"}
  FreshName = "z"
  MaxPhrases = 7
  MaxSlips = 1
  SlipCost = 3
  Files = {"program", "functions"}
INVARIANTS
  TypeOK
  PairsNest
  DelimitersAreAccountedFor
  ModelIsValid
  ScopesNest
  UsesResolve
  DuplicatesAreReported
  FreshRenamesAreSafe
  HierarchiesAgree
CHECK_DEADLOCK FALSE
