CONSTANTS
  Width = 2
  MaxDepth = 4
  IncludesComplete = TRUE
SPECIFICATION Spec
INVARIANTS TypeOK TokensSurvive OnlyCommasWaver LinesAreIndented
