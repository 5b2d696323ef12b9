CONSTANTS
  a = a  b = b  c = c
  Paths = {a, b, c}
  Indexes <- SmallIndexes
SPECIFICATION Spec
INVARIANTS TypeOK ReportedCyclesAreReal SilenceMeansAcyclic
PROPERTIES WalkEnds
