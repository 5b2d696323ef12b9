SPECIFICATION LexerSpec
CONSTANTS
  Texts <- MCTexts
  MaxLine = 4
  MaxColumn = 3
INVARIANTS
  TokensCoverText
  PathsFollowDirectives
  CommentsAndStringsAsScanned
  PositionsAreTheClients
  SemanticTokensDecode
  CompilerRangesAreShown
  SuppressionsReachTheNextLine
CHECK_DEADLOCK FALSE
