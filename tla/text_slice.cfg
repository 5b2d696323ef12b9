SPECIFICATION LexerSpec
CONSTANTS
  Texts <- MCTexts
  MaxLine = 4
  MaxColumn = 3
INVARIANT NamesStartAtCharacters
CHECK_DEADLOCK FALSE
