SPECIFICATION Spec
CONSTANTS
  Sources <- MCSources
  Garbled <- MCGarbled
  MaxTexts = 2
  MaxIndentLevels = 7
  MaxParserDepth = 30
INVARIANTS
  RoundTrip
  PrintedAgain
  LayoutIsNesting
PROPERTY
  ReadingKeepsDepth
CHECK_DEADLOCK FALSE
