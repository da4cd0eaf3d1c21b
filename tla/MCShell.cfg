CONSTANTS
  Glyph <- MCGlyph
  Char <- MCChar
  Names <- MCNames
  Prompt <- MCPrompt
  NestedPrompt <- MCNested
  Out <- MCOut
  Junk = Junk
  Cols = 4
  TermCells = 6
  TabStop = 2
  LineMax = 3
  HistMax = 2
  CapSize = 3
  MaxOut = 1
  MaxCalls = 2
SPECIFICATION Spec
CHECK_DEADLOCK FALSE
INVARIANTS LineShown CaptureIsLive
PROPERTIES RedirectExact
