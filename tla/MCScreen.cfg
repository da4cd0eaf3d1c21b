SPECIFICATION ScreenFairSpec
CONSTANTS
  Rect <- MCRect
  NoCmd = NoCmd
  CmdWords = 1
  Words = 2
  Width = 2
  Pointer = {0}
  Bare <- MCBare
INVARIANTS AllDrawn CursorDrawn AllSeen
PROPERTIES  DrawnInTheEnd
