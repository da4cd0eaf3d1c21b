CONSTANTS
  a = a
  nl = nl
  Char <- MCChar
  NL = nl
  EditMax = 5
  FileMax = 3
  Rows = 2
  Cols = 2
SPECIFICATION EditorSpec
CHECK_DEADLOCK FALSE
INVARIANTS CursorOnScreen SavedMeansSaved
PROPERTIES TextSpec

