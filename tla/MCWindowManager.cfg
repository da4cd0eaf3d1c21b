CONSTANTS
  term = term
  note = note
  expl = expl
  calc = calc
  App <- MCApp
  EscApp <- MCEsc
  MenuApp <- MCApp
  DockApp <- SmallApp
  IconApp <- SmallApp
  Term = term
  Note = note
  Expl = expl
  NoApp = NoApp
  MaxWins = 3
  MaxSlots = {0}
  Patience = 1
SPECIFICATION FairSpec
INVARIANTS ZOrderExact OneWindowPerApp FocusOnTop DragOnScreen
PROPERTIES RaisedOnlyByFocus SwitcherEnds
CHECK_DEADLOCK FALSE
