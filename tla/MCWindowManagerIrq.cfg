CONSTANTS
  term = term
  note = note
  calc = calc
  Win <- MCWin
  Term = term
  None = None
SPECIFICATION Spec
INVARIANTS TermStaysListed
