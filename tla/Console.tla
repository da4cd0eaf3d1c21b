------------------------------ MODULE Console ------------------------------
(***************************************************************************)
(* What console_putc (kernel.c) does with a character on the two screens:  *)
(* text mode (vga.c) and the terminal window (gui.c).  A screen is the row *)
(* the cursor is in, the column, and the state of the parser of colours.   *)
(*                                                                         *)
(* In text mode a row has Cols cells.  In the terminal it is a string: a   *)
(* zero byte is stored behind each character written, and drawing stops at *)
(* the zero, so row is the part before it and never ends left of col.      *)
(* The other rows and the colours are left out: below the cursor both      *)
(* screens are empty.  Nothing the shell runs prints a backspace.          *)
(***************************************************************************)
EXTENDS Integers, Sequences

CONSTANTS
  Cols,        \* VGA_COLS; term_cols
  TermCells,   \* TERM_COLS: the cells of a row of the terminal
  TabStop      \* 8

ASSUME ConsoleAssumption ==
  /\ Cols \in Nat \ {0} /\ TermCells \in Nat /\ TermCells > Cols
  /\ TabStop \in Nat \ {0}

Spaces(n) == [k \in 1 .. n |-> " "]

\* The first k characters of s.
Take(s, k) == IF Len(s) <= k THEN s ELSE SubSeq(s, 1, k)

\* term_newline; the end of vga_put_char, with vga_scroll.
Newline(s) == [s EXCEPT !.row = IF s.gui THEN <<>> ELSE Spaces(Cols), !.col = 0]

\* term_clear, vga_clear_screen.
Cleared(s) == Newline(s)

\* In the terminal a full row is left when the next character comes, ...
TermChar(s, c) ==
  LET t == IF s.col >= Cols THEN Newline(s) ELSE s
  IN  [t EXCEPT !.row = Append(Take(t.row, t.col), c), !.col = t.col + 1]

\* ... in text mode as soon as it is full.
VgaChar(s, c) ==
  LET t == [s EXCEPT !.row[s.col + 1] = c, !.col = s.col + 1]
  IN  IF t.col >= Cols THEN Newline(t) ELSE t

NextTab(s) == (s.col \div TabStop + 1) * TabStop

\* The loop of term_putc fills with blanks up to a multiple of TabStop; in the last
\* cell of a row it stands still.
TabHangs(s) == s.gui /\ NextTab(s) > TermCells - 1

Tabbed(s) ==
  IF s.gui
    THEN [s EXCEPT !.row = Take(s.row, s.col) \o Spaces(NextTab(s) - s.col), !.col = NextTab(s)]
    ELSE IF NextTab(s) >= Cols THEN Newline(s) ELSE [s EXCEPT !.col = NextTab(s)]

\* term_putc, vga_put_char.
Display(s, c) ==
  CASE c = "CR"  -> [s EXCEPT !.col = 0]
    [] c = "LF"  -> Newline(s)
    [] c = "TAB" -> Tabbed(s)
    [] OTHER     -> IF s.gui THEN TermChar(s, c) ELSE VgaChar(s, c)

\* console_esc: after an escape the parser takes "[", then digits ("0" stands for all
\* of them and for the semicolon), and whatever comes next ends the sequence unseen.
Parsed(s, c) ==
  CASE s.esc = "none"   -> IF c = "ESC" THEN "escape" ELSE "none"
    [] s.esc = "escape" -> IF c = "[" THEN "digits" ELSE "none"
    [] s.esc = "digits" -> IF c = "0" THEN "digits" ELSE "none"

Putc(s, c) ==
  LET t == [s EXCEPT !.esc = Parsed(s, c)]
  IN  IF s.esc = "none" /\ c # "ESC" THEN Display(t, c) ELSE t

Puts(s, str) ==
  LET after[k \in 0 .. Len(str)] ==
        IF k = 0 THEN s ELSE Putc(after[k - 1], str[k])
  IN  after[Len(str)]

EmptyScreen(gui) ==
  [gui |-> gui, row |-> IF gui THEN <<>> ELSE Spaces(Cols), col |-> 0, esc |-> "none"]
=============================================================================
