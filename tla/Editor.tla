------------------------------- MODULE Editor -------------------------------
(***************************************************************************)
(* The two text editors: edit.c, on the whole console, and the Notepad     *)
(* (gui.c), in a window.  Both keep an array, a length and a cursor, and   *)
(* the index of the first character shown.  edit.c draws before each key;  *)
(* the Notepad is drawn by gui_draw, whenever that comes.                  *)
(*                                                                         *)
(* The array keeps what was behind the end of the text: draw_note_client   *)
(* and edit_file look at it when the first character shown is behind the   *)
(* end.                                                                    *)
(***************************************************************************)
EXTENDS Integers, Sequences, FiniteSets, FiniteSetsExt

CONSTANTS
  Char, NL,     \* the characters, the line feed among them
  EditMax,      \* EDIT_MAX, NOTE_MAX: the cells of the array
  FileMax,      \* the longest text fs_write takes
  Rows, Cols    \* of the console, and of the window of the Notepad

ASSUME EditorAssumption ==
  /\ NL \in Char /\ EditMax \in Nat \ {0, 1} /\ FileMax \in 0 .. EditMax
  /\ Rows \in Nat \ {0} /\ Cols \in Nat \ {0}

VARIABLES
  windowed,     \* the Notepad, not edit.c
  buf, len, cur,
  top, view,    \* the first character and the first column shown
  topLine,      \* the line the first row was taken for when the screen was last drawn
  file,         \* what the file system holds under the path
  flash,        \* saved_flash, note_saved_flash
  drawn,        \* the screen shows the text as it is
  claim,        \* the status line says that the file is saved
  open

editorVars == <<windowed, buf, len, cur, top, view, topLine, file, flash, drawn, claim, open>>

Cell == 0 .. EditMax - 1
BufText == [i \in 1 .. len |-> buf[i - 1]]
Newlines(i) == {k \in 0 .. i - 1 : buf[k] = NL}
LineOf(i) == Cardinality(Newlines(i))

LineStart(i) == IF Newlines(i) = {} THEN 0 ELSE Max(Newlines(i)) + 1
\* From behind the end of the text the loop does not move.
LineEnd(i) ==
  IF i >= len THEN i ELSE Min({len} \cup {k \in i .. len - 1 : buf[k] = NL})

AtMost(a, b) == IF a > b THEN b ELSE a
---------------------------------------------------------------------------
(* Scrolling: one step of each loop that is to make the cursor visible.   *)

\* Up by a line, or by the line feed at its end alone.
ScrollUp(s) ==
  [top  |-> IF buf[s.top - 1] = NL THEN s.top - 1 ELSE LineStart(s.top - 1),
   line |-> s.line - 1]

ScrollDown(s) ==
  [top  |-> IF LineEnd(s.top) < len THEN LineEnd(s.top) + 1 ELSE len,
   line |-> s.line + 1]

Place == [top : 0 .. EditMax, line : 0 .. EditMax]
Above(s) == LineOf(cur) < s.line /\ s.top > 0

\* Mutant: the screen is scrolled one row too late.
BelowLate(s) == LineOf(cur) > s.line + Rows /\ (windowed => s.top < len)

Below(s) == LineOf(cur) >= s.line + Rows /\ (windowed => s.top < len)

\* The two loops, as many rounds as there are lines.
up[s \in Place]   == IF Above(s) THEN up[ScrollUp(s)] ELSE s
down[s \in Place] == IF Below(s) THEN down[ScrollDown(s)] ELSE s
Scrolled == down[up[[top |-> top, line |-> LineOf(top)]]]

Column == cur - LineStart(cur)
ViewAfter ==
  IF Column < view THEN Column
  ELSE IF Column >= view + Cols THEN Column - Cols + 1 ELSE view

\* edit_render with the loops before it, draw_note_client.  To place the cursor
\* edit_render counts the lines before top again.
Draw ==
  /\ open /\ ~drawn /\ drawn' = TRUE
  /\ top' = Scrolled.top /\ view' = ViewAfter
  /\ topLine' = IF windowed THEN Scrolled.line ELSE LineOf(Scrolled.top)
  /\ claim' = flash /\ flash' = FALSE
  /\ UNCHANGED <<windowed, buf, len, cur, file, open>>
---------------------------------------------------------------------------
(* Keys. *)

Reads == open /\ (windowed \/ drawn)

Edited(b, n, c) ==
  /\ buf' = b /\ len' = n /\ cur' = c /\ drawn' = FALSE /\ claim' = FALSE
  /\ UNCHANGED <<windowed, top, view, topLine, file, flash, open>>

MoveTo(c) == Edited(buf, len, c)

\* memmove of the cells from..len-1 by d cells.
Moved(from, d) ==
  [i \in Cell |-> IF i - d \in from .. len - 1 THEN buf[i - d] ELSE buf[i]]

\* Mutant: the end of the text is not moved.
InsertOver(c) ==
  /\ Reads /\ len < EditMax - 1
  /\ Edited([buf EXCEPT ![cur] = c], len + 1, cur + 1)

Insert(c) ==
  /\ Reads /\ len < EditMax - 1
  /\ Edited([Moved(cur, 1) EXCEPT ![cur] = c], len + 1, cur + 1)

Backspace == Reads /\ cur > 0 /\ Edited(Moved(cur, -1), len - 1, cur - 1)

DeleteKey == Reads /\ cur < len /\ Edited(Moved(cur + 1, -1), len - 1, cur)

MoveLeft  == Reads /\ cur > 0 /\ MoveTo(cur - 1)
MoveRight == Reads /\ cur < len /\ MoveTo(cur + 1)
MoveHome  == Reads /\ MoveTo(LineStart(cur))
MoveEnd   == Reads /\ MoveTo(LineEnd(cur))

MoveUp ==
  LET prev == LineStart(LineStart(cur) - 1)
  IN  /\ Reads /\ LineStart(cur) > 0
      /\ MoveTo(AtMost(prev + Column, LineEnd(prev)))

MoveDown ==
  LET next == LineEnd(cur) + 1
  IN  /\ Reads /\ LineEnd(cur) < len
      /\ MoveTo(AtMost(next + Column, LineEnd(next)))

\* A key that does nothing, in any of the branches above.
Ignored == Reads /\ MoveTo(cur)

\* fs_write may fail for the length of the text or a full table.
Written(ok) == file' = IF ok THEN BufText ELSE file
CanSave(ok) == ok => len <= FileMax

\* Mutant: edit.c claims too much as well.
SaveBoasting(ok) ==
  /\ Reads /\ CanSave(ok) /\ Written(ok)
  /\ flash' = TRUE /\ drawn' = FALSE /\ claim' = FALSE
  /\ UNCHANGED <<windowed, buf, len, cur, top, view, topLine, open>>

\* Ctrl+O: the Notepad does not look at the result.
Save(ok) ==
  /\ Reads /\ CanSave(ok) /\ Written(ok)
  /\ flash' = (ok \/ windowed \/ flash) /\ drawn' = FALSE /\ claim' = FALSE
  /\ UNCHANGED <<windowed, buf, len, cur, top, view, topLine, open>>

\* Ctrl+X: neither of them does.
SaveAndExit(ok) ==
  /\ Reads /\ CanSave(ok) /\ Written(ok) /\ open' = FALSE
  /\ UNCHANGED <<windowed, buf, len, cur, top, view, topLine, flash, drawn, claim>>

Escape ==
  /\ Reads /\ open' = FALSE
  /\ UNCHANGED <<windowed, buf, len, cur, top, view, topLine, file, flash, drawn, claim>>

\* edit_file and gui_note_open: fs_read writes the first cells and leaves the others.
\* A Notepad that is open already is given the new text.
Start(w) ==
  /\ open => windowed /\ w
  /\ windowed' = w /\ open' = TRUE
  /\ LET n == AtMost(Len(file), EditMax)
     IN  /\ buf' = [i \in Cell |-> IF i < n THEN file[i + 1] ELSE buf[i]]
         /\ len' = n /\ cur' = n
  /\ top' = 0 /\ view' = 0 /\ topLine' = 0
  /\ flash' = FALSE /\ drawn' = FALSE /\ claim' = FALSE /\ UNCHANGED file

EditorInit ==
  /\ windowed = FALSE /\ buf = [i \in Cell |-> NL] /\ len = 0 /\ cur = 0
  /\ top = 0 /\ view = 0 /\ topLine = 0 /\ file = <<>>
  /\ flash = FALSE /\ drawn = FALSE /\ claim = FALSE /\ open = FALSE

EditorNext ==
  \/ Draw
  \/ \E c \in Char : Insert(c)
  \/ Backspace \/ DeleteKey \/ Ignored
  \/ MoveLeft \/ MoveRight \/ MoveHome \/ MoveEnd \/ MoveUp \/ MoveDown
  \/ \E ok \in BOOLEAN : Save(ok) \/ SaveAndExit(ok)
  \/ Escape
  \/ \E w \in BOOLEAN : Start(w)

EditorSpec == EditorInit /\ [][EditorNext]_editorVars
---------------------------------------------------------------------------
\* The keys do to the array what the keys of an editor do to a text, whatever lies
\* behind its end: memmove by one, and the lines above and below found by scanning.
Buffer == INSTANCE TextBuffer WITH
  before   <- SubSeq(BufText, 1, cur),
  after    <- SubSeq(BufText, cur + 1, len),
  Capacity <- EditMax - 1
TextSpec == Buffer!Spec

\* Once drawn, the cursor is never below the screen nor left or right of it, however
\* the text shrank and moved since the screen was drawn before.
CursorOnScreen ==
  open /\ drawn => LineOf(cur) - topLine < Rows /\ cur - LineStart(cur) - view \in 0 .. Cols - 1

\* When edit.c says that the file is saved (edit.c:172), the file is what the screen shows.
SavedMeansSaved == claim /\ ~windowed => file = BufText
=============================================================================
