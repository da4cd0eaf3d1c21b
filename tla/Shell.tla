------------------------------- MODULE Shell -------------------------------
(***************************************************************************)
(* The shell: the line editor with its history and completion, and the     *)
(* calls of sh_exec with the capture of their output.  "sh" reads lines in *)
(* a call of sh_exec, so that the calls form a stack; the capture is one   *)
(* global pointer to the buffer of one of them.                            *)
(*                                                                         *)
(* What a line means is chosen when it is executed, and a program is what  *)
(* it prints.  Who reads a key, the switcher or an app, is in KeyInput.    *)
(***************************************************************************)
EXTENDS Console, SequencesExt

CONSTANTS
  Glyph,         \* the characters, control codes among them
  Char,          \* the characters that are typed, the blank among them
  Names,         \* applets[], then the files of the directory
  Prompt, NestedPrompt,
  LineMax,       \* SHELL_MAX_LINE
  HistMax,       \* HIST_MAX
  CapSize,       \* sizeof(capbuf)
  Out,           \* what a program prints
  MaxOut,        \* bound: the characters it prints
  MaxCalls,      \* bound: the calls of sh_exec on the stack
  Junk           \* a cell of capbuf that nothing was written to

Text == Seq(Glyph)

\* What fills one cell wherever it is printed, 0x20 to 0x7E.
Plain == Glyph \ {"LF", "CR", "TAB", "ESC"}

ASSUME ShellAssumption ==
  /\ {"LF", "CR", " ", "^", "C", "x"} \cup Char \cup Out \subseteq Glyph
  /\ Prompt \in Text /\ NestedPrompt \in Text
  /\ Names \in Seq(Text)
  /\ LineMax \in Nat /\ LineMax > 1 /\ HistMax \in Nat \ {0} /\ CapSize \in Nat \ {0}

\* Keys and names are printable.  A prompt is, but for its colours (prompt_print): it
\* shows something and ends every sequence it begins.
ASSUME PlainAssumption ==
  /\ Char \subseteq Plain /\ Names \in Seq(Seq(Plain))
  /\ \A p \in {Prompt, NestedPrompt} :
       /\ \A k \in DOMAIN p : p[k] \notin {"LF", "CR", "TAB"}
       /\ Puts(EmptyScreen(TRUE), p).row # <<>> /\ Puts(EmptyScreen(TRUE), p).esc = "none"

VARIABLES
  con,                   \* the screen
  line, pos, shown,      \* the line being edited
  hist, histPos, draft,  \* sh_hist, hist_pos (0: none), hist_draft
  mode,                  \* reading a key, about to execute, running, over
  calls,                 \* the calls of sh_exec
  cap, capLen,           \* the call whose buffer cap_buf is (0: none), cap_len
  leaving,               \* sh_exit_flag
  given,                 \* what the last step handed to fs_write, if it did
  fresh                  \* the prompt began at the left of an empty row

edit   == <<line, pos, shown>>
recall == <<hist, histPos, draft>>
vars   == <<con, edit, recall, mode, calls, cap, capLen, leaving, given, fresh>>

Message == <<"x", "LF">>

Larger(a, b) == IF a > b THEN a ELSE b
Smaller(a, b) == IF a < b THEN a ELSE b

\* A call of sh_exec.  It runs a program, reads lines ("sh"), or has nothing left to do
\* but to end; said and inner are for the properties: the beginning of what
\* was printed since it started, and whether another redirected call started since.
NewCall(r) ==
  [redir |-> r, does |-> "program", buf |-> [k \in 1 .. CapSize - 1 |-> Junk],
   out |-> 0, said |-> <<>>, inner |-> FALSE]

Top == calls[Len(calls)]
PromptAt(depth) == IF depth = 0 THEN Prompt ELSE NestedPrompt
---------------------------------------------------------------------------
(* console_puts: into the capture to, of length n, or on the screen s.    *)

Captured(call, str, n) ==
  [call EXCEPT !.buf = [k \in DOMAIN call.buf |->
                          IF k - n \in 1 .. Len(str) THEN str[k - n] ELSE call.buf[k]]]

Output(str, s, cs, to, n) ==
  /\ con' = IF to = 0 THEN Puts(s, str) ELSE s
  /\ calls' = [k \in DOMAIN cs |->
                 LET c == [cs[k] EXCEPT !.said = Take(cs[k].said \o str, CapSize)]
                 IN  IF k = to THEN Captured(c, str, n) ELSE c]
  /\ cap' = to
  /\ capLen' = IF to = 0 THEN n ELSE Smaller(n + Len(str), CapSize - 1)

Say(str) == Output(str, con, calls, cap, capLen)

\* hist_pos is reset; hist_draft, written again before it is read, is forgotten.
AtNewest == histPos' = 0 /\ draft' = <<>>

\* sh_readline up to its loop, after str was printed.
ReadLine(str, s, cs, to, n) ==
  /\ Output(str \o PromptAt(Len(cs)), s, cs, to, n)
  /\ line' = <<>> /\ pos' = 0 /\ shown' = 0 /\ mode' = "reading"
  /\ AtNewest /\ UNCHANGED hist
  /\ fresh' = ((IF to = 0 THEN Puts(s, str) ELSE s) = EmptyScreen(s.gui))
---------------------------------------------------------------------------
(* The keys of the line editor. *)

Reads == mode = "reading" /\ given' = {} /\ UNCHANGED leaving

\* Mutant: the rest of a longer line is not wiped.
RedrawnOver(l, p, was) ==
  <<"CR">> \o PromptAt(Len(calls)) \o l \o <<"CR">> \o PromptAt(Len(calls)) \o Take(l, p)

\* rl_render of the line l with the cursor at p, over was characters of the old one.
Redrawn(l, p, was) ==
  <<"CR">> \o PromptAt(Len(calls)) \o l \o Spaces(Larger(was - Len(l), 0))
  \o <<"CR">> \o PromptAt(Len(calls)) \o Take(l, p)

Render(l, p) ==
  /\ line' = l /\ pos' = p /\ shown' = Larger(shown, Len(l))
  /\ Say(Redrawn(l, p, shown))
  /\ UNCHANGED <<mode, fresh>>

Typed(c) == Take(line, pos) \o <<c>> \o SubSeq(line, pos + 1, Len(line))

\* The character is echoed; the line is drawn again unless it is at the end.
Insert(c) ==
  /\ Reads /\ Len(line) + 1 < LineMax
  /\ line' = Typed(c) /\ pos' = pos + 1 /\ shown' = Larger(shown, Len(line) + 1)
  /\ Say(IF pos = Len(line) THEN <<c>>
         ELSE <<c>> \o Redrawn(Typed(c), pos + 1, shown))
  /\ AtNewest /\ UNCHANGED <<hist, mode, fresh>>

Backspace == Reads /\ pos > 0 /\ Render(RemoveAt(line, pos), pos - 1) /\ UNCHANGED recall

DeleteKey == Reads /\ pos < Len(line) /\ Render(RemoveAt(line, pos + 1), pos) /\ UNCHANGED recall

\* Left, Right, Home, End, and Alt+Tab, Tab, Enter and Esc when they go to the switcher.
Move(p) ==
  /\ Reads /\ p \in {pos - 1, pos, pos + 1, 0, Len(line)} \cap 0 .. Len(line)
  /\ Render(line, p) /\ UNCHANGED recall

KeyUp ==
  /\ Reads /\ hist # <<>>
  /\ histPos' = IF histPos = 0 THEN Len(hist) ELSE Larger(histPos - 1, 1)
  /\ draft' = IF histPos = 0 THEN line ELSE draft
  /\ Render(hist[histPos'], Len(hist[histPos'])) /\ UNCHANGED hist

KeyDown ==
  /\ Reads /\ histPos # 0
  /\ histPos' = IF histPos = Len(hist) THEN 0 ELSE histPos + 1
  /\ LET l == IF histPos' = 0 THEN draft ELSE hist[histPos'] IN Render(l, Len(l))
  /\ draft' = IF histPos' = 0 THEN <<>> ELSE draft
  /\ UNCHANGED hist

EscKey == Reads /\ Render(<<>>, 0) /\ AtNewest /\ UNCHANGED hist

\* rl_complete: the names that begin with the last word of the line, all of them: the code
\* takes 32 at most and cuts them at 63 characters (shell.c:1536, 1565).
Word == SubSeq(line, SelectLastInSeq(line, LAMBDA c : c = " ") + 1, Len(line))
Candidates == {k \in DOMAIN Names : IsPrefix(Word, Names[k])}
Completion ==
  LET common == LongestCommonPrefix({Names[k] : k \in Candidates})
  IN  Take(SubSeq(common, Len(Word) + 1, Len(common)), LineMax - 1 - Len(line))
Listed ==
  FlattenSeq([k \in DOMAIN Names |->
                IF k \in Candidates THEN Names[k] \o <<" ", " ">> ELSE <<>>])

TabKey ==
  /\ Reads /\ pos = Len(line) /\ Candidates # {}
  /\ LET l == line \o Completion
         list == IF Cardinality(Candidates) = 1 THEN <<>> ELSE <<"LF">> \o Listed \o <<"LF">>
     IN  /\ line' = l /\ pos' = Len(l) /\ shown' = Larger(shown, Len(l))
         /\ Say(list \o Redrawn(l, Len(l), shown))
  /\ fresh' = (fresh \/ Cardinality(Candidates) > 1) /\ UNCHANGED <<recall, mode>>

\* Ctrl+L.
ClearKey ==
  /\ Reads /\ UNCHANGED <<recall, line, pos, mode>> /\ shown' = Len(line)
  /\ Output(Redrawn(line, pos, 0), Cleared(con), calls, cap, capLen)
  /\ fresh' = (con.esc = "none")

\* Ctrl+C, and Enter on an empty line: the caller reads another line.
Abandon ==
  \E str \in {<<"^", "C", "LF">>} \cup {<<"LF">> : l \in {line} \cap {<<>>}} :
    Reads /\ ReadLine(str, con, calls, cap, capLen)

\* shell_run keeps the line, a nested shell does not.
Enter ==
  /\ Reads /\ line # <<>> /\ Say(<<"LF">>)
  /\ hist' = IF calls # <<>> THEN hist
             ELSE IF Len(hist) < HistMax THEN Append(hist, line) ELSE Append(Tail(hist), line)
  /\ AtNewest /\ mode' = "executing"
  /\ line' = <<>> /\ pos' = 0 /\ shown' = 0 /\ UNCHANGED fresh
---------------------------------------------------------------------------
(* sh_exec. *)

Still == UNCHANGED <<edit, recall, fresh>>

\* Mutant: console_capture_begin does not set cap_len.
ExecuteOn(r) ==
  /\ mode = "executing" /\ mode' = "running"
  /\ calls' = Append([k \in DOMAIN calls |-> [calls[k] EXCEPT !.inner = @ \/ r]], NewCall(r))
  /\ cap' = IF r THEN Len(calls) + 1 ELSE cap
  /\ UNCHANGED <<con, capLen, leaving, given>> /\ Still

\* With a ">" in the line the capture begins.
Execute(r) ==
  /\ mode = "executing" /\ mode' = "running"
  /\ calls' = Append([k \in DOMAIN calls |-> [calls[k] EXCEPT !.inner = @ \/ r]], NewCall(r))
  /\ cap' = IF r THEN Len(calls) + 1 ELSE cap
  /\ capLen' = IF r THEN 0 ELSE capLen
  /\ UNCHANGED <<con, leaving, given>> /\ Still

Runs == mode = "running" /\ Top.does = "program" /\ given' = {} /\ Still

Prints(c) ==
  /\ Runs /\ Top.out < MaxOut
  /\ ~(cap = 0 /\ c = "TAB" /\ TabHangs(con))
  /\ Output(<<c>>, con, [calls EXCEPT ![Len(calls)].out = @ + 1], cap, capLen)
  /\ UNCHANGED <<mode, leaving>>

ClearScreen ==
  /\ Runs /\ con' = Cleared(con)
  /\ UNCHANGED <<calls, cap, capLen, mode, leaving>>

\* "exit".
Leave ==
  /\ Runs /\ leaving' = TRUE /\ calls' = [calls EXCEPT ![Len(calls)].does = "nothing"]
  /\ UNCHANGED <<con, cap, capLen, mode>>

\* "sh".
Nest ==
  /\ mode = "running" /\ Top.does = "program" /\ Len(calls) < MaxCalls
  /\ ReadLine(Message, con, [calls EXCEPT ![Len(calls)].does = "shell"], cap, capLen)
  /\ given' = {} /\ UNCHANGED leaving

\* The caller goes on: shell_run and the loop of "sh" read another line, or see
\* sh_exit_flag and end, the latter with its own call of sh_exec still to be ended.
GoOn(str, to) ==
  LET rest == Front(calls)
  IN  IF ~leaving
        THEN ReadLine(str, con, rest, to, capLen) /\ UNCHANGED leaving
        ELSE /\ leaving' = (rest = <<>>) /\ Still
             /\ mode' = IF rest = <<>> THEN "over" ELSE "running"
             /\ Output(str, con,
                       [k \in DOMAIN rest |->
                          IF k = Len(rest) THEN [rest[k] EXCEPT !.does = "nothing"] ELSE rest[k]],
                       to, capLen)

\* The end of sh_exec: path, whether one was given after the ">"; ok, whether fs_write
\* took the text.
\* Mutant: without a path it returns before console_capture_end.
EndLate(path, ok) ==
  /\ mode = "running" /\ Top.does # "shell"
  /\ ~Top.redir => path /\ ok
  /\ ok => path
  /\ given' = IF Top.redir /\ path THEN {SubSeq(Top.buf, 1, capLen)} ELSE {}
  /\ GoOn(IF ok THEN <<>> ELSE Message, IF Top.redir /\ path THEN 0 ELSE cap)

End(path, ok) ==
  /\ mode = "running" /\ Top.does # "shell"
  /\ ~Top.redir => path /\ ok
  /\ ok => path
  /\ given' = IF Top.redir /\ path THEN {SubSeq(Top.buf, 1, capLen)} ELSE {}
  /\ GoOn(IF ok THEN <<>> ELSE Message, IF Top.redir THEN 0 ELSE cap)

Init ==
  /\ \E gui \in BOOLEAN : con = Puts(EmptyScreen(gui), Prompt)
  /\ line = <<>> /\ pos = 0 /\ shown = 0 /\ hist = <<>> /\ histPos = 0 /\ draft = <<>>
  /\ mode = "reading" /\ calls = <<>> /\ cap = 0 /\ capLen = 0
  /\ leaving = FALSE /\ given = {} /\ fresh = TRUE

Next ==
  \/ \E c \in Char : Insert(c)
  \/ \E p \in 0 .. LineMax : Move(p)
  \/ Backspace \/ DeleteKey \/ KeyUp \/ KeyDown \/ TabKey \/ EscKey \/ ClearKey
  \/ Abandon \/ Enter
  \/ \E r \in BOOLEAN : Execute(r)
  \/ \E c \in Out : Prints(c)
  \/ ClearScreen \/ Leave \/ Nest
  \/ \E path, ok \in BOOLEAN : End(path, ok)

Spec == Init /\ [][Next]_vars
---------------------------------------------------------------------------
\* What the prompt looks like on an empty row.
Looks(depth) == Puts(EmptyScreen(TRUE), PromptAt(depth)).row

\* A prompt too long for the row leaves it longer on the way than in the end.
Wraps(depth) ==
  \E k \in DOMAIN PromptAt(depth) :
    Len(Puts(EmptyScreen(TRUE), Take(PromptAt(depth), k)).row) > Len(Looks(depth))

\* Between two keys the row is the prompt and the line, and the cursor is where pos
\* says: in text mode the whole line and nothing else, whatever stood there before; in
\* the terminal the line up to the cursor, the rest of it being cut off by the zero
\* byte that rl_render leaves behind the cursor (shell.c:1524, gui.c:936).  It holds
\* where the prompt began on an empty row and nothing reached the end of the row.
LineShown ==
  LET look == Looks(Len(calls))
      fits == ~Wraps(Len(calls)) /\ Len(look) + Larger(shown, Len(line)) < Cols
  IN  mode = "reading" /\ cap = 0 /\ fresh /\ fits =>
        /\ con.esc = "none" /\ con.col = Len(look) + pos
        /\ IF con.gui THEN con.row = look \o Take(line, pos)
           ELSE con.row = look \o line \o Spaces(Cols - Len(look \o line))

\* cap_buf points to the buffer of a call of sh_exec that has not returned, however
\* redirected commands and shells are nested: never into a stack frame that is gone.
CaptureIsLive == cap # 0 => cap \in DOMAIN calls /\ calls[cap].redir

\* A redirected command, a nested shell included, hands to fs_write what was printed
\* since it began, as much of it as capbuf holds, unless a command inside it was
\* redirected too.
RedirectExact ==
  [][given' # {} /\ ~Top.inner => given' = {Take(Top.said, CapSize - 1)}]_vars
=============================================================================
