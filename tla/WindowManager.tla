--------------------------- MODULE WindowManager ---------------------------
(***************************************************************************)
(* The window manager of gui.c: the table wins[], the z-order, the focus,  *)
(* dragging, the Alt+Tab switcher and the mouse handler gui_mouse().       *)
(*                                                                         *)
(* The operations of the window manager call one another (win_close, then  *)
(* win_focus on the terminal; win_focus, then win_toggle_max ...), so its  *)
(* statics are the fields of one record wm and every C function is an      *)
(* operator from a state of the window manager to the next.  Pixel         *)
(* geometry is abstracted: the mouse may hit any part of any window that   *)
(* is on the screen.  Operations are atomic here; WindowManagerIrq looks   *)
(* at what happens when the keyboard interrupt lands inside one.           *)
(***************************************************************************)
EXTENDS Integers, Sequences, FiniteSets

CONSTANTS
  App,        \* wtype_t: the kinds of windows
  Term,       \* W_TERM, the shell's terminal
  Note,       \* W_NOTE, opened by a double click on a text file
  Expl,       \* W_EXPL, whose rows are text files
  EscApp,     \* the apps whose modal loop closes the window on Esc
  MenuApp,    \* menu_items[]: what the start menu opens
  DockApp,    \* dock_apps[]
  IconApp,    \* desk_icons[]
  MaxWins,    \* MAXW, the size of wins[]
  MaxSlots,   \* bound: the entries of wins[] whose windows get maximized
  Patience,   \* switcher_deadline - pit_get_ticks() when the switcher opens
  NoApp       \* the type of an unused entry of wins[]

ASSUME AppAssumption ==
  /\ {Term, Note, Expl} \subseteq App
  /\ EscApp \subseteq App /\ MenuApp \subseteq App
  /\ DockApp \subseteq App /\ IconApp \subseteq App
  /\ NoApp \notin App

ASSUME BoundAssumption ==
  MaxWins \in Nat \ {0} /\ Patience \in Nat \ {0} /\ MaxSlots \subseteq 0 .. MaxWins - 1

Slot == 0 .. MaxWins - 1
None == -1

VARIABLES
  wm,           \* wins[], zorder[0..zcount-1], focused, dragging
  switcherOn,   \* switcher_on
  switcherPos,  \* switcher_pos, an index (from 0) into zorder
  ticksLeft,    \* ticks before switcher_deadline
  menuOpen,     \* start_open
  button,       \* mouse_buttons & 1, set by the mouse interrupt
  prevButton,   \* prev_btn, the button as gui_mouse() last saw it
  mode          \* "run", "fault" (an exception the kernel cannot leave), "off"

switcher == <<switcherOn, switcherPos, ticksLeft>>
mouse    == <<menuOpen, button, prevButton>>
vars     == <<wm, switcher, mouse, mode>>

WM == [ win   : [Slot -> App \cup {NoApp}],   \* wins[i].type, NoApp if !used
        min   : SUBSET Slot,                  \* wins[i].minimized
        max   : SUBSET Slot,                  \* wins[i].maximized
        stale : SUBSET Slot,                  \* sx,sy,sw,sh saved by a former window
        z     : Seq(Slot),                    \* zorder, bottom first
        focus : Slot \cup {None},
        drag  : Slot \cup {None} ]

---------------------------------------------------------------------------
(* The z-order. *)

\* The shift loop of win_raise and win_close: entry k leaves the z-order.
Shift(z, k) == [j \in 1 .. Len(z) - 1 |-> IF j < k THEN z[j] ELSE z[j + 1]]

InZ(z, i)   == \E k \in 1 .. Len(z) : z[k] = i
IndexZ(z, i) == CHOOSE k \in 1 .. Len(z) : z[k] = i

Used(s, i)    == s.win[i] # NoApp
Visible(s, i) == Used(s, i) /\ i \notin s.min

(* The operations on windows. *)

\* win_find: the first window of type t, or None.
WinFind(s, t) ==
  IF \E i \in Slot : s.win[i] = t
  THEN CHOOSE i \in Slot : s.win[i] = t /\ \A j \in Slot : s.win[j] = t => i <= j
  ELSE None

\* Mutant: the window changes places with the top one.
WinRaiseSwap(s, i) ==
  IF InZ(s.z, i)
  THEN [s EXCEPT !.z = [s.z EXCEPT ![IndexZ(s.z, i)] = s.z[Len(s.z)], ![Len(s.z)] = i]]
  ELSE s

WinRaise(s, i) ==
  IF InZ(s.z, i)
  THEN [s EXCEPT !.z = Append(Shift(s.z, IndexZ(s.z, i)), i)]
  ELSE s

\* Mutant: the focus moves without raising the window.
WinFocusNoRaise(s, i) ==
  IF i = None
  THEN [s EXCEPT !.focus = None]
  ELSE [s EXCEPT !.min = @ \ {i}, !.focus = i]

WinFocus(s, i) ==
  IF i = None
  THEN [s EXCEPT !.focus = None]
  ELSE [WinRaise(s, i) EXCEPT !.min = @ \ {i}, !.focus = i]

FreeSlots(s) == {i \in Slot : ~Used(s, i)}
FirstFree(s) == CHOOSE i \in FreeSlots(s) : \A j \in FreeSlots(s) : i <= j

\* A fresh entry clears minimized and nothing else: maximized and the saved
\* geometry stay those of the window that last had the entry.
WinCreate(s, i, t) ==
  [s EXCEPT !.win[i] = t, !.min = @ \ {i}, !.z = Append(@, i),
            !.stale = IF i \in s.max THEN @ \cup {i} ELSE @]

\* Mutant: the search for a window of that kind is left out.
WinOpenTwice(s, t) ==
  IF FreeSlots(s) = {} THEN s
  ELSE WinFocus(WinCreate(s, FirstFree(s), t), FirstFree(s))

WinOpen(s, t) ==
  IF WinFind(s, t) # None
  THEN WinFocus(s, WinFind(s, t))
  ELSE IF FreeSlots(s) = {}
       THEN s
       ELSE WinFocus(WinCreate(s, FirstFree(s), t), FirstFree(s))

\* What win_close does, given what becomes of the z-order and of the drag.
CloseWith(s, i, rest, drag) ==
  IF i = None \/ ~Used(s, i)
  THEN s
  ELSE [s EXCEPT !.win[i] = NoApp,
                 !.z      = rest,
                 !.focus  = IF @ # i THEN @
                            ELSE IF Len(rest) > 0 THEN rest[Len(rest)] ELSE None,
                 !.drag   = drag]

Without(z, i) == IF InZ(z, i) THEN Shift(z, IndexZ(z, i)) ELSE z
DragAfter(s, i) == IF s.drag = i THEN None ELSE s.drag

\* Mutants: the entry stays in the z-order; the drag goes on.
WinCloseKeepZ(s, i) == CloseWith(s, i, s.z, DragAfter(s, i))
WinCloseKeepDrag(s, i) == CloseWith(s, i, Without(s.z, i), s.drag)

WinClose(s, i) == CloseWith(s, i, Without(s.z, i), DragAfter(s, i))

\* The minimize button and the dock.
WinMinimize(s, i) == [s EXCEPT !.min = @ \cup {i}, !.focus = None]

\* Maximizing saves the geometry, restoring reads it back: between the two, a
\* geometry that another window left in the entry is "stale".
WinToggleMax(s, i) ==
  IF i \notin s.max
  THEN [s EXCEPT !.max = @ \cup {i}]
  ELSE [s EXCEPT !.max = @ \ {i}, !.stale = @ \ {i}]

\* gui_focus_term, and the tail of every modal loop.
FocusTerm(s) ==
  IF WinFind(s, Term) = None THEN s ELSE WinFocus(s, WinFind(s, Term))

Modal(s, t) ==
  LET i == WinFind(s, t) IN i # None /\ i \notin s.min /\ s.focus = i

---------------------------------------------------------------------------
(* The keyboard and the shell. *)

Running == mode = "run"

\* A shell command (notepad, calc, ...) opens an app: typed, typed ahead or read
\* from a script, so whatever has the focus by then.
ShellOpen(t) ==
  /\ Running
  /\ wm' = WinOpen(wm, t)
  /\ UNCHANGED <<switcher, mouse, mode>>

\* Esc in the modal loop of t: close the window, focus the terminal.
ModalEsc(t) ==
  /\ Running
  /\ Modal(wm, t)
  /\ wm' = FocusTerm(WinClose(wm, WinFind(wm, t)))
  /\ UNCHANGED <<switcher, mouse, mode>>

\* Alt+T, in the keyboard interrupt.
AltT ==
  /\ mode # "off"
  /\ wm' = FocusTerm(wm)
  /\ UNCHANGED <<switcher, mouse, mode>>

---------------------------------------------------------------------------
(* The Alt+Tab switcher. *)

\* The first window at or after position p (cyclically) that is on the screen.
SkipMinimized(s, p) ==
  LET n    == Len(s.z)
      On(d) == Visible(s, s.z[((p + d) % n) + 1])
  IN IF \E d \in 0 .. n - 1 : On(d)
     THEN (p + CHOOSE d \in 0 .. n - 1 : On(d) /\ \A e \in 0 .. d - 1 : ~On(e)) % n
     ELSE p

\* Another press of Alt+Tab, the switcher getting so many ticks from now on.
Advance(ticks) ==
  LET n     == Len(wm.z)
      cur   == IF InZ(wm.z, wm.focus) THEN IndexZ(wm.z, wm.focus) - 1 ELSE -1
      start == IF switcherOn THEN switcherPos ELSE cur
  IN /\ Running
     /\ n > 1
     /\ switcherOn' = TRUE
     /\ switcherPos' = SkipMinimized(wm, (start + 1) % n)
     /\ ticksLeft' = ticks
     /\ UNCHANGED <<wm, mouse, mode>>

SwitcherNext == Advance(Patience)

\* Position and deadline are set anew when the switcher opens: 0 while it is off.
SwitcherOff == switcherOn' = FALSE /\ switcherPos' = 0 /\ ticksLeft' = 0

\* gui_switcher_confirm divides by zcount, which may have become 0.
SwitcherConfirm ==
  /\ SwitcherOff
  /\ IF wm.z = <<>>
     THEN mode' = "fault" /\ UNCHANGED wm
     ELSE /\ wm' = WinFocus(wm, wm.z[(switcherPos % Len(wm.z)) + 1])
          /\ UNCHANGED mode
  /\ UNCHANGED mouse

SwitcherEnter   == Running /\ switcherOn /\ SwitcherConfirm

\* Mutant: the deadline is compared the wrong way round.
SwitcherTimeoutEarly == Running /\ switcherOn /\ ticksLeft > 0 /\ SwitcherConfirm

SwitcherTimeout == Running /\ switcherOn /\ ticksLeft = 0 /\ SwitcherConfirm

SwitcherCancel ==
  /\ Running /\ switcherOn
  /\ SwitcherOff
  /\ UNCHANGED <<wm, mouse, mode>>

\* The timer interrupt, as far as the switcher can tell.
Tick ==
  /\ mode # "off" /\ switcherOn /\ ticksLeft > 0
  /\ ticksLeft' = ticksLeft - 1
  /\ UNCHANGED <<wm, switcherOn, switcherPos, mouse, mode>>

---------------------------------------------------------------------------
(* The mouse.  The interrupt records the button; gui_mouse() samples it at *)
(* the next frame, so a press and a release between two frames are lost.   *)

ButtonIrq ==
  /\ mode # "off"
  /\ button' = ~button
  /\ UNCHANGED <<wm, switcher, menuOpen, prevButton, mode>>

Sampled == Running /\ prevButton' = button /\ UNCHANGED <<switcher, button>>

DragMove ==
  /\ Sampled /\ wm.drag # None /\ button
  /\ UNCHANGED <<wm, menuOpen, mode>>

DragEnd ==
  /\ Sampled /\ wm.drag # None /\ ~button
  /\ wm' = [wm EXCEPT !.drag = None]
  /\ UNCHANGED <<menuOpen, mode>>

NoPress ==
  /\ Sampled /\ wm.drag = None /\ (button => prevButton)
  /\ UNCHANGED <<wm, menuOpen, mode>>

Press == Sampled /\ wm.drag = None /\ button /\ ~prevButton

MenuOpenApp(t) ==
  /\ Press /\ menuOpen
  /\ menuOpen' = FALSE
  /\ wm' = WinOpen(wm, t)
  /\ UNCHANGED mode

MenuHalt ==
  /\ Press /\ menuOpen
  /\ menuOpen' = FALSE
  /\ mode' = "off"
  /\ UNCHANGED wm

\* The logo opens the menu; a double click closes it again.
PressLogo ==
  /\ Press
  /\ menuOpen' \in BOOLEAN
  /\ UNCHANGED <<wm, mode>>

\* Any other press closes the menu first.
PressElsewhere == Press /\ menuOpen' = FALSE /\ UNCHANGED mode

PressDock(t) ==
  LET i == WinFind(wm, t)
  IN /\ PressElsewhere
     /\ wm' = IF i = None THEN WinOpen(wm, t)
              ELSE IF i \in wm.min THEN WinFocus(wm, i)
              ELSE IF wm.focus = i THEN WinMinimize(wm, i)
              ELSE WinFocus(wm, i)

\* One click does nothing, a double click opens the app.
PressIcon(t) == PressElsewhere /\ wm' \in {wm, WinOpen(wm, t)}

PressDesktop == PressElsewhere /\ wm' = [wm EXCEPT !.focus = None]

PressTaskbar == PressElsewhere /\ UNCHANGED wm

Focused(s, i) == IF s.focus = i THEN s ELSE WinFocus(s, i)

PressWindow(i) == PressElsewhere /\ Visible(wm, i)

PressClose(i)    == PressWindow(i) /\ wm' = WinClose(Focused(wm, i), i)
PressMinimize(i) == PressWindow(i) /\ wm' = WinMinimize(Focused(wm, i), i)
PressMaximize(i) ==
  PressWindow(i) /\ i \in MaxSlots
  /\ wm' = WinFocus(WinToggleMax(Focused(wm, i), i), i)
PressTitle(i)    == PressWindow(i) /\ wm' = [Focused(wm, i) EXCEPT !.drag = i]

\* A double click on a text file of the explorer opens the notepad.
PressClient(i) ==
  /\ PressWindow(i)
  /\ \/ wm' = Focused(wm, i)
     \/ wm.win[i] = Expl /\ wm' = WinOpen(Focused(wm, i), Note)

---------------------------------------------------------------------------
\* kmain opens the terminal before the shell and the mouse get going.
BootWM ==
  [ win   |-> [i \in Slot |-> IF i = 0 THEN Term ELSE NoApp],
    min   |-> {}, max |-> {},
    stale |-> {},
    z     |-> <<0>>, focus |-> 0, drag |-> None ]

Init ==
  /\ wm = BootWM
  /\ switcherOn = FALSE /\ switcherPos = 0 /\ ticksLeft = 0
  /\ menuOpen = FALSE /\ button = FALSE /\ prevButton = FALSE
  /\ mode = "run"

\* "Reiniciar" resets the machine.
MenuReboot ==
  /\ Running /\ menuOpen /\ wm.drag = None /\ button /\ ~prevButton
  /\ wm' = BootWM
  /\ SwitcherOff
  /\ menuOpen' = FALSE /\ button' = FALSE /\ prevButton' = FALSE
  /\ UNCHANGED mode

Keyboard ==
  \/ \E t \in App : ShellOpen(t)
  \/ \E t \in EscApp : ModalEsc(t)
  \/ AltT
  \/ SwitcherNext \/ SwitcherEnter \/ SwitcherTimeout \/ SwitcherCancel

Mouse ==
  \/ ButtonIrq \/ DragMove \/ DragEnd \/ NoPress
  \/ \E t \in MenuApp : MenuOpenApp(t)
  \/ MenuReboot \/ MenuHalt
  \/ PressLogo \/ PressDesktop \/ PressTaskbar
  \/ \E t \in DockApp : PressDock(t)
  \/ \E t \in IconApp : PressIcon(t)
  \/ \E i \in Slot : PressClose(i) \/ PressMinimize(i) \/ PressMaximize(i)
                       \/ PressTitle(i) \/ PressClient(i)

Next == Keyboard \/ Mouse \/ Tick

Spec == Init /\ [][Next]_vars

\* The timer never stops, and every wait of the kernel that can see the
\* switcher polls the window manager once per interrupt.
FairSpec == Spec /\ WF_vars(Tick) /\ WF_vars(SwitcherTimeout)
---------------------------------------------------------------------------
(* What makes the window manager correct. *)

TypeOK ==
  /\ wm \in WM
  /\ switcherOn \in BOOLEAN /\ switcherPos \in Nat /\ ticksLeft \in 0 .. Patience
  /\ menuOpen \in BOOLEAN /\ button \in BOOLEAN /\ prevButton \in BOOLEAN
  /\ mode \in {"run", "fault", "off"}

\* zorder[] lists exactly the windows that exist, each once: draw_window, win_at
\* and the switcher walk it, so a window missing from it can never be seen or
\* clicked again, and one listed twice outlives its own close.
ZOrderExact ==
  /\ \A i \in Slot : Used(wm, i) <=> InZ(wm.z, i)
  /\ \A j, k \in 1 .. Len(wm.z) : wm.z[j] = wm.z[k] => j = k

\* win_find returns the first match, so every caller (modal loops, dock, Alt+T)
\* relies on there being one window of each kind at most.
OneWindowPerApp ==
  \A i, j \in Slot : Used(wm, i) /\ wm.win[i] = wm.win[j] => i = j

\* The window that receives the keys is the one drawn on top: win_open, win_focus,
\* win_close, the switcher and the mouse all keep focused and zorder[] in step.
FocusOnTop ==
  wm.focus # None => wm.z # <<>> /\ wm.focus = wm.z[Len(wm.z)]

\* gui_mouse moves wins[dragging] without looking at used or minimized: whatever
\* the keyboard and the shell do during a drag, that window stays on the screen.
DragOnScreen == wm.drag # None => Visible(wm, wm.drag)

\* A window rises above another only by being clicked or focused: what rises has
\* the focus after the step, or was clicked away (minimized), or is the explorer
\* whose click then opened the notepad.  No close, drag or switcher step shuffles
\* the windows that are left.
RaisedOnlyByFocus ==
  [][ \A i, j \in Slot :
        /\ InZ(wm.z, i) /\ InZ(wm.z, j) /\ IndexZ(wm.z, i) < IndexZ(wm.z, j)
        /\ InZ(wm.z, i)' /\ InZ(wm.z, j)' /\ IndexZ(wm.z, i)' > IndexZ(wm.z, j)'
        => i = wm'.focus \/ i \in wm'.min \ wm.min \/ wm.win[i] = Expl ]_vars

\* The switcher overlay steals every key from the shell while it is on, so it may
\* not stay: either it goes, or the user presses Alt+Tab for ever (or halts).
SwitcherEnds ==
  \/ []<>(~switcherOn \/ mode = "off")
  \/ []<><<SwitcherNext>>_vars
=============================================================================
