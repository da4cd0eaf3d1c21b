------------------------------ MODULE KeyInput ------------------------------
(***************************************************************************)
(* From a key on the keyboard to the shell or the app that gets it.  The   *)
(* keyboard interrupt routes each key to one of two queues by the focus    *)
(* and the Alt+Tab switcher of that moment.  The main thread is one loop:  *)
(* keyboard_getraw() reads the shell's queue, or runs the loop of a modal  *)
(* app, which reads the other; when there is nothing to read it runs       *)
(* gui_poll(), which takes hotkeys out of the apps' queue, and sleeps in   *)
(* hlt until an interrupt.  A command may be the full-screen editor, which *)
(* reads keys the same way and keeps gui_poll from doing anything.         *)
(* KeyQueue is instantiated once per queue.                                *)
(***************************************************************************)
EXTENDS Integers, Sequences

CONSTANTS
  Kind,       \* the kinds of keys that are typed, among AllKinds
  MaxKeys,    \* bound: how many keys are typed
  KbdCap,     \* bound: the keys kbd_buf can hold (255 in the code)
  AppCap      \* bound: the keys appq can hold

\* KEY_SWITCH, the keys that rule the switcher, and any other.
AllKinds == {"switch", "tab", "enter", "esc", "char"}

ASSUME KeyAssumption ==
  Kind \subseteq AllKinds /\ {MaxKeys, KbdCap, AppCap} \subseteq Nat

KeyRec == [kind : AllKinds, n : 1 .. MaxKeys]    \* n: the order they were typed in
NoKey  == [kind |-> "char", n |-> 0]

\* What has the focus: the terminal, an app whose modal loop reads keys, another
\* app, or nothing (focused = -1).
Focus == {"term", "modal", "other", "none"}

VARIABLES
  kbd, appq,        \* the queues
  key, step, count, \* the registers of the main thread (see KeyQueue)
  pc,               \* where the main thread is
  ret,              \* the loop it goes back to from hlt
  hot,              \* which hotkey app_hotkeys looks for or takes
  focus,
  switcherOn,       \* switcher_on
  editor,           \* gui_editor: edit_file runs, and reads in place of sh_readline
  typed,            \* how many keys were typed so far
  onAt,             \* how many when the switcher came on last
  shellGot, appGot  \* n of the last key the shell, the app took out

regs == <<key, step, count>>
desk == <<focus, switcherOn, onAt, editor>>
vars == <<kbd, appq, regs, pc, ret, hot, desk, typed, shellGot, appGot>>

Kbd  == INSTANCE KeyQueue WITH queue <- kbd,  got <- key, Key <- KeyRec,
                               Codes <- {}, Capacity <- KbdCap
Apps == INSTANCE KeyQueue WITH queue <- appq, got <- key, Key <- KeyRec,
                               Codes <- {}, Capacity <- AppCap
---------------------------------------------------------------------------
(* The desktop, as far as keys can tell. *)

Switcher(on) ==
  /\ switcherOn' = on
  /\ onAt' = IF on /\ ~switcherOn THEN typed ELSE onAt

\* What a key does to an open switcher: Enter confirms and focuses a window, Esc
\* cancels, Tab moves on.
SwitcherKey(kind) ==
  /\ Switcher(kind = "tab")
  /\ IF kind = "enter" THEN focus' \in Focus ELSE UNCHANGED focus

\* Alt+Tab opens the switcher if there is more than one window.
OpenSwitcher == (Switcher(TRUE) \/ UNCHANGED <<switcherOn, onAt>>) /\ UNCHANGED focus
---------------------------------------------------------------------------
(* Interrupts.  Each wakes the main thread from hlt. *)

Wake == pc' = IF pc = "asleep" THEN ret ELSE pc

\* kbd_route.  Mutant: the switcher is not asked.
ToAppsByFocus == focus # "term"
ToApps == switcherOn \/ focus # "term"

Type(kind) ==
  /\ typed < MaxKeys
  /\ typed' = typed + 1
  /\ LET k == [kind |-> kind, n |-> typed + 1]
     IN IF ToApps THEN Apps!Push(k) /\ UNCHANGED kbd
                  ELSE Kbd!Push(k) /\ UNCHANGED appq
  /\ Wake
  /\ UNCHANGED <<ret, hot, desk, shellGot, appGot>>

\* gui_focus_term.
AltT ==
  /\ focus' = "term" /\ Wake
  /\ UNCHANGED <<kbd, appq, regs, ret, hot, switcherOn, onAt, editor, typed, shellGot, appGot>>

\* pit_handler.
Timer ==
  /\ Wake
  /\ UNCHANGED <<kbd, appq, regs, ret, hot, desk, typed, shellGot, appGot>>
---------------------------------------------------------------------------
(* The main thread: the shell's side. *)

\* keyboard_getraw: first the modal apps, then the queue, then poll and sleep.
GetRaw ==
  /\ pc = "getraw"
  /\ pc' = IF focus = "modal" THEN "alive" ELSE "pop"
  /\ UNCHANGED <<kbd, appq, regs, ret, hot, desk, typed, shellGot, appGot>>

ShellPop ==
  /\ pc = "pop"
  /\ \/ /\ Kbd!Pop
        /\ pc' = "line" /\ shellGot' = Head(kbd).n
        /\ UNCHANGED ret
     \/ /\ kbd = <<>>
        /\ pc' = "poll" /\ ret' = "getraw"
        /\ UNCHANGED <<kbd, regs, shellGot>>
  /\ UNCHANGED <<appq, hot, desk, typed, appGot>>

\* sh_readline.  A command may open, close and focus any window, and start the editor.
LineKey ==
  CASE key.kind = "switch" -> OpenSwitcher /\ UNCHANGED editor
    [] key.kind \in {"tab", "enter", "esc"} /\ switcherOn -> SwitcherKey(key.kind) /\ UNCHANGED editor
    [] key.kind = "enter" /\ ~switcherOn ->
         focus' \in Focus /\ editor' \in BOOLEAN /\ UNCHANGED <<switcherOn, onAt>>
    [] OTHER -> UNCHANGED desk

\* edit_file: Esc leaves it, and so does Ctrl+X, which is one of the others.
EditorKey ==
  /\ CASE key.kind = "esc" -> editor' = FALSE
       [] key.kind = "char" -> editor' \in BOOLEAN
       [] OTHER -> UNCHANGED editor
  /\ UNCHANGED <<focus, switcherOn, onAt>>

ShellKey ==
  /\ pc = "line" /\ pc' = "getraw"
  /\ IF editor THEN EditorKey ELSE LineKey
  /\ UNCHANGED <<kbd, appq, regs, ret, hot, typed, shellGot, appGot>>
---------------------------------------------------------------------------
(* The main thread: the modal app's side, gui_app_getkey_alive and its caller. *)

\* Mutant: gui_app_getkey, which does not ask.
AppAliveForever ==
  /\ pc = "alive" /\ pc' = "apppop"
  /\ UNCHANGED <<kbd, appq, regs, ret, hot, desk, typed, shellGot, appGot>>

AppAlive ==
  /\ pc = "alive"
  /\ pc' = IF focus = "modal" THEN "apppop" ELSE "getraw"
  /\ UNCHANGED <<kbd, appq, regs, ret, hot, desk, typed, shellGot, appGot>>

AppPop ==
  /\ pc = "apppop"
  /\ \/ /\ Apps!Pop
        /\ pc' = "app" /\ appGot' = Head(appq).n
        /\ UNCHANGED ret
     \/ /\ appq = <<>>
        /\ pc' = "poll" /\ ret' = "alive"
        /\ UNCHANGED <<appq, regs, appGot>>
  /\ UNCHANGED <<kbd, hot, desk, typed, shellGot>>

\* note_run_loop, calc_run_loop: a key that comes when the focus has moved is
\* dropped; Esc closes the window (in the browser it only leaves the loop).
AppKey ==
  /\ pc = "app"
  /\ \/ focus # "modal" /\ pc' = "getraw" /\ UNCHANGED focus
     \/ focus = "modal" /\ key.kind # "esc" /\ pc' = "alive" /\ UNCHANGED focus
     \/ focus = "modal" /\ key.kind = "esc" /\ pc' = "getraw" /\ focus' \in Focus
  /\ UNCHANGED <<kbd, appq, regs, ret, hot, switcherOn, onAt, editor, typed, shellGot, appGot>>
---------------------------------------------------------------------------
(* The main thread: gui_poll and hlt. *)

OfKind(kind) == {k \in KeyRec : k.kind = kind}
Waiting(kind) == \E i \in DOMAIN appq : appq[i].kind = kind

\* app_hotkeys: Alt+Tab first, then Tab, Enter, Esc for an open switcher, one
\* search of the queue after the other.
Hotkeys == <<"switch", "tab", "enter", "esc">>

\* Mutant: gui_poll does not look at hotkeys.
PollDeaf ==
  /\ pc = "poll" /\ pc' = IF editor THEN "asleep" ELSE "frame"
  /\ UNCHANGED <<kbd, appq, regs, ret, hot, desk, typed, shellGot, appGot>>

\* Nothing of gui_poll is done while the editor has the screen.
Poll ==
  /\ pc = "poll"
  /\ \/ editor /\ pc' = "asleep" /\ UNCHANGED <<appq, regs, hot>>
     \/ /\ ~editor /\ Apps!TakeShift(OfKind(Hotkeys[hot]))
        /\ pc' = "take" /\ UNCHANGED hot
     \/ /\ ~editor /\ ~Waiting(Hotkeys[hot])
        /\ IF switcherOn /\ hot < 4 THEN hot' = hot + 1 /\ UNCHANGED pc
                                    ELSE hot' = 1 /\ pc' = "frame"
        /\ UNCHANGED <<appq, regs>>
  /\ UNCHANGED <<kbd, ret, desk, typed, shellGot, appGot>>

Take ==
  /\ pc = "take"
  /\ Apps!TakeLoad \/ Apps!TakeStore
  /\ pc' = IF step = "loaded" THEN "hotkey" ELSE pc
  /\ UNCHANGED <<kbd, ret, hot, desk, typed, shellGot, appGot>>

HotKey ==
  /\ pc = "hotkey" /\ pc' = "frame" /\ hot' = 1
  /\ IF hot = 1 THEN OpenSwitcher ELSE SwitcherKey(Hotkeys[hot])
  /\ UNCHANGED <<kbd, appq, regs, ret, editor, typed, shellGot, appGot>>

\* The switcher's timeout confirms; the mouse may do anything to the focus.
Frame ==
  /\ pc = "frame" /\ pc' = "asleep"
  /\ focus' \in Focus
  /\ Switcher(FALSE) \/ UNCHANGED <<switcherOn, onAt>>
  /\ UNCHANGED <<kbd, appq, regs, ret, hot, editor, typed, shellGot, appGot>>
---------------------------------------------------------------------------
Init ==
  /\ kbd = <<>> /\ appq = <<>> /\ key = NoKey /\ step = "idle" /\ count = 0
  /\ pc = "getraw" /\ ret = "getraw" /\ hot = 1
  /\ focus = "term" /\ switcherOn = FALSE /\ editor = FALSE
  /\ typed = 0 /\ onAt = 0 /\ shellGot = 0 /\ appGot = 0

Main ==
  \/ GetRaw \/ ShellPop \/ ShellKey
  \/ AppAlive \/ AppPop \/ AppKey
  \/ Poll \/ Take \/ HotKey \/ Frame

Next == Main \/ (\E kind \in Kind : Type(kind)) \/ AltT \/ Timer

Spec == Init /\ [][Next]_vars

\* The processor goes on, and the timer interrupt, set up before the shell runs,
\* never stops.  Nothing is assumed of the user.
FairSpec == Spec /\ WF_vars(Main) /\ WF_vars(Timer)
---------------------------------------------------------------------------
InOrder(q, last) ==
  /\ \A i, j \in DOMAIN q : i < j => q[i].n <= q[j].n
  /\ \A i \in DOMAIN q : last <= q[i].n

\* Whatever is taken from the middle of the apps' queue while keys arrive, what
\* the shell and the apps read comes in the order it was typed.
KeysInOrder == InOrder(kbd, shellGot) /\ InOrder(appq, appGot)

\* "durante switcher, kbd_route manda tudo p/ appq (nao divide digitacao)"
\* (contexto.txt:237): the shell's queue has no key typed since the switcher came on.
SwitcherKeysStayOut == switcherOn => \A i \in DOMAIN kbd : kbd[i].n <= onAt

\* No lost wake-up, no modal loop that keeps the shell or the editor from its keys: what
\* the shell's queue holds is read, unless a modal app has the focus.
ShellServed == (kbd # <<>>) ~> (kbd = <<>> \/ focus = "modal")

\* Alt+Tab does not stay in the apps' queue, whoever has the focus, unless the editor
\* comes to have the screen: gui_poll then returns before it looks (gui.c:4239).  With a
\* focus that sends keys to the apps' queue only Alt+T ends that, and then Esc.
HotkeyServed == Waiting("switch") ~> (~Waiting("switch") \/ editor)
=============================================================================
