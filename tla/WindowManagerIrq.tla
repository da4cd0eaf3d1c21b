-------------------------- MODULE WindowManagerIrq --------------------------
(***************************************************************************)
(* win_open, win_focus and win_close store by store, in the order of the   *)
(* source, while the keyboard interrupt runs gui_focus_term() (Alt+T) to   *)
(* its end between any two stores: zorder[], zcount and focused are plain  *)
(* statics and no caller turns interrupts off.  WindowManager is the same  *)
(* code with each function as one step.  Here each window has its own      *)
(* entry of wins[], so a window and its index are the same.                *)
(***************************************************************************)
EXTENDS Integers, FiniteSets

CONSTANTS
  Win,        \* the windows, a finite set
  Term,       \* the terminal
  None        \* focused = -1

Place == 0 .. Cardinality(Win) - 1

VARIABLES
  used,       \* the windows that exist
  min,        \* those that are minimized
  zorder, zcount, focused,
  pc,         \* "idle", or which statement of which function is next
  w,          \* the argument of the function
  at          \* its loop variable

vars == <<used, min, zorder, zcount, focused, pc, w, at>>

Listed == {zorder[i] : i \in {j \in Place : j < zcount}}
---------------------------------------------------------------------------
(* Alt+T, in the interrupt. *)

\* win_raise as a whole.
Raised(z, idx) ==
  LET here == {i \in Place : i < zcount /\ z[i] = idx}
      i    == CHOOSE k \in here : \A j \in here : k <= j
  IN IF here = {} THEN z
     ELSE [k \in Place |-> CASE k = zcount - 1         -> idx
                             [] i <= k /\ k < zcount - 1 -> z[k + 1]
                             [] OTHER                  -> z[k]]

\* gui_focus_term raises the terminal, and then win_focus does it again.
AltT ==
  /\ Term \in used
  /\ zorder' = Raised(Raised(zorder, Term), Term)
  /\ min' = min \ {Term} /\ focused' = Term
  /\ UNCHANGED <<used, zcount, pc, w, at>>
---------------------------------------------------------------------------
(* The main thread. *)

Go(label) == pc' = label

\* win_focus up to the loop of win_raise.
Focus(x) ==
  /\ pc = "idle" /\ x \in used
  /\ w' = x /\ at' = 0 /\ Go("raise") /\ min' = min \ {x}
  /\ UNCHANGED <<used, zorder, zcount, focused>>

\* win_close up to its loop.
Close(x) ==
  /\ pc = "idle" /\ x \in used
  /\ w' = x /\ at' = 0 /\ Go("close") /\ used' = used \ {x}
  /\ UNCHANGED <<min, zorder, zcount, focused>>

\* win_open, for a window that is not there yet, up to the increment of zcount.
Open(x) ==
  /\ pc = "idle" /\ x \notin used
  /\ w' = x /\ at' = 0 /\ Go("count")
  /\ used' = used \cup {x} /\ min' = min \ {x}
  /\ zorder' = [zorder EXCEPT ![zcount] = x]
  /\ UNCHANGED <<zcount, focused>>

OpenCount ==
  /\ pc = "count" /\ Go("raise") /\ zcount' = zcount + 1
  /\ UNCHANGED <<used, min, zorder, focused, w, at>>

\* The loop that looks for the window: of win_raise and of win_close.
Scan ==
  /\ pc \in {"raise", "close"}
  /\ IF at >= zcount THEN Go(IF pc = "raise" THEN "focus" ELSE "refocus") /\ UNCHANGED at
     ELSE IF zorder[at] = w
          THEN Go(IF pc = "raise" THEN "shift" ELSE "closeshift") /\ UNCHANGED at
          ELSE at' = at + 1 /\ UNCHANGED pc
  /\ UNCHANGED <<used, min, zorder, zcount, focused, w>>

\* The loop that closes the gap, one store each.
Shift ==
  /\ pc \in {"shift", "closeshift"} /\ at + 1 < zcount
  /\ zorder' = [zorder EXCEPT ![at] = zorder[at + 1]] /\ at' = at + 1
  /\ UNCHANGED <<used, min, zcount, focused, pc, w>>

PutOnTop ==
  /\ pc = "shift" /\ at + 1 >= zcount
  /\ zorder' = [zorder EXCEPT ![zcount - 1] = w] /\ Go("focus")
  /\ UNCHANGED <<used, min, zcount, focused, w, at>>

CountDown ==
  /\ pc = "closeshift" /\ at + 1 >= zcount
  /\ zcount' = zcount - 1 /\ Go("refocus")
  /\ UNCHANGED <<used, min, zorder, focused, w, at>>

\* focused = idx, the end of win_focus.
SetFocus ==
  /\ pc = "focus" /\ focused' = w /\ Go("idle")
  /\ UNCHANGED <<used, min, zorder, zcount, w, at>>

\* The end of win_close.
Refocus ==
  /\ pc = "refocus" /\ Go("idle")
  /\ focused' = IF focused # w THEN focused
                ELSE IF zcount > 0 THEN zorder[zcount - 1] ELSE None
  /\ UNCHANGED <<used, min, zorder, zcount, w, at>>

\* The terminal is open when the shell starts.
Init ==
  /\ used = {Term} /\ min = {} /\ focused = Term
  /\ zorder = [i \in Place |-> Term] /\ zcount = 1
  /\ pc = "idle" /\ w = Term /\ at = 0

Main ==
  \/ \E x \in Win : Focus(x) \/ Close(x) \/ Open(x)
  \/ OpenCount \/ Scan \/ Shift \/ PutOnTop \/ CountDown \/ SetFocus \/ Refocus

Next == Main \/ AltT

Spec == Init /\ [][Next]_vars
---------------------------------------------------------------------------
\* "Alt+T: devolve o foco ao terminal" (gui.c:1145): whatever it interrupts, the
\* terminal is in the z-order afterwards, where it is drawn and can be raised.
TermStaysListed == pc = "idle" /\ Term \in used => Term \in Listed
=============================================================================
