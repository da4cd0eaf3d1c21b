-------------------------- MODULE MCWindowManager --------------------------
(* Four kinds of windows for a table wins[] of three entries, so that it    *)
(* fills up as the real one (16 kinds, 15 entries) does; two of the kinds   *)
(* run a modal loop.  SmallApp is what the dock and the icons open.         *)
EXTENDS WindowManager

CONSTANTS term, note, expl, calc

MCApp    == {term, note, expl, calc}
SmallApp == {term, note, expl}
MCEsc    == {note, calc}
=============================================================================
