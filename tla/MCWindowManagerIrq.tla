------------------------ MODULE MCWindowManagerIrq ------------------------
(* The terminal and two other windows. *)
EXTENDS WindowManagerIrq

CONSTANTS term, note, calc

MCWin == {term, note, calc}
=============================================================================
