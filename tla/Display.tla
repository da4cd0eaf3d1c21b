------------------------------ MODULE Display ------------------------------
(***************************************************************************)
(* The resolution after the start: res_apply (gui.c) and svga_set_mode     *)
(* (svga.c) change the mode of the card while the handler of the mouse     *)
(* moves the cursor, and the card may move its frame buffer some time      *)
(* after the change.  Widths stand for heights too.                        *)
(***************************************************************************)
EXTENDS Boot

CONSTANTS
  Mode,        \* the widths offered by the settings, in their order
  BootMode,    \* the widths the boot loader may have set (`make RES=`)
  Least, Most, \* what svga_set_mode takes: 640 and 1024; fb_back holds Most
  BackPitch,   \* the longest line that fb_back holds
  Address,     \* where the card puts its frame buffer
  NoAddress,   \* FB_START reads 0
  Step,        \* how far a packet moves the cursor
  MaxChanges   \* bound: how often the resolution is changed

ASSUME DisplayAssumption ==
  /\ Mode \in Seq(Nat \ {0}) /\ Mode # <<>> /\ BootMode \subseteq Nat \ {0}
  /\ MaxChanges \in Nat /\ Step \subseteq Int
  /\ NoAddress \notin Address

VARIABLES
  scanout,     \* what the card shows: [at, width, pitch]
  fb, fb_w, fb_pitch, draw_stride,
  use_back,    \* drawn into fb_back and copied; else into the frame buffer
  direct,      \* svga_direct: drawn into the frame buffer, with updates by the card
  draw,        \* where gui_draw draws: fb_back, or an address
  cfg_res,     \* the mode the settings show
  settling,    \* res_apply waits 300 ms
  mouse_x,
  lost,        \* the last change was given up after the card was told of it
  changes

display == <<scanout, fb, fb_w, fb_pitch, draw_stride, use_back, direct, draw, cfg_res, settling,
             mouse_x, lost, changes>>
displayVars == <<bootVars, display>>

Back == "fb_back"
Shell == Booted /\ gui_active /\ ~settling

Within(x, w) == IF x < 0 THEN 0 ELSE IF x >= w THEN w - 1 ELSE x

\* Some cards have longer lines than pixels.
Shown(at, w, long) == [at |-> at, width |-> w, pitch |-> IF long THEN w + 1 ELSE w]
---------------------------------------------------------------------------
\* svga_set_mode refuses a width it cannot show, before it touches the card; a card that
\* gives no largest width is not asked.
Refused(w) ==
  ~svga_present \/ w < Least \/ w > Most \/ (machine.max_w # 0 /\ w > machine.max_w)

NextMode == (cfg_res % Len(Mode)) + 1

\* A click on the resolution in the settings, in gui_mouse: gui_poll has been past
\* DrawDirect.
Clicked ==
  /\ Shell /\ changes < MaxChanges /\ (fifo_ok => direct)
  /\ cfg_res' = NextMode /\ changes' = changes + 1

\* Without the card only the settings change.
ResRefused ==
  /\ Clicked /\ Refused(Mode[NextMode])
  /\ UNCHANGED <<bootVars, scanout, fb, fb_w, fb_pitch, draw_stride, use_back, direct, draw,
                 settling, mouse_x, lost>>

\* The card stays busy after it was switched off, or after the new mode was set; or it has
\* the mode and FB_START reads 0.
ResGivenUp(at, long) ==
  /\ Clicked /\ ~Refused(Mode[NextMode])
  /\ lost' = TRUE /\ scanout' \in {scanout, Shown(at, Mode[NextMode], long)}
  /\ UNCHANGED <<bootVars, fb, fb_w, fb_pitch, draw_stride, use_back, direct, draw, settling, mouse_x>>

ResApply(at, long) ==
  /\ Clicked /\ ~Refused(Mode[NextMode]) /\ at # NoAddress
  /\ scanout' = Shown(at, Mode[NextMode], long) /\ lost' = FALSE
  /\ fb' = at /\ fb_w' = Mode[NextMode]
  /\ fb_pitch' = scanout'.pitch /\ draw_stride' = scanout'.pitch
  /\ draw' = IF direct THEN at ELSE draw
  /\ settling' = TRUE
  /\ UNCHANGED <<bootVars, use_back, direct, mouse_x>>

Relocate(at) ==
  /\ settling /\ scanout' = [scanout EXCEPT !.at = at]
  /\ UNCHANGED <<bootVars, fb, fb_w, fb_pitch, draw_stride, use_back, direct, draw, cfg_res,
                 settling, mouse_x, lost, changes>>

\* Mutant: the address is not read again.
FbStartOnce == fb

\* The address read again, and kept if the card says none.
FbStart == IF scanout.at = NoAddress THEN fb ELSE scanout.at

\* Mutant: the cursor stays where it is.
KeptCursor == mouse_x

CursorAfter == IF mouse_x >= fb_w THEN fb_w - 1 ELSE mouse_x

ResSettled ==
  /\ settling /\ settling' = FALSE
  /\ fb' = FbStart /\ draw' = IF direct THEN FbStart ELSE draw
  /\ mouse_x' = CursorAfter /\ lost' = (scanout.at = NoAddress)
  /\ UNCHANGED <<bootVars, scanout, fb_w, fb_pitch, draw_stride, use_back, direct, cfg_res, changes>>

\* The handler of the mouse, between any two steps of the rest.
MoveCursor(dx) ==
  /\ status["mouse"] = 0 /\ mouse_x' = Within(mouse_x + dx, fb_w)
  /\ UNCHANGED <<bootVars, scanout, fb, fb_w, fb_pitch, draw_stride, use_back, direct, draw,
                 cfg_res, settling, lost, changes>>

\* gui_poll: once the card can fill rectangles the frame buffer is drawn into directly.
DrawDirect ==
  /\ Shell /\ ~direct /\ fifo_ok
  /\ direct' = TRUE /\ draw' = fb /\ draw_stride' = fb_pitch
  /\ UNCHANGED <<bootVars, scanout, fb, fb_w, fb_pitch, use_back, cfg_res, settling, mouse_x, lost,
                 changes>>

---------------------------------------------------------------------------
\* gui_init takes the frame buffer of the boot loader, and fb_back if it is large enough; the
\* cursor starts in the middle, and the settings at the first mode whatever the mode is.
DisplayInit ==
  /\ BootInit
  /\ \E at \in Address, w \in BootMode, long \in BOOLEAN : scanout = Shown(at, w, long)
  /\ fb = scanout.at /\ fb_w = scanout.width /\ fb_pitch = scanout.pitch /\ draw_stride = fb_pitch
  /\ use_back = (fb_w <= Most /\ fb_pitch <= BackPitch)
  /\ direct = FALSE /\ draw = (IF use_back THEN Back ELSE fb) /\ cfg_res = 1 /\ settling = FALSE
  /\ mouse_x = fb_w \div 2 /\ lost = FALSE /\ changes = 0

DisplayNext ==
  \/ BootStep /\ UNCHANGED display
  \/ ResRefused
  \/ \E at \in Address \cup {NoAddress}, long \in BOOLEAN : ResGivenUp(at, long) \/ ResApply(at, long)
  \/ \E at \in Address \cup {NoAddress} : Relocate(at)
  \/ ResSettled \/ DrawDirect
  \/ \E dx \in Step : MoveCursor(dx)

DisplaySpec == DisplayInit /\ [][DisplayNext]_displayVars
---------------------------------------------------------------------------
\* Between two frames the driver has the geometry and the address that the card has, though
\* the card may move its frame buffer after the change, and draws where that asks for: into
\* fb_back, or where the card draws too (gui.c:675-702).  A change given up halfway is left
\* out, and of a large frame buffer without acceleration DrawnWhereShown speaks.
ScreenFollows ==
  Shell /\ ~lost =>
    /\ fb = scanout.at /\ fb_pitch = scanout.pitch /\ fb_w = scanout.width /\ draw_stride = scanout.pitch
    /\ direct \/ use_back => draw = IF direct THEN scanout.at ELSE Back

\* "framebuffer pode RELOCAR no switch!" (gui.c:682): what is drawn goes to fb_back or to
\* where the frame buffer is now.  Does not hold: without svga_direct `draw` is not moved, and
\* after a boot in a mode larger than fb_back it is the address of the old frame buffer.
DrawnWhereShown == Shell /\ ~lost => draw \in {Back, scanout.at}

\* The cursor is on the screen whenever a frame may be drawn, though the handler of the
\* mouse runs between the change of the resolution and the end of res_apply.
CursorInside == Shell => mouse_x \in 0 .. fb_w - 1
=============================================================================
