------------------------------- MODULE Screen -------------------------------
(***************************************************************************)
(* How what changes on the desktop comes to be seen (gui.c): the dirty     *)
(* rectangle, gui_poll and gui_draw, and fb_present_rect, which copies the *)
(* back buffer or asks the SVGA device for an update (SvgaFifo).           *)
(*                                                                         *)
(* The screen is a row of cells and a rectangle an interval of them.  What *)
(* the cells hold is abstracted to which of them are stale (not drawn as   *)
(* the state of the desktop has them), which are unseen (the glass does    *)
(* not show the buffer that is drawn to) and which hold an image of the    *)
(* cursor.  The mouse interrupt moves the cursor at any moment; gui_poll   *)
(* and gui_draw read mouse_x and mouse_y several times in a frame.         *)
(***************************************************************************)
EXTENDS SvgaFifo

CONSTANTS
  Width,     \* cells
  Pointer,   \* the cells the mouse reaches: none without a mouse
  Bare       \* the windows (rectangles) whose changes set gui_dirty and no more

Cells == 0 .. Width - 1

ASSUME ScreenAssumption ==
  /\ Width \in Nat \ {0} /\ Pointer \subseteq Cells /\ Bare \subseteq Rect
  /\ Rect = {lo .. hi : lo \in Cells, hi \in Cells} \ {{}}

VARIABLES
  stale, unseen,
  surface,    \* where gui_draw draws: "back", "front" (a large screen), "direct" (svga_direct)
  accel,      \* svga_accel_on()
  dirty,      \* gui_dirty
  area,       \* the dirty rectangle, {} when dirty_on is 0
  full,       \* full_draw
  editor,     \* gui_editor
  stage,      \* of gui_poll: "idle", "new", "last", "pace", and in a frame
              \* "clip", "draw", "cursor", "clear", "present"
  clip,       \* the rectangle of this frame
  age,        \* ticks since last_frame, 2 for more
  bare,       \* cells changed with no rectangle, and not drawn since
  raced,      \* the same, changed by Alt+T while gui_draw was running
  dropped,    \* cells whose last update the ring had no room for
  mouse,      \* mouse_x, mouse_y
  moved,      \* mouse_dirty
  last,       \* last_cx, last_cy
  images,     \* cells with an image of the cursor
  known,      \* the cursor is still where gui_poll last found it
  strays      \* cells where the cursor was drawn while it was not, and not drawn since

flags == <<dirty, area, full>>
frame == <<stage, clip, age>>
pointer == <<mouse, moved, known>>
cursor == <<last, images, strays>>
screenVars ==
  <<fifo, stale, unseen, surface, accel, flags, editor, frame, bare, raced, dropped, pointer, cursor>>

OffScreen == -1

Hull(s) == {c \in Cells : \E a, b \in s : a <= c /\ c <= b}

\* Mutant: the rectangle of the last change replaces the others.
InvalidateLast(r) ==
  area' = (IF r = {} THEN area ELSE r) /\ dirty' = (dirty \/ r # {}) /\ UNCHANGED full

\* A rectangle outside the screen is none.
Invalidate(r) == area' = Hull(area \cup r) /\ dirty' = (dirty \/ r # {}) /\ UNCHANGED full

MarkDirty == full' = TRUE /\ dirty' = TRUE /\ UNCHANGED area
---------------------------------------------------------------------------
(* What changes the desktop, between two calls of gui_poll or in it. *)

\* In gui_poll it is app_hotkeys, the clock, the cube and the switcher, and gui_mouse,
\* after the pacing and before gui_draw.
Calm == stage \in {"idle", "pace", "clip"} /\ ~editor

\* Clock, terminal, cube, a window dragged: the rectangle that changes is invalidated.
Change(r) ==
  /\ Calm
  /\ stale' = stale \cup r /\ Invalidate(r)
  /\ UNCHANGED <<fifo, unseen, surface, accel, editor, frame, bare, raced, dropped, pointer, cursor>>

\* Windows, focus, wallpaper: the whole screen.
ChangeAll ==
  /\ Calm
  /\ stale' = Cells /\ MarkDirty
  /\ UNCHANGED <<fifo, unseen, surface, accel, editor, frame, bare, raced, dropped, pointer, cursor>>

\* Another resolution, which may put the cursor back on the screen.
Resize ==
  /\ Calm
  /\ stale' = Cells /\ MarkDirty
  /\ mouse' \in Pointer \ {mouse} /\ known' = FALSE
  /\ UNCHANGED <<fifo, unseen, surface, accel, editor, frame, bare, raced, dropped, moved, cursor>>

\* Calculator, calendar, switcher: the flag is set and no rectangle.
ChangeBare(r) ==
  /\ Calm /\ r \in Bare
  /\ stale' = stale \cup r /\ dirty' = TRUE /\ bare' = bare \cup r
  /\ UNCHANGED <<fifo, unseen, surface, accel, area, full, editor, frame, raced, dropped, pointer, cursor>>

\* The mouse interrupt, at any moment: a movement, or a button where the cursor is.
MoveTo(c) == mouse' = c /\ moved' = TRUE /\ known' = (known /\ c = mouse)
Move ==
  /\ Pointer # {} /\ \E c \in Pointer \cup {mouse} : MoveTo(c)
  /\ UNCHANGED <<fifo, stale, unseen, surface, accel, flags, editor, frame, bare, raced, dropped, cursor>>

\* Where two reads, of mouse_x and of mouse_y, find the cursor: the interrupt may come
\* between them, and then that may be a cell it never was in.
ReadAt(c) ==
  \/ c = mouse /\ UNCHANGED pointer
  \/ c \in Cells /\ \E d \in Pointer \ {mouse} : MoveTo(d)

\* Alt+T in the keyboard interrupt, at any moment: gui_draw may be about to clear the flags.
AltT ==
  /\ stale' = Cells /\ MarkDirty
  /\ raced' = IF stage \in {"draw", "cursor", "clear"} THEN Cells ELSE raced
  /\ UNCHANGED <<fifo, unseen, surface, accel, editor, frame, bare, dropped, pointer, cursor>>

\* The console editor draws on the framebuffer itself, whatever surface is drawn to.
Enter ==
  /\ stage = "idle" /\ ~editor /\ editor' = TRUE
  /\ unseen' = IF surface = "front" THEN unseen ELSE Cells
  /\ stale' = (IF surface = "back" THEN stale ELSE Cells)
  /\ images' = IF surface = "back" THEN images ELSE {}
  /\ UNCHANGED <<fifo, surface, accel, flags, frame, bare, raced, dropped, pointer, last, strays>>

\* Mutant: the desktop is not marked.
ExitClean ==
  /\ editor /\ editor' = FALSE
  /\ UNCHANGED <<fifo, stale, unseen, surface, accel, flags, frame, bare, raced, dropped, pointer, cursor>>

Exit ==
  /\ editor /\ editor' = FALSE /\ MarkDirty
  /\ UNCHANGED <<fifo, stale, unseen, surface, accel, frame, bare, raced, dropped, pointer, cursor>>
---------------------------------------------------------------------------
(* gui_poll. *)

\* Once the accelerator is there, drawing moves to the framebuffer of the device.
Migrate ==
  /\ stage = "idle" /\ ~editor /\ accel /\ surface # "direct"
  /\ surface' = "direct" /\ stale' = Cells /\ unseen' = Cells /\ MarkDirty
  /\ UNCHANGED <<fifo, accel, editor, frame, bare, raced, dropped, pointer, cursor>>

polling == <<fifo, stale, unseen, surface, accel, editor, clip, bare, raced, dropped>>

\* mouse_dirty is cleared before the cursor is looked at, and first the rectangle of its
\* last place is invalidated.
Poll ==
  /\ stage = "idle" /\ ~editor /\ (moved \/ dirty) /\ (accel => surface = "direct")
  /\ IF moved
     THEN /\ stage' = "new" /\ moved' = FALSE
          /\ Invalidate({last} \cap Cells)
     ELSE stage' = "pace" /\ UNCHANGED <<moved, flags>>
  /\ UNCHANGED <<polling, age, mouse, known, cursor>>

\* Four reads give the rectangle: with the interrupt among them another one, or none.
PollNew ==
  /\ stage = "new" /\ stage' = "last"
  /\ \/ Invalidate({mouse}) /\ UNCHANGED pointer
     \/ /\ \E r \in Rect \cup {{}} : Invalidate(r)
        /\ \E d \in Pointer \ {mouse} : MoveTo(d)
  /\ UNCHANGED <<polling, age, cursor>>

\* Mutant: mouse_dirty is cleared when all is done.
PollLastClears ==
  /\ stage = "last" /\ stage' = "pace"
  /\ last' = mouse /\ known' = TRUE /\ moved' = FALSE
  /\ \E r \in Rect \cup {{}} : Invalidate(r)
  /\ UNCHANGED <<polling, age, mouse, images, strays>>

\* An open start menu is invalidated with the cursor.
PollLast ==
  /\ stage = "last" /\ stage' = "pace"
  /\ \/ last' = mouse /\ known' = TRUE /\ UNCHANGED <<mouse, moved>>
     \/ last' \in Cells /\ \E d \in Pointer \ {mouse} : MoveTo(d)
  /\ \E r \in Rect \cup {{}} : Invalidate(r)
  /\ UNCHANGED <<polling, age, images, strays>>

\* Mutant: last_frame is set before it is compared.
PaceRestarts ==
  /\ stage = "pace" /\ stage' = (IF dirty /\ age = 2 THEN "clip" ELSE "idle") /\ age' = 0
  /\ UNCHANGED <<polling, flags, pointer, cursor>>

\* Two ticks between frames.
Pace ==
  /\ stage = "pace"
  /\ IF dirty /\ age = 2 THEN stage' = "clip" /\ age' = 0 ELSE stage' = "idle" /\ UNCHANGED age
  /\ UNCHANGED <<polling, flags, pointer, cursor>>

SetClip ==
  /\ stage = "clip" /\ stage' = "draw"
  /\ clip' = IF full \/ area = {} THEN Cells ELSE area
  /\ UNCHANGED <<fifo, stale, unseen, surface, accel, flags, editor, age, bare, raced, dropped, pointer, cursor>>

Draw ==
  /\ stage = "draw" /\ stage' = "cursor"
  /\ stale' = stale \ clip /\ bare' = bare \ clip /\ raced' = raced \ clip
  /\ images' = images \ clip /\ strays' = strays \ clip
  /\ unseen' = IF surface = "front" THEN unseen \ clip ELSE unseen \cup clip
  /\ UNCHANGED <<fifo, surface, accel, flags, editor, clip, age, dropped, pointer, last>>

\* draw_cursor, within the clip.
DrawCursor ==
  /\ stage = "cursor" /\ stage' = "clear"
  /\ \E c \in Cells :
       /\ ReadAt(c)
       /\ images' = images \cup ({c} \cap clip)
       /\ strays' = IF known' THEN strays ELSE strays \cup ({c} \cap clip)
       /\ unseen' = IF surface = "front" THEN unseen ELSE unseen \cup ({c} \cap clip)
  /\ UNCHANGED <<fifo, stale, surface, accel, flags, editor, clip, age, bare, raced, dropped, last>>

Clear ==
  /\ stage = "clear" /\ stage' = "present"
  /\ dirty' = FALSE /\ area' = {} /\ full' = FALSE
  /\ UNCHANGED <<polling, age, pointer, cursor>>

\* fb_present_rect without the device.
Present ==
  /\ stage = "present" /\ surface # "direct" /\ stage' = "idle" /\ clip' = {}
  /\ unseen' = IF surface = "back" THEN unseen \ clip ELSE unseen
  /\ UNCHANGED <<fifo, stale, surface, accel, flags, editor, age, bare, raced, dropped, pointer, cursor>>

\* fb_present_rect with it, in the steps of fifo_cmd.  The result is not looked at.
AskUpdate ==
  /\ stage = "present" /\ surface = "direct" /\ Reserve(clip)
  /\ UNCHANGED <<stale, unseen, surface, accel, flags, editor, frame, bare, raced, dropped, pointer, cursor>>
PutUpdate ==
  Put /\ UNCHANGED <<stale, unseen, surface, accel, flags, editor, frame, bare, raced, dropped, pointer, cursor>>
SendUpdate ==
  /\ Commit /\ stage' = "idle" /\ clip' = {} /\ dropped' = dropped \ clip
  /\ UNCHANGED <<stale, unseen, surface, accel, flags, editor, age, bare, raced, pointer, cursor>>
LoseUpdate ==
  /\ stage = "present" /\ surface = "direct" /\ cmd = NoCmd /\ CannotReserve
  /\ stage' = "idle" /\ clip' = {} /\ dropped' = dropped \cup clip
  /\ UNCHANGED <<fifo, stale, unseen, surface, accel, flags, editor, age, bare, raced, pointer, cursor>>

Refresh ==
  /\ Execute /\ unseen' = unseen \ mem[stop]
  /\ UNCHANGED <<stale, surface, accel, flags, editor, frame, bare, raced, dropped, pointer, cursor>>

Tick ==
  /\ age < 2 /\ age' = age + 1
  /\ UNCHANGED <<fifo, stale, unseen, surface, accel, flags, editor, stage, clip, bare, raced, dropped, pointer, cursor>>
---------------------------------------------------------------------------
\* gui_init: a back buffer if the screen is no larger, and everything is dirty.
ScreenInit ==
  /\ FifoInit /\ stale = Cells /\ unseen = Cells
  /\ surface \in {"back", "front"} /\ accel \in BOOLEAN
  /\ dirty = TRUE /\ area = {} /\ full = TRUE /\ editor = FALSE
  /\ stage = "idle" /\ clip = {} /\ age = 2 /\ bare = {} /\ raced = {} /\ dropped = {}
  /\ mouse = Width \div 2 /\ moved = FALSE /\ last = OffScreen /\ known = FALSE
  /\ images = {} /\ strays = {}

Drawing == \/ Migrate \/ Poll \/ PollNew \/ PollLast \/ Pace
           \/ SetClip \/ Draw \/ DrawCursor \/ Clear \/ Present
           \/ AskUpdate \/ PutUpdate \/ SendUpdate \/ LoseUpdate

ScreenNext ==
  \/ \E r \in Rect : Change(r) \/ ChangeBare(r)
  \/ ChangeAll \/ Resize \/ Move \/ AltT \/ Enter \/ Exit \/ Drawing \/ Refresh \/ Tick

ScreenSpec == ScreenInit /\ [][ScreenNext]_screenVars

\* gui_poll is called from every loop that waits for a key; the timer ticks.
ScreenFairSpec == ScreenSpec /\ WF_screenVars(Drawing) /\ WF_screenVars(Tick)
---------------------------------------------------------------------------
Settled == stage = "idle" /\ ~dirty /\ ~editor

\* When nothing is dirty every cell is drawn as it should be, but for those changed
\* with a bare store of the flag (gui.c:4017), if some other has a rectangle, or by Alt+T while gui_draw runs.
AllDrawn == Settled => stale \subseteq bare \cup raced

\* No bare store of gui_dirty is left (contexto.txt:198).  Does not hold.
NoBareStore == Settled => stale \subseteq raced

\* When the mouse is at rest too the cursor is drawn where it is, and nowhere else but
\* where gui_draw drew it at a place gui_poll did not know of.
CursorDrawn == Settled /\ ~moved => mouse \in images /\ images \subseteq {mouse} \cup strays

\* gui_poll invalidates the old cursor and the new (gui.c:4255): no other is left.  Does
\* not hold, for an image drawn at a place gui_poll did not know of.
OneCursor == Settled /\ ~moved => images = {mouse}

\* And the glass shows what is drawn, but for updates the device has still to execute
\* and those that were dropped (gui.c:116 looks at no result).
AllSeen == Settled => unseen \subseteq dropped \cup UNION {Queued[k] : k \in DOMAIN Queued}

\* The ring hands every update it takes to the device, whole and in order.
Updates == INSTANCE FrameQueue WITH
  Frame <- Rect, queue <- Queued, Capacity <- Words \div CmdWords
UpdatesSpec == Updates!Spec

\* What is dirty is drawn in the end, however much changes meanwhile.
DrawnInTheEnd == dirty ~> (~dirty \/ editor)
=============================================================================
