# A TLA+ development of Mapple OS

Mapple OS is a hobby x86-64 kernel: one main thread (a shell, a window manager
that the shell polls, desktop apps), four interrupt handlers, and drivers, all in
one address space, without memory allocation and without processes.  The sources
are under `src/src/1.0/`; line numbers below are of that directory.

This directory holds models of its core, the TLC configurations that check them,
and proofs for TLAPS.  `PROJECT.json` has the tables: the components, which
definition models which lines, the runs, the hazards, the findings and the theorems.

    tlc -workers 2 -config MCWindowManager.cfg MCWindowManager.tla
    tlapm WindowManager_proofs.tla

## 1. The system

### How it runs

`kmain` (kernel.c) sets up devices, opens the terminal window and calls
`shell_run`, which never returns in practice.  From then on there is

- **the main thread**: `keyboard_getraw` loops over "run the loop of a modal app,
  if one has the focus", "pop a key", "`gui_poll`", "`hlt`".  `gui_poll` takes
  hotkeys, samples the mouse (`gui_mouse`), and draws.  All window management and
  all commands happen here, except one thing:
- **the keyboard interrupt**, which routes each key to the shell's ring `kbd_buf`
  or to the apps' ring `appq`, and for Alt+T itself changes focus and z-order;
- **the timer interrupt** (100 Hz), which counts ticks and ends `hlt`;
- **the mouse interrupt**, which assembles packets and sets position and buttons.

Interrupts are off (`cli`) only around the pops of the two rings.  The network
card and the graphics card raise none that is used: the drivers poll them.

### Components

| component | state | operations | interacts with |
|---|---|---|---|
| window manager, `gui.c` 1036-1242, 3797-4095 | `wins[15]`, `zorder[]`, `zcount`, `focused`, `dragging`, saved geometry, menu, last button | open, focus, raise, close, minimize, maximize, drag, hit test | shell commands and modal loops open and close windows; the keyboard interrupt runs `gui_focus_term` |
| switcher, `gui.c` 1778-1856 | `switcher_on`, `switcher_pos`, deadline | next, confirm, cancel, timeout | Alt+Tab through either queue; routing of keys |
| keyboard driver and queues, `keyboard.c`, `gui.c` 984-1034, 4190-4231 | `kbd_buf`, `appq` with their heads and tails, modifiers | push (interrupt), pop, take from the middle | focus and switcher decide the route |
| mouse driver, `mouse.c` | the packet being gathered, position, buttons | start, packet byte | shares the PS/2 controller with the keyboard |
| file system, `fs.c` | 32 file slots, 32 directory names, the ROM | resolve, read, write, touch, mkdir, rm, list | shell, editors, explorer, browser |
| shell, `shell.c` | line, history, cwd, exit flag, one global capture buffer in `kernel.c` | line editor, some 64 applets, redirection, nested `sh` | everything |
| editors, `edit.c`, Notepad in `gui.c` | buffer, length, cursor, view | edit keys, save, exit | file system |
| console and terminal, `kernel.c`, `vga.c`, `gui.c` 843-969 | escape parser, grid, scrollback, capture | put a character, clear, scroll | shell |
| compositor, `gui.c` | dirty rectangle, `gui_dirty`, `full_draw` | invalidate, mark, draw, present | all windows, the SVGA device |
| SVGA driver, `svga.c` | the command ring, the mode | reserve, put, commit; set a mode | compositor, settings |
| network stack, `net.c` | ARP cache, addresses | poll, learn, answer, ping | e1000 |
| e1000, `e1000.c` | two descriptor rings, one transmit buffer | send, receive | the card |
| boot, PCI, ATA, `hwdetect.c`, driver registry | the device table, the drives, `drv_status` | scan, probe, mark | each later step reads what the earlier ones left |
| apps, browser (`browser.cpp`), C interpreter (`cc.c`) | their own | their own | file system, window manager |
| timer, clock, speaker, `libc.c`, `bmp.c`, `font.c` | counters, tables | | |

### What is hard, and what correct means

- *Window manager.*  Four arrays and indices edited by hand in some fifteen places.
  Correct: the z-order lists each window exactly once, the focus is its top, no
  two windows of a kind, no dead or hidden window is dragged, and nothing but a
  focus changes the relative order of windows.  The table has fewer entries than
  there are kinds of windows.
- *Switcher.*  It ends; it only names windows that exist.
- *Keys.*  Two queues filled in an interrupt and read in three loops with different
  locking: keys come in order, none twice, none in the wrong queue, no lost
  wake-up, no loop that keeps the shell from reading.
- *PS/2.*  Two handlers and a polling loop read one register.  Correct: the
  modifiers are those held down, a packet is not put together of bytes of two,
  the start of the mouse does not switch the keyboard off.
- *File system.*  The arrays behave as a map over a read-only tree; a failing call
  changes nothing; a listing shows exactly what exists.
- *Editors.*  They edit a text; the cursor is on the screen; what they call saved is.
- *Shell.*  The screen shows the line being edited; capture does not leak from one
  command into another, nor outlive the stack frame its buffer is in.
- *Compositor.*  What changed is drawn, and what is drawn is seen, in the end; the cursor
  is where the mouse is, which an interrupt moves while a frame is drawn.
- *Network.*  Bounded waits against late, lost, repeated and foreign answers.
- *Cards.*  Rings at their limits, one buffer for all descriptors, timeouts.
- *Start.*  Each step finds what it needs, on whatever machine.

`PROJECT.json`, "hazards", lists all we know of at the line where each bites.

## 2. The modules

| module | models | kind |
|---|---|---|
| `WindowManager` | window table, z-order, focus, drag, maximize, switcher, menu, mouse handler | system, each C function atomic |
| `WindowManagerIrq` | `win_open`, `win_focus`, `win_close` store by store against Alt+T | system, fine grain |
| `KeyQueue` | a bounded queue with removal from the middle in three steps | abstract specification |
| `KeyRing` | `kbd_buf` and `appq`: cells, head, tail, wrapping | system, refines `KeyQueue` |
| `KeyInput` | both queues, interrupts, the shell's loop, the modal loop, `gui_poll`, `hlt` | composition: two instances of `KeyQueue` |
| `Ps2` | the controller, both handlers, `mouse_init` | system with its hardware |
| `FileStore` | what the file system promises: a map and a set | abstract specification |
| `FileSystem` | file slots, directory array, the ROM | system, refines `FileStore` |
| `FileListing` | `fs_list` with its `seen[]` | operators over `FileSystem` |
| `PathNames` | `fs_resolve` on its arrays | operators, with a reference definition |
| `TextBuffer` | a text with a cursor | abstract specification |
| `Editor` | `edit.c` and the Notepad on their arrays | system, refines `TextBuffer` |
| `Console` | `console_putc` on both screens: the row of the cursor, the escape parser | operators |
| `Shell` | line editor, history, completion, calls of `sh_exec`, capture, nested `sh` | composition: `EXTENDS Console` |
| `FrameQueue` | a bounded queue that loses what finds no room | abstract specification |
| `E1000` | both descriptor rings and the card | system, its receive ring refines `FrameQueue` |
| `Net` | ARP cache, answers, `ping_cmd`, and a network that fails | composition: an instance of `FrameQueue` for the card |
| `SvgaFifo` | the command ring and the device that reads it | system, actions for `Screen` |
| `Screen` | dirty rectangles, `gui_poll`, `gui_draw`, presentation | composition: `EXTENDS SvgaFifo`; the ring refines `FrameQueue` |
| `Pci`, `Ata` | the scan of the bus; the two probes of the drives | operators; operators on the drives' state |
| `Boot` | `kmain`, the detection, the driver registry | composition: `EXTENDS Pci, Ata` |
| `Display` | `res_apply`, `svga_set_mode`, the cursor, a card that moves its frame buffer | composition: `EXTENDS Boot` |
| `CommonLemmas` | least and greatest element, modulo, rings of cells, counted loops and loops that end | lemmas |
| `WindowManager_proofs`, `KeyRing_proofs`, `Shell_proofs`, `Net_proofs` | the component of the name | theorems |
| `Keyboard_proofs` | `KeyInput`, `Ps2` | theorems |
| `FileSystem_proofs` | `FileSystem`, `Editor` | theorems |
| `Devices_proofs` | `E1000`, `Boot` and `Display`, `Screen` | theorems |
| `MC*` | | constants for TLC |

Definitions introduced by a comment "Mutant" are plausible bugs: a changed version of
the definition that follows, listed under "mutants" in `PROJECT.json` with the property
that tells them apart.  No action of a specification uses them.

Loops whose result the proofs speak of are recursive functions, as `scan` in `Pci`, `stack` in
`PathNames`, or `up` and `down` in `Editor`: of the state the loop is in, or of the number of its rounds.  The two lemmas
`LoopEnds` and `CountedLoop` of `CommonLemmas` say that there is such a function.
A module of proofs that holds several components extends them all; they have no state
in common, and no theorem speaks of two.

### WindowManager

The statics are the fields of one record `wm`, and each C function is an operator
from one value of it to the next, because the handlers chain them: the red button
is `WinFocus`, then `WinClose`, as in `gui_mouse`.  Actions are what enters the
window manager from outside: a command of the shell or its applets (`ShellOpen`),
Esc in a modal loop (`ModalEsc`), Alt+T, the switcher's keys and timeout, the
timer, the mouse button interrupt (`ButtonIrq`) and one action for each branch of
`gui_mouse` (`Press...`, `DragMove`, `DragEnd`).  Geometry is abstracted to which
part of which window a press hits, among the windows on the screen: any window
may cover or leave free any other, as windows can be dragged anywhere.
A divide error puts the system in the mode "fault", which nothing leaves, since the
default handler returns to the instruction that faulted (kernel.c 322-331).

### WindowManagerIrq

The program counter names the next store of `win_raise`, `win_focus`, `win_open` or
`win_close`; `AltT` may happen between any two.  The stores are in source order:
the arrays are not volatile and the compiler may do worse.  With `Main` in
the place of `Next`, that is without `AltT`, TLC finds no violation in the 942 states
there are, so what the run finds is due to the interrupt.

### KeyQueue, KeyRing, KeyInput

`KeyQueue` is the contract: push drops when full, pop takes the front, and
`appq_take` is not atomic: close the gap, read the head, store head minus one.
The search and the shift are one step because the interrupt only writes at
the head, and what the loops did last is compare with it.  The decrement is two steps
because `appq_h` is volatile: the build loads and stores it.

`KeyRing` has the cells and the two indices.  `Wrap` stands for the 256 values of
a `uint8_t`, `Size` for the cells of the array: 256 for `kbd_buf`, 128 for `appq`.
Indices past the array name the memory after it, which the model gives to the ring
alone: what it says of the order of keys in `appq` holds as long as nothing else
writes there.

`KeyInput` has the pc of the main thread: `getraw`, `pop`, `line` (the shell has a
key), `alive`, `apppop`, `app` (the modal loop has one), `poll`, `take`, `hotkey`,
`frame`, `asleep`.  `editor` is `gui_editor`: a command may be the full-screen editor, which
reads the shell's keys by the same loop (`EditorKey` in place of `LineKey`), and while it
runs `gui_poll` returns before it looks at anything.  Keys are a kind and the order they were typed in.  Windows are
abstracted to what the routing asks: whether the focus is the terminal, an app
that reads keys, another app, or nothing.  What a command, the mouse or a
confirmed switcher does to it is any change.  Each queue is taken as ideal.

### Ps2

The output buffer holds one byte; a read empties it and a read of the empty buffer
gives the last byte again.  A byte that arrives raises the interrupt of its source if
the configuration byte allows it.  `Touch` and `MoveMouse` are the user, `Load` the
arrival of a byte, `Plain`, `ExtendedEarly`, `Extended` the handler of the keyboard,
`MouseHandler` that of the mouse, and the rest `mouse_init` with its polling: between
seeing a byte in the status and reading it, the handler of the keyboard may take it.
`ExtendedEarly` is the read after the prefix 0xE0 when the byte behind it has not come.
The variables `disturbed` and `stray` only record what happened, for the properties.

### FileStore, FileSystem, FileListing, PathNames

Paths are sequences of names: `fs_resolve` has run.  `ramfs_table` and
`ramfs_dirs` are constants (generated by the Makefile).  The contents are a small
set, some of which do not fit in `FS_MAX_SIZE`.  The refinement mapping takes the
used slots to a function from paths to contents, and the array of directories to a
set.  `FileListing` computes what the callback of `fs_list` is given, in its order: the
entries of the two loops over files and the two over directories are one sequence, of which
`skip` marks those that `continue` passes over.
`PathNames` is `fs_resolve` itself, on texts, with each of its arrays as a bound; its
loops are `Tokens`, `Stack` and `Spelled`.  `Standing` says without a stack which of the
names typed are left: those below which the walk stays from then on.

### TextBuffer, Editor

`Editor` is both editors, since they differ in few places: `windowed` says which.
The array keeps what was behind the end of the text, because the loops that scroll look
there.  `Draw` is `edit_render` with the loops before it, or `draw_note_client`; edit.c
draws before each key, the Notepad at any time.  `Save(ok)` and `SaveAndExit(ok)` have
`fs_write` fail for a text that is too long or for a full table.  The mapping to
`TextBuffer` cuts the array at the cursor and at the length.

### Console, Shell

A screen is the row of the cursor, its column and the state of the escape parser; it is
text mode or the terminal window, whose rows are strings that end at a zero byte.
`Shell` has one action for each key of `sh_readline`, with what `rl_render` prints, and
the calls of `sh_exec` as a stack, each with the array `capbuf` of its frame; `cap` is
the call the global pointer `cap_buf` points into.  What a line means is chosen when it
is executed: whether it is redirected, and then step by step what its program prints,
whether it is `sh`, `exit` or `clear`.

### FrameQueue, E1000, Net

`E1000` has the descriptors with their "done" bits, head and tail of each ring, and the
card as a process of its own (`Receive`, `Transmit`).  A send is two steps, up to the
store to the tail register and the wait after it, which may give up at any time.
The network is `air`: `answered` and `counted` record, for the property, which requests of
this ping were answered and which answers it counted, by the host each came from; `leftover`
is whether an answer to an earlier ping could still come when this one began.
`Net` takes the receive side as a `FrameQueue` and of the send side what `E1000` shows
to be possible: the frame leaves, or the next overwrites it.  `air` is what is on the
way to us: frames stay there as long as they like, are delivered in any order, once,
twice or never.  `ping_cmd` is its four loops, with their heads (`Expire`), `hlt`
(`Tick`, `Wake`) and polls.

### SvgaFifo, Screen

The ring is a sequence of words; `Reserve`, `Put` and `Commit` are the steps of `fifo_cmd` and
`Execute` is the device.  `Screen` has `gui_poll` and `gui_draw` in steps, because Alt+T
marks the screen dirty and the mouse moves from an interrupt: clear `mouse_dirty`,
invalidate the old place of the cursor and the new one (`PollNew`), note it (`PollLast`),
pace, read the rectangle, draw, draw the cursor, clear the flags, present.  The mouse may
move between any two, and between the reads inside a step (`ReadAt`), so that a step may
see a cell the cursor never was in.  What the cells hold is abstracted to three sets:
`stale`, not drawn as they should be, `unseen`, not shown as they are drawn, and `images`,
with the cursor drawn on them.  `bare`, `raced`, `known` and `strays` only record what
happened, for the properties: cells changed with a bare store, or by Alt+T in a frame;
whether the cursor is still where `gui_poll` last found it; images drawn while it was not.
Left out are the link that the browser lights up under the pointer (browser.cpp:256), and
of the start menu all but its rectangle.

### Pci, Ata, Boot, Display

A machine is a constant record: what is on the bus (with devices that answer under
several numbers, and devices that leave numbers out), the drives, the display, and the
tests that answer.  `Order` is the order of `kmain`; each step is an action.  The probes of
the drives may find any of them too slow.  `mouse_init` is one step of `Boot`; its loops are
in `Ps2`.

`Display` begins with the mode of the boot loader (`make RES=`), which may be larger than
`fb_back`: then there is no back buffer and the desktop is drawn into the frame buffer
(`use_back`, `draw`).  It goes on from the shell: a change of resolution is `ResApply`, a wait
in which the card may move its frame buffer (`Relocate`), and `ResSettled`, with the mouse
interrupt between any two; or `ResRefused`, or `ResGivenUp`, when the card is busy too long
after it was switched off or after the mode was set, or has the mode but gives 0 for its
address.  `lost` records that, for the property.  The click comes after the step of the same
`gui_poll` that goes over to direct drawing (`Clicked`).

## 3. The runs

| run | question | bounds |
|---|---|---|
| `window_manager` | do z-order, focus, drag and table stay consistent; does the switcher end? | 4 kinds of windows, 3 entries, deadline of 1 tick |
| `key_ring` | is the ring the queue, under the interrupt? | 5 cells, 2 characters |
| `key_input` | order, separation, no lost wake-up, Alt+Tab served | 3 keys of all 5 kinds, room for 2 in the shell's queue, for 3 in the apps' |
| `ps2` | do the modifiers, the packets and the configuration survive the sharing of the port; does `mouse_init` end? | 3 keys, 2 touches, 2 packets |
| `file_system` | do the arrays implement the map; is the listing exact; is a path resolved to what it stands for? | 8 paths of depth 2, 3 contents, 2 slots, 2 directories, `seen[]` of 2; all texts of up to 6 characters |
| `editor` | does the array behave as a text, is the cursor on the screen, is what is called saved in the file? | array of 5, files of 3, screen of 2 by 2 |
| `shell` | does the screen show the line, does the capture stay with its command? | lines of 2, history of 2, rows of 4, `capbuf` of 3, 2 nested calls |
| `screen` | is what changed drawn, and the cursor where it is; is it seen, and drawn in the end; is the command ring a queue? | 2 cells, the mouse reaches the one beside its start, bare stores for one, a ring of 2 one-word commands |
| `card` | do frames come out whole and in order? | 2 frames, 3 descriptors a ring |
| `network` | is the cache sound, is what ping counts the answer of its host to its request, does ping end? | 2 hosts, cache of 1, 2 pings of 2 requests, waits of 1 tick, 1 descriptor, 1 frame in the air |
| `machine` | is any machine that gets to the shell reported as it is; does the driver follow the card through changes of resolution, and the cursor stay on the screen? | 3 slots, 3 functions, table of 4, 2 drives; 2 boot modes, 3 modes, 2 changes, 2 addresses |
| `alt_t` | violation: the terminal lost from the z-order | 3 windows |

Why the bounds are enough.

- *Window manager*: the table must fill up with kinds to spare (4 against 3); a z-order
  of three windows has a bottom, a middle and a top, so that raising, closing and skipping
  each of them differ; maximized windows are followed in one entry (`MaxSlots`),
  because entries do not influence each other's geometry.  One tick of patience shows a
  deadline that is set anew, runs out, or is overtaken by Alt+Tab.
- *Ring*: five cells hold four keys, wrap and fill in all rotations, and shifting
  starts at the front, in the middle and at the end.
- *Keys*: three keys overflow the shell's queue; the race in `appq_take`, and an
  order that could be wrong after it, need three keys in the apps' queue (its overflow is
  in the run of the ring).
- *PS/2*: a press and a release of a key with a prefix, or of two keys that share a
  flag; two packets, so that a byte lost in the first shifts the second.  Three attempts of
  each mouse command as in the code.
- *Files*: two slots and two directories fill up; two levels make every sort of
  directory, and a ROM file can be shadowed.  Arrays for paths of 9 and 6 characters, names
  of 2 and a depth of 2 are all too small for some of the texts.
- *Editor*: an array of 5 holds three lines on a screen of two; a file of 3 is shorter
  than the longest text, so that saving can fail and old text stays behind the end.
- *Shell*: a full line and the prompt just fill the row; the history shifts; a name
  completes another; the program may print a line feed, a tab, or the start of a colour
  sequence and stop there; a redirected `sh` contains a redirected command.
- *Screen*: two cells make rectangles that differ, overlap and join; the cursor has one cell
  to be in and one to leave an image in.  The ring fills and ends at its end, and its updates
  differ; it is as small as it can be, since steps of the mouse, of Alt+T and of the device come
  between all others.  That a command of several words is written whole is proved for every size
  (`UpdatesInOrder`).
- *Card*: three descriptors are full with two frames, so that both rings wrap.
- *Network*: a cache of one entry evicts the host being pinged; an answer to the first
  request may come while the second is waited for; an answer to the first ping may come
  in the second, which may be of the other host.  With one frame in the air answers come late and
  twice, but in the order they were sent; that order does not matter to the two safety
  properties is what `Net_proofs` shows, for every `MaxAir`.
- *Machine*: `MCMachine` varies one respect at a time from a plain machine, but the bus in
  full: every combination of five kinds of slots on three slots, which overflows the table
  in the middle of a device.  One boot mode fits in the back buffer, one does not; two
  changes are one given up and one that succeeds, or one to a larger and one to a smaller
  screen, each to a frame buffer that may have moved.

### Deadlock

Checked in `file_system`, `key_ring`, `key_input`, `network` and `screen`.  Not in
`window_manager` (Halt, Reboot and a fault stop the machine), `shell` (`exit` of the
outer shell), `card` (a machine without the card), `editor` (a save that
nobody asks for), `ps2` and `machine` (the bounded user is done, the machine at rest).

### Fairness

No fairness is asked of the user, the network, a card or the mouse.  One property assumes more of
the devices than that: `InitEnds`, see below.

- `window_manager`: the timer ticks and the timeout test is reached.  `pit_init` runs before
  the shell and nothing masks IRQ 0, and every wait of the system for keys calls
  `gui_poll` before `hlt`.  `SwitcherEnds` asks that the overlay end only if Alt+Tab is
  not pressed for ever.
- `key_input`: the processor goes on (`WF` of the main thread) and the timer ticks.  With
  the timer alone waking a sleeping main thread, `ShellServed` holds: a key that
  slips in between the empty test and `hlt` waits for a tick at most.
- `screen`: `gui_poll` is called from every loop that waits for a key (`WF(Drawing)`),
  and the timer ticks.  The device need not execute anything for `DrawnInTheEnd`.
- `network`: `WF(Main)` and `WF(Tick)`, as for the keys; `ping_cmd` sleeps in `hlt` and
  the tick ends it.
- `ps2`: interrupts that are pending are taken (`WF(Handlers)`), and `mouse_init`, which polls
  against a deadline of ticks, goes on.  `InitEnds` needs the devices left alone: the loop
  that empties the buffer (mouse.c:152-159) starts over with each byte, so that a mouse
  that never rests keeps `mouse_init` from ending.  Here the bounds `MaxTouches` and
  `MaxPackets` see to that.
- `machine` has none: that `kmain` gets to the shell is a straight line of steps, of which
  only `mouse_init` waits for something that may not come, and that is the question of `ps2`.

### What was found

The run `alt_t` ends in a disagreement of the code with a comment, quoted under "findings" in
`PROJECT.json`: Alt+T in the middle of `win_raise` drops the terminal from the z-order for good.
Four definitions state what a comment, a message or a document says and do not hold; TLC
refutes each of them when it is put as an INVARIANT into the configuration named:

- `AnswersAreFromDst` (`MCNet.cfg`): ping writes "resposta de" and the host it was told to ping,
  also when a late answer of the host pinged before is counted (net.c:347);
- `OneCursor` (`MCScreen.cfg`): the comment at gui.c:4255 has the old cursor and the new
  invalidated, but an image of the cursor drawn where `gui_poll` did not note it is not
  when the mouse moves on: that of the first frame, one drawn while the mouse moved, one
  after a change of resolution;
- `NoBareStore` (`MCScreen.cfg`): six stores of `gui_dirty` without a rectangle are left, though
  contexto.txt:198 says there is none, and with another rectangle dirty what they are for is
  not drawn;
- `DrawnWhereShown` (`MCMachine.cfg`): the comment at gui.c:682 has the frame buffer move with a mode, but
  without a back buffer and without acceleration the desktop is drawn at the old address.

The models show more, which appears as a condition of a property, or as a note under
"hazards":

- closing all windows under the switcher divides by zero (`wm` in mode "fault"),
- a reused window entry inherits a maximized flag and geometry,
- `appq` has 128 cells and indices of 256 values,
- `appq_take` loses a key and doubles another when one arrives meanwhile
  (`KeyQueue`, where the head is stored back),
- a command that ends at the end of the ring leaves the SVGA FIFO rejected from then on;
  with 15360 words and commands of 5 that happens after 3072 updates (`Broken`, and
  `dropped` in `AllSeen`),
- Alt+T while a frame is drawn leaves cells that are not drawn (`raced` in `AllDrawn`, as `bare`
  for the bare stores),
- keys typed ahead that give an app the focus and then start the editor leave it without its
  keys, and Alt+Tab without effect, until Alt+T (`editor` in `HotkeyServed`),
- a change of resolution that is given up halfway leaves the driver with the old geometry and
  the card with none or the new one (`lost` in `ScreenFollows`),
- a transmit that times out is overwritten in the shared buffer (`late` in `FrameIntact`),
- a key hit while `mouse_init` polls may be written back as the configuration byte, and a
  prefix read too early leaves a modifier on (`disturbed`, `stray`),
- in the terminal window the line behind the cursor is not seen, as each character written
  ends the row with a zero byte (`LineShown`); sixteen tabs hang the kernel (`TabHangs`),
- a redirected command inside a redirected one ends the capture of the outer
  (`RedirectExact`),
- the Notepad, and Ctrl+X in both editors, do not look at a failed save (`SavedMeansSaved`),
- directories of more than 16 names list some twice (`ListingExact` is about the set),
- a name of 64 characters, or a walk more than 32 deep, is left out of a path
  (`ResolvesLexically`); `mv` of a file onto itself removes it.

## 4. The proofs

All are for every value of the constants that satisfies the assumptions of the modules.
Every inductive invariant was first checked by TLC on the run of its component.

`WindowManager_proofs`, from `AppAssumption` and `BoundAssumption` (the special windows
are kinds of windows, the table has an entry).  The theorems are `Typed`,
`ZOrderIsExact`, `NoSecondWindow`, `FocusedIsTop`, `DraggedIsShown` and the action property
`OnlyFocusRaises`.  The inductive invariant conjoins the four safety properties with the
type invariant: that closing a window removes it from the z-order needs that it occurs
once; that the new focus is the top needs exactness; that `win_open` takes a free entry
needs that `win_find` found none.  The argument is by C function, not by action: there is
one lemma for each operator on `wm` (raise, focus, open, close, minimize, maximize) saying
that it preserves the invariant, and an action is a chain of these lemmas, as the handler
is a chain of calls.  `OnlyFocusRaises` has in the same way one lemma per operator on what it
does to the relative order of two windows.

`KeyRing_proofs`, from `RingAssumption` (the index has at least two values).  The theorems
are `Typed` and `Implements`: a ring of any width is the queue of `KeyQueue`.  The
invariant adds to the types that the ring is not empty while `appq_take` has shifted it, and that
the head it has loaded is not beyond the one the interrupt has moved since;
without it the store of the head less one could leave a full ring.  The arithmetic modulo
`Wrap` is settled once, in the lemmas on rings of `CommonLemmas`, which the rings of the
cards use too; one lemma for each action (`PushMaps` and so on) turns it into the action of
the queue.

`Keyboard_proofs` has two parts.  For `KeyInput`, from `KeyAssumption`: `OrderKept` and
`SwitcherTakesAll`.  Invariant: both queues are sorted by the time of typing, nothing in
them is older than what was last taken from them nor younger than the last key; and
while `appq_take` is between its steps the head it read is one the queue still has
(`Taking`), which is what keeps the interrupt from breaking the order.
For `Ps2`, from `Ps2Assumption`: `KeyboardOn`, `PacketsInStep` and `ModifiersTrue`.  The first needs
that a byte that `mouse_init` takes for the configuration is the one it asked for
(`AskedWell`).  The second needs the place of every byte of a packet still on its way
(`Framing`), not only of those gathered.  The third (`Following`) says what the flags will
be once the bytes that are under way have been read, and that this is how the keys
are held: the property itself says nothing while a byte is pending, and every key
press makes one pending.

`FileSystem_proofs` has two parts.  For `FileSystem`, from `FsAssumption` (the root is a
path and no file, ROM files and ROM directories are disjoint, the tables have a size): `Typed`,
`SlotIsUnique`, `FileIsNoMadeDir`, `NoDirTwice`, and `Implements`, that the arrays are the map
and the set of `FileStore`.  The invariant is the conjunction of the first four: a write
that reuses a slot keeps uniqueness because the search returns the first slot with the
path; `mkdir` keeps files and directories apart because it asks `fs_exists`, and
`write` because it asks `fs_isdir`.  The refinement has one lemma for each call; it needs
`SlotIsUnique` to read the slots as a function, `NoDirTwice` to count the directories.
`ListingIsExact`, which also assumes `ListingAssumption` (the two tables of the ROM list its
files and its directories), needs only the types: one invariant of the loop of `fs_list` says
that the names given so far are those of the entries passed that are inside the directory,
and that `seen[]` has no other; what it forgets is listed twice, never lost.  It uses that
a directory on the way to a path is a path (`FsAssumption`).
`PathsAreMeant` is from `PathAssumption` (texts and names are made of characters, of which
`.` and `/` are two; the array for the text is larger than the one for the result).  By
induction over the tokens the stack holds the names that stay (`StackStands`).  The case
that needs an argument is `..`, which takes the last of them and no other (`StaysUp`): had
the walk come further down since that name, the token at which it did would be a name that
stays too; and the names before it were entered further up.
For `Editor`, from `EditorAssumption`: `CursorIsShown`, `SavedIsSaved` and `IsTextBuffer`.
The two loops that scroll are functions of where the top of the screen is; they end
because each round brings it nearer to the cursor, and keep it at the start of a line
(`LoopEnds`, `LoopKeeps`).  The refinement says for each key what becomes of the
array on both sides of the cursor; what is behind the end of the text moves too and
never comes back into it.

`Shell_proofs`, from `ShellAssumption` and `ConsoleAssumption`: `WithinBounds` (lengths
and indices of line, history and buffer), `CapturedLive` and the action property
`Redirected`.  The invariant (`Capture`) ties the global pointer to the stack of calls: the
captured call is the redirected one that has no redirected one above it, and its buffer is the
beginning of what was said since it began, cut off at its size.  `CaptureIsLive` alone
is not inductive, since a return would have to know that no call below is captured.

`LineIsShown`, in the same module, also assumes `PlainAssumption`: what is typed and the
names of files are printable, and a prompt shows something and ends every colour sequence it
begins, as those of `prompt_print` do.  The proof goes through what `console_puts` does to a row,
character by character (`Steps`), both screens at once:

- plain characters replace as many cells of the row (text mode) or end the row behind
  them (terminal), as long as they do not reach the end of it (`TextOn`); a carriage return
  only moves the cursor; a text after a text is their concatenation (`PutsJoin`);
- a prompt acts on any row as on an empty one and then leaves the rest alone (`PromptOn`), which
  `~Wraps` is needed for: a prompt that is longer than the row on its way has moved on to the
  next;
- so `Redrawn`, which prints prompt, line, blanks up to `shown`, and prompt and line up to the cursor
  again, makes any row that holds nothing behind `shown` the one that `LineShown` asks for (`RedrawnOn`);
- the invariant `LInv` adds to `IInv` that the line, the draft and the history are printable,
  that `shown` is at least the length of the line, and the property.  There is a lemma for
  each key; Ctrl+L, a list of completions, Ctrl+C and the end of a command start a new row
  (`ListedEmpties`, `ReadLineDraws`), the others redraw the old one (`RenderDraws`, `EchoDraws`).

`Net_proofs`, from `NetAssumption`: `CacheIsSound`, `CountIsTrue` and `StatisticsAdd`.
The invariant is about provenance: every frame in the air and in the card names its sender
and the card of its sender, and an echo reply among them, unless an answer could still
come when the ping began, answers a request of this ping and is of its host.  Then it does
not matter which of them are lost, doubled or late.

`Devices_proofs` has three parts.

- `E1000`, from `CardAssumption` (rings of at least two descriptors): `Implements`, that the
  receive ring is a `FrameQueue`, and `Intact`.  The "done" bits are those of the
  descriptors between the one read next and the head of the card, and the tail is always
  the one read last (`RxFramed`); at most one descriptor is in flight as long as no send
  gave up (`OneInFlight`), so that the shared buffer is free when it is filled.
- `Boot`, from `PciAssumption`, `AtaAssumption` and `MachineAssumption` (a bus is slots,
  drives are numbered): `TableIsExact` and `RegistryIsTrue`.  The entries of the table correspond
  one to one to functions that answer for themselves; this is kept by each function of a
  slot (`SlotTold`) and each slot of the bus (`BusTold`), and with a table that is large
  enough it is all of them (`AllTold`).  The invariant of the start says, step by step, what
  is known of the table, the drives and the registry once the step is past, and that nothing told of a
  driver is taken back.
- `Display`, from `DisplayAssumption`: `CursorStays`, `ScreenIsFollowed`.  While `res_apply` waits,
  the frame buffer may have moved and the cursor may be where the larger screen was; the
  invariant asks the rest, and that with direct drawing `draw` is the address the driver has
  (`DrawnTo`).  A change given up halfway is excluded until one succeeds.
- `Screen` over `SvgaFifo`, from `ScreenAssumption` and `FifoAssumption` (the ring holds a whole
  number of commands, as 15360 words do of 5): `EverythingDrawn`, `CursorIsDrawn`,
  `EverythingSeen`, `UpdatesInOrder`.
  `RingInv` reads the words as a ring of commands; offsets are multiples of the size of a
  command, so that the branch of `fifo_reserve` that starts over is never taken.  `Drawn` and `Seen`
  account at each step of a frame for every cell that is stale or unseen: it is in the
  dirty rectangle, or in the clip rectangle of the frame being drawn, or in an update.
  `CursorInv` does the same for the cursor: an image is where `gui_poll` noted the cursor, or
  will be drawn over, or is a stray; and the place of the cursor has its image, or will be
  drawn, or `mouse_dirty` is set.

Only model-checked, and why:

- liveness (`SwitcherEnds`, `ShellServed`, `HotkeyServed`, `DrawnInTheEnd`, `PingEnds`,
  `InitEnds`): fairness and `ENABLED` are out of the prover's reach;
- `TermStaysListed`, which `alt_t` shows violated, and the four definitions under "What was
  found": they do not hold.

## 5. Not modelled

- *Single shell commands.*  A program is what it prints; the commands on files are one
  call of the file system each, or two one after the other (`cp`, `mv`, `>>`).
- *Pixels*: drawing primitives, fonts, layout, the contents of the apps (explorer, calendar,
  snake, matrix, cube, music), the HTML subset of the browser, BMP.  Colours of the two
  consoles, their rows above the cursor, and the view of the scrollback.
- *The C interpreter*: a sequential recursive parser of a text; its interest is in what it
  computes for a given text.
- *Port input and output without state*: clock, speaker, CPU detection, the set-up of the
  8259 and of the timer, the registers `e1000_init` writes.  `libc`, the start-up test of the
  C++ runtime, the generated ROM image, the machine code of the boot.
- *`svga_fill` and the hardware cursor* of the SVGA device: nothing calls `svga_fill` or
  `svga_cursor_init`, without which there is no such cursor.
- *Checksums*: a frame is damaged or not.

Limits of what is modelled: the queues in `KeyInput` are those of
`KeyQueue`, so that keys stored behind the end of `appq` are seen in `KeyRing` only; `Editor` starts the
Notepad whether its window opens or not; Snake and Matrix have modal loops that do not
block, and a command that drains the shell's queue is one step in `KeyInput`;
`res_apply` leaves the windows where they are, so that one may be outside a smaller screen,
which `WindowManager`, without coordinates, does not see; the scan of `Pci` stores the
functions of a device that overflow the table behind its end, and what that destroys is
not followed; `rl_complete` takes 32 candidates at most, `Shell` all of them.

## 6. What could follow

The models are complete as far as they are planned, and every safety property the passing
runs check is proved.  Further work would go, in this order, to

1. the browser and the C interpreter, which are not modelled: both walk a text with indices
   into arrays of a fixed size, as `fs_resolve` does, and could be operators like `PathNames`;
2. the places of the windows, for `res_apply` and for dragging;
3. `KeyInput` over two instances of `KeyRing` in the place of `KeyQueue`, to follow keys that
   are stored behind the end of `appq` through the loops that read them.
