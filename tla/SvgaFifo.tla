------------------------------ MODULE SvgaFifo ------------------------------
(***************************************************************************)
(* The command ring of the SVGA driver (svga.c): the driver reserves room, *)
(* writes a command and only then moves F_NEXT; the device executes what   *)
(* is between F_STOP and F_NEXT.  The desktop queues one sort of command,  *)
(* UPDATE of a rectangle; nothing calls svga_fill and svga_cursor_init.    *)
(* Offsets count dwords from F_MIN on: F_MIN is 0 and F_MAX is Words.      *)
(***************************************************************************)
EXTENDS Integers, Sequences

CONSTANTS
  Rect,       \* the rectangles of UPDATE commands
  NoCmd,
  CmdWords,   \* dwords of an UPDATE: 5
  Words       \* dwords between F_MIN and F_MAX: 15360, a multiple of 5

ASSUME FifoAssumption ==
  /\ CmdWords \in Nat \ {0} /\ Words \in Nat /\ Words > CmdWords /\ Words % CmdWords = 0
  /\ NoCmd \notin Rect

VARIABLES
  mem,        \* the dwords: the command each belongs to
  next, stop, \* F_NEXT, F_STOP
  off,        \* in fifo_cmd: the offset reserved, -1 if none
  cmd         \* in fifo_cmd: the command

fifo == <<mem, next, stop, off, cmd>>

\* The words of the command at an offset, as fifo_put32 wraps them.
WordsAt(o) == {(o + k) % Words : k \in 0 .. CmdWords - 1}

Broken == next >= Words \/ stop >= Words
\* Once wrapped the code counts F_MIN as used too (svga.c:133); F_NEXT is never behind F_STOP,
\* because a command that ends at F_MAX is the last the ring takes (Broken).
Used == IF next >= stop THEN next - stop ELSE Words - stop + next
Fits == Words - Used >= CmdWords + 1
AtEnd == next + CmdWords > Words /\ next # 0

\* An iteration of fifo_reserve that succeeds.  At the end of the ring it waits until
\* the device has read all, and starts over.
Reserve(r) ==
  /\ cmd = NoCmd /\ ~Broken /\ Fits
  /\ AtEnd => next = stop
  /\ next' = IF AtEnd THEN 0 ELSE next
  /\ off' = next' /\ cmd' = r
  /\ UNCHANGED <<mem, stop>>

\* It fails at once in an invalid state, and after 100000 iterations without room.
\* The pointer is not volatile: a compiler may read the ring once for all of them.
CannotReserve == Broken \/ ~Fits \/ (AtEnd /\ next # stop)

\* Mutant: F_NEXT is moved before the command is there.
PutLate == cmd # NoCmd /\ next = off /\ next' = off + CmdWords /\ UNCHANGED <<mem, stop, off, cmd>>

Put ==
  /\ cmd # NoCmd /\ mem[off] # cmd
  /\ mem' = [w \in 0 .. Words - 1 |-> IF w \in WordsAt(off) THEN cmd ELSE mem[w]]
  /\ UNCHANGED <<next, stop, off, cmd>>

\* fifo_commit does not wrap.
Commit ==
  /\ cmd # NoCmd /\ mem[off] = cmd
  /\ next' = off + CmdWords /\ off' = -1 /\ cmd' = NoCmd
  /\ UNCHANGED <<mem, stop>>

\* The device executes the next command; it takes none from an invalid ring.
Execute ==
  /\ ~Broken /\ next # stop
  /\ stop' = (stop + CmdWords) % Words
  /\ UNCHANGED <<mem, next, off, cmd>>

FifoInit ==
  /\ mem = [w \in 0 .. Words - 1 |-> NoCmd] /\ next = 0 /\ stop = 0 /\ off = -1 /\ cmd = NoCmd

\* What the device has still to execute.
Queued == [k \in 1 .. Used \div CmdWords |-> mem[(stop + (k - 1) * CmdWords) % Words]]
=============================================================================
