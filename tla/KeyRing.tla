------------------------------ MODULE KeyRing ------------------------------
(***************************************************************************)
(* The rings kbd_buf of keyboard.c (256 cells) and appq of gui.c (128      *)
(* cells).  Both are indexed by a uint8_t that is only ever wrapped by its *)
(* width.  One module stands for both: they differ in Size, and nothing    *)
(* takes from the middle of kbd_buf.                                       *)
(***************************************************************************)
EXTENDS Integers, Sequences

CONSTANTS
  Key, Codes, NoKey,
  Wrap,       \* 2^8, the values of the index
  Size        \* KBD_BUF_SIZE, APPQ: the cells of the array

ASSUME RingAssumption ==
  /\ Wrap \in Nat \ {0, 1} /\ Size \in 1 .. Wrap
  /\ NoKey \notin Key /\ Codes \subseteq SUBSET Key

Index == 0 .. Wrap - 1

VARIABLES
  buf,        \* the cells an index can name, those after the array included
  head, tail, \* kbd_head and kbd_tail, appq_h and appq_t
  got, step,
  loaded      \* the head as appq_take read it

vars == <<buf, head, tail, got, step, loaded>>

\* (uint8_t)(i + 1).
After(i) == (i + 1) % Wrap

\* kbd_push, gui_app_push, inside the keyboard interrupt.
\* Mutant: a full queue is not noticed.
PushAlways(k) ==
  /\ buf' = [buf EXCEPT ![head] = k] /\ head' = After(head)
  /\ UNCHANGED <<tail, got, step, loaded>>

Push(k) ==
  /\ IF After(head) = tail THEN UNCHANGED <<buf, head>>
     ELSE buf' = [buf EXCEPT ![head] = k] /\ head' = After(head)
  /\ UNCHANGED <<tail, got, step, loaded>>

\* The part under cli of keyboard_getraw, keyboard_try_get, gui_app_getkey.
Pop ==
  /\ step = "idle" /\ head # tail
  /\ got' = buf[tail] /\ tail' = After(tail)
  /\ UNCHANGED <<buf, head, step, loaded>>

\* The cells in use, in order, and the first of them in K.
Count    == (head - tail) % Wrap
Cell(i)  == (tail + i) % Wrap
Found(K) == {i \in 0 .. Count - 1 : buf[Cell(i)] \in K}
First(K) == CHOOSE i \in Found(K) : \A j \in Found(K) : i <= j

\* appq_take: the search and the shift only read cells the interrupt no longer
\* writes, so the last read of appq_h decides for both.
TakeShift(K) ==
  /\ step = "idle" /\ Found(K) # {}
  /\ LET gap == {Cell(i) : i \in First(K) .. Count - 2}
     IN buf' = [c \in Index |-> IF c \in gap THEN buf[After(c)] ELSE buf[c]]
  /\ step' = "shifted"
  /\ UNCHANGED <<head, tail, got, loaded>>

\* appq_h = (uint8_t)(appq_h - 1): a load and a store of a volatile.
TakeLoad ==
  /\ step = "shifted" /\ step' = "loaded" /\ loaded' = head
  /\ UNCHANGED <<buf, head, tail, got>>

TakeStore ==
  /\ step = "loaded" /\ step' = "idle" /\ head' = (loaded - 1) % Wrap /\ loaded' = 0
  /\ UNCHANGED <<buf, tail, got>>

Init ==
  /\ buf = [c \in Index |-> NoKey] /\ head = 0 /\ tail = 0
  /\ got = NoKey /\ step = "idle" /\ loaded = 0

Next ==
  \/ \E k \in Key : Push(k)
  \/ Pop
  \/ \E K \in Codes : TakeShift(K)
  \/ TakeLoad \/ TakeStore

Spec == Init /\ [][Next]_vars
---------------------------------------------------------------------------
\* The indices stay indices and a cell holds a key or was never written.
TypeOK ==
  /\ buf \in [Index -> Key \cup {NoKey}]
  /\ head \in Index /\ tail \in Index /\ loaded \in Index
  /\ got \in Key \cup {NoKey}
  /\ step \in {"idle", "shifted", "loaded"}

\* Whatever the interrupt does between the steps of appq_take, the rings do what
\* the queue of KeyQueue does: a full ring drops the new key and never the old
\* ones, the head never passes the tail, keys leave in the order they came.
Queue == INSTANCE KeyQueue WITH
  queue    <- [i \in 1 .. Count |-> buf[Cell(i - 1)]],
  count    <- IF step = "loaded" THEN (loaded - tail) % Wrap ELSE 0,
  Capacity <- Wrap - 1
QueueSpec == Queue!Spec
=============================================================================
