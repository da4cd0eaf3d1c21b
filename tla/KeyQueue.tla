------------------------------ MODULE KeyQueue ------------------------------
(***************************************************************************)
(* What the two key queues of the kernel promise: a bounded FIFO between   *)
(* the keyboard interrupt, which appends, and the main thread, which takes *)
(* from the front with interrupts off.  The main thread also takes hotkeys *)
(* out of the middle (appq_take), and does that with interrupts on: first  *)
(* it closes the gap, then it reads the head, then it stores the head less *)
(* one, and the interrupt may append between any two of these.             *)
(***************************************************************************)
EXTENDS Integers, Sequences

CONSTANTS
  Key,        \* what a queue holds
  Codes,      \* sets of keys: those that hold the same character
  NoKey,      \* a cell nothing was written to
  Capacity    \* how many keys fit

VARIABLES
  queue,      \* the keys in it, the next one to leave first
  got,        \* the register of the main thread a key is popped into
  step,       \* appq_take: "idle", "shifted" (gap closed), "loaded" (head read)
  count       \* the length appq_take read

vars == <<queue, got, step, count>>

Push(k) ==
  /\ queue' = IF Len(queue) < Capacity THEN Append(queue, k) ELSE queue
  /\ UNCHANGED <<got, step, count>>

Pop ==
  /\ step = "idle" /\ queue # <<>>
  /\ got' = Head(queue) /\ queue' = Tail(queue)
  /\ UNCHANGED <<step, count>>

\* Where the characters of K are; the first of them.
Places(K) == {i \in DOMAIN queue : queue[i] \in K}
First(K)  == CHOOSE i \in Places(K) : \A j \in Places(K) : i <= j

\* Mutant: the gap is closed with the last key instead of a shift.
TakeSwapLast(K) ==
  /\ step = "idle" /\ Places(K) # {}
  /\ queue' = [queue EXCEPT ![First(K)] = queue[Len(queue)]]
  /\ step' = "shifted"
  /\ UNCHANGED <<got, count>>

TakeShift(K) ==
  /\ step = "idle" /\ Places(K) # {}
  /\ queue' = [i \in DOMAIN queue |->
                 IF First(K) <= i /\ i < Len(queue) THEN queue[i + 1] ELSE queue[i]]
  /\ step' = "shifted"
  /\ UNCHANGED <<got, count>>

TakeLoad ==
  /\ step = "shifted" /\ step' = "loaded" /\ count' = Len(queue)
  /\ UNCHANGED <<queue, got>>

TakeStore ==
  /\ step = "loaded" /\ step' = "idle" /\ count' = 0
  /\ queue' = SubSeq(queue, 1, count - 1)
  /\ UNCHANGED got

Init == queue = <<>> /\ got = NoKey /\ step = "idle" /\ count = 0

Next ==
  \/ \E k \in Key : Push(k)
  \/ Pop
  \/ \E K \in Codes : TakeShift(K)
  \/ TakeLoad \/ TakeStore

Spec == Init /\ [][Next]_vars
=============================================================================
